--------------------------- MODULE Panels_proofs ---------------------------
(***************************************************************************)
(* Proofs about Panels for any keys, rows and number of operations: the    *)
(* tree holds what was listed and frees nothing in use, the page shown is  *)
(* that of the current key, and what was saved is what is stored.          *)
(***************************************************************************)
EXTENDS Panels, FiniteSetTheorems, SequenceTheorems, TLAPS

-----------------------------------------------------------------------------
(* Types.                                                                  *)

Contents == Values \union {None}
Items == Types \union {"unknown", "absent", "none"}

Asks(cmds) == [cmd : cmds, key : Keys, gen : Nat, more : BOOLEAN]
Edits == [cmd : {"SET", "DEL", "ADD"}, key : Keys, type : Types, rows : SUBSET Rows]
Renames == [cmd : {"RENAME"}, key : Keys, to : Keys]
Changes == Edits \union Renames
Loads == [cmd : {"LOAD"}, key : Keys, type : Types]
Sentinels == [cmd : {"SENTINEL"}]
KeysAsked == [cmd : {"KEYS"}, gen : Nat]
KeysFound == [cmd : {"KEYS"}, gen : Nat, keys : SUBSET Keys]
TypesFound == [cmd : {"TYPE"}, key : Keys, gen : Nat, type : Types \union {"unknown", "none"}]
Filled == [cmd : {"LOAD"}, key : Keys, type : Types, rows : SUBSET Rows]

Requests ==
  Sentinels \union KeysAsked \union Asks({"EXISTS", "TYPE", "TEXT"}) \union Loads \union Changes
Replies ==
  Sentinels \union KeysFound \union Asks({"EXISTS", "TEXT"}) \union TypesFound \union Filled

TypeOK ==
  /\ store \in [Keys -> Contents] /\ want \in [Keys -> Contents]
  /\ hasType \in BOOLEAN /\ open \in BOOLEAN
  /\ req \in Seq(Requests) /\ rep \in Seq(Replies)
  /\ gen \in Nat /\ tree \in [Keys -> Items] /\ loaded \in SUBSET Keys
  /\ menu \in [key : Keys, gen : Nat] \union {None}
  /\ cur \in Keys \union {None} /\ curType \in Items
  /\ pages \in [Types -> [of : Keys \union {None}, rows : SUBSET Rows]]
  /\ stale \in BOOLEAN /\ overlapped \in BOOLEAN
  /\ listed \in SUBSET Keys
  /\ raced \in BOOLEAN /\ lost \in BOOLEAN /\ jobs \in Nat

-----------------------------------------------------------------------------
(* The viewer.  The last load of the current type under way is for the     *)
(* current key; with none under way the page is the key's.                 *)

IsLoad(m, t) == m.cmd = "LOAD" /\ m.type = t
NoLoad(q, t) == \A i \in 1..Len(q) : ~IsLoad(q[i], t)
LastIsFor(q, t, k) ==
  \A i \in 1..Len(q) :
    IsLoad(q[i], t) /\ (\A j \in 1..Len(q) : j > i => ~IsLoad(q[j], t)) => q[i].key = k

LoadsLeadTo(t, k) ==
  /\ LastIsFor(req, t, k)
  /\ NoLoad(req, t) => LastIsFor(rep, t, k)
  /\ NoLoad(req, t) /\ NoLoad(rep, t) => pages[t].of = k

Shown ==
  /\ ~open => cur = None /\ rep = <<>>
  /\ \A t \in Types, k \in Keys : curType = t /\ cur = k => LoadsLeadTo(t, k)

-----------------------------------------------------------------------------
(* The writes.  Executing what is under way leads from the store to what   *)
(* is wanted: there is a course of stores, one per request.                *)

Effect(s, m) ==
  CASE m.cmd = "SET" -> [s EXCEPT ![m.key] = [type |-> "string", rows |-> m.rows]]
    [] m.cmd = "DEL" -> [s EXCEPT ![m.key] = None]
    [] m.cmd = "RENAME" -> Renamed(s, m.key, m.to)
    [] m.cmd = "ADD" ->
         LET v == s[m.key]
         IN  IF v = None THEN [s EXCEPT ![m.key] = [type |-> m.type, rows |-> m.rows]]
             ELSE IF v.type = m.type THEN [s EXCEPT ![m.key].rows = @ \union m.rows]
             ELSE s
    [] OTHER -> s

Course(h, q, from, to) ==
  /\ h \in [0..Len(q) -> [Keys -> Contents]]
  /\ h[0] = from /\ h[Len(q)] = to
  /\ \A i \in 1..Len(q) : h[i] = Effect(h[i - 1], q[i])

Leads(q, from, to) == \E h : Course(h, q, from, to)

Saved == ~lost /\ ~raced => Leads(req, store, want)

-----------------------------------------------------------------------------
(* The tree.  The chains under way are those of the last refresh; while    *)
(* its KEYS is, there is nothing else.                                     *)

Flying == Range(req) \union Range(rep)

HasKeys(M) == \E m \in M : m.cmd = "KEYS"
HasChain(M) == \E m \in M : m.cmd \in Chain

\* With a KEYS there is no other message of a chain, in its queue and in the other.
KeysOnce(q) == \A i, j \in 1..Len(q) : q[i].cmd = "KEYS" /\ q[j].cmd \in Chain => i = j
Apart(M, N) == (HasKeys(M) => ~HasChain(N)) /\ (HasKeys(N) => ~HasChain(M))
KeysAlone == KeysOnce(req) /\ KeysOnce(rep) /\ Apart(Range(req), Range(rep))

ThisRefresh == \A m \in Flying : m.cmd \in Chain => m.gen = gen
Cleared == HasKeys(Flying) => loaded = {} /\ \A k \in Keys : tree[k] = "absent"
AnswerListed == \A m \in Range(rep) : m.cmd = "KEYS" => m.keys = listed
AskedLoaded == \A m \in Flying : m.cmd \in {"EXISTS", "TYPE", "TEXT"} => m.key \in loaded
Chains == KeysAlone /\ ThisRefresh /\ Cleared /\ AnswerListed /\ AskedLoaded

Promised(k) == \E m \in Flying : m.cmd = "EXISTS" /\ m.key = k
Starting == \E m \in Flying : m.cmd \in {"SENTINEL", "KEYS"}
Complete == loaded = listed /\ \A k \in loaded : tree[k] # "absent" \/ Promised(k)

Fresh ==
  /\ ~open => rep = <<>>
  /\ ~overlapped =>
       /\ ~stale
       /\ menu # None => menu.gen = gen
       /\ \A k \in Keys : tree[k] # "absent" => k \in loaded
       /\ open => Chains /\ (gen > 0 /\ ~Starting => Complete)

-----------------------------------------------------------------------------
(* Queues and sets.                                                        *)

\* SetToSeq lists each member of a finite set.
LEMMA SetToSeqListsAll ==
  ASSUME NEW S, IsFiniteSet(S)
  PROVE  /\ Cardinality(S) \in Nat
         /\ SetToSeq(S) \in [1..Cardinality(S) -> S]
         /\ {SetToSeq(S)[i] : i \in 1..Cardinality(S)} = S
<1> DEFINE n == Cardinality(S)
<1>1. n \in Nat /\ ExistsBijection(1..n, S)
  BY FS_CardinalityType
<1>2. PICK f : f \in Bijection(1..n, S)
  BY <1>1 DEF ExistsBijection
<1>3. f \in [1..n -> S] /\ IsInjective(f)
  BY <1>2 DEF Bijection, Injection, IsInjective
<1>4. SetToSeq(S) \in [1..n -> S] /\ IsInjective(SetToSeq(S))
  BY <1>3 DEF SetToSeq
<1>5. SetToSeq(S) \in Injection(1..n, S)
  BY <1>4 DEF Injection, IsInjective
<1>6. IsFiniteSet(1..n) /\ Cardinality(1..n) = n
  BY <1>1, FS_Interval
<1>7. SetToSeq(S) \in Surjection(1..n, S)
  BY <1>5, <1>6, FS_Injection
<1> QED
  BY <1>1, <1>4, <1>7 DEF Surjection

LEMMA Finite == \A S \in (SUBSET Keys) \union (SUBSET Rows) : IsFiniteSet(S)
  BY ConstantsAssumption, FS_Subset

\* The messages the handlers send.
LEMMA MessageTypes ==
  /\ \A g \in Nat : [cmd |-> "KEYS", gen |-> g] \in KeysAsked
  /\ [cmd |-> "SENTINEL"] \in Sentinels
  /\ \A k \in Keys, g \in Nat, cmds \in SUBSET STRING, c \in STRING : c \in cmds => Ask(c, k, g) \in Asks(cmds)
  /\ \A c \in {"SET", "DEL", "ADD"}, k \in Keys, t \in Types, rows \in SUBSET Rows : Write(c, k, t, rows) \in Edits
  /\ \A k, to \in Keys : [cmd |-> "RENAME", key |-> k, to |-> to] \in Renames
  /\ \A k \in Keys, t \in Types : [cmd |-> "LOAD", key |-> k, type |-> t] \in Loads
  BY DEF KeysAsked, Sentinels, Asks, Ask, Edits, Write, Renames, Loads

LEMMA FunctionIsSeq ==
  ASSUME NEW S, NEW n \in Nat, NEW f \in [1..n -> S]
  PROVE  f \in Seq(S) /\ Len(f) = n
<1>1. f \in Seq(S)
  BY SeqDef
<1> QED
  BY <1>1, LenProperties

LEMMA OneMessage == \A m : <<m>> \in Seq({m}) /\ Len(<<m>>) = 1 /\ <<m>>[1] = m
  OBVIOUS

LEMMA OneRequest == \A m \in Requests : <<m>> \in Seq(Requests)
  OBVIOUS

\* What a save sends for its rows, one write per row.
RowWrites(k, rows) ==
  [i \in 1..Cardinality(rows) |-> Write("ADD", k, "hash", {SetToSeq(rows)[i]})]

LEMMA RowWriteTypes ==
  ASSUME NEW k \in Keys, NEW rows \in SUBSET Rows
  PROVE  RowWrites(k, rows) \in Seq(Edits) /\ Len(RowWrites(k, rows)) = Cardinality(rows)
<1>1. IsFiniteSet(rows)
  BY Finite
<1>2. Cardinality(rows) \in Nat /\ SetToSeq(rows) \in [1..Cardinality(rows) -> rows]
  BY <1>1, SetToSeqListsAll
<1>3. \A i \in 1..Cardinality(rows) : Write("ADD", k, "hash", {SetToSeq(rows)[i]}) \in Edits
  BY <1>2, MessageTypes DEF Types
<1>4. RowWrites(k, rows) \in [1..Cardinality(rows) -> Edits]
  BY <1>3 DEF RowWrites
<1> QED
  BY <1>2, <1>4, FunctionIsSeq

LEMMA SavingTypes ==
  ASSUME NEW k \in Keys, NEW t \in Types, NEW rows \in SUBSET Rows
  PROVE  Saving(k, t, rows) \in Seq(Edits)
<1>1. /\ Write("SET", k, t, rows) \in Edits /\ Write("ADD", k, t, rows) \in Edits
      /\ Write("DEL", k, t, {}) \in Edits
  BY MessageTypes
<1>2. CASE t = "string"
  BY <1>1, <1>2 DEF Saving
<1>3. CASE t = "list"
  BY <1>1, <1>3 DEF Saving
<1>4. CASE t = "hash"
  <2>1. Saving(k, t, rows) = <<Write("DEL", k, t, {})>> \o RowWrites(k, rows)
    BY <1>4 DEF Saving, RowWrites
  <2>2. <<Write("DEL", k, t, {})>> \in Seq(Edits)
    BY <1>1
  <2> QED
    BY <2>1, <2>2, RowWriteTypes, ConcatProperties
<1> QED
  BY <1>2, <1>3, <1>4 DEF Types

\* What the answer to KEYS sends for the keys not met before.
Asking(new, g) ==
  [i \in 1..Cardinality(new) |->
     LET k == SetToSeq(new)[i] IN Ask(IF k \in Products THEN "EXISTS" ELSE "TYPE", k, g)]

LEMMA AskingTypes ==
  ASSUME NEW new \in SUBSET Keys, NEW g \in Nat
  PROVE  /\ Asking(new, g) \in Seq(Asks({"EXISTS", "TYPE"}))
         /\ Len(Asking(new, g)) = Cardinality(new)
<1>1. IsFiniteSet(new)
  BY Finite
<1>2. Cardinality(new) \in Nat /\ SetToSeq(new) \in [1..Cardinality(new) -> new]
  BY <1>1, SetToSeqListsAll
<1>3. \A k \in Keys : Ask(IF k \in Products THEN "EXISTS" ELSE "TYPE", k, g) \in Asks({"EXISTS", "TYPE"})
  BY DEF Ask, Asks
<1>4. Asking(new, g) \in [1..Cardinality(new) -> Asks({"EXISTS", "TYPE"})]
  BY <1>2, <1>3 DEF Asking
<1> QED
  BY <1>2, <1>4, FunctionIsSeq

LEMMA MoreRequests ==
  /\ Seq(Edits) \subseteq Seq(Requests)
  /\ Seq(Asks({"EXISTS", "TYPE"})) \subseteq Seq(Requests)
<1>1. Edits \subseteq Requests
  BY DEF Requests, Changes
<1>2. Asks({"EXISTS", "TYPE"}) \subseteq Requests
  BY DEF Requests, Asks
<1> QED
  BY <1>1, <1>2, SeqMonotonic

-----------------------------------------------------------------------------
(* Type correctness.                                                       *)

LEMMA SendTypes ==
  ASSUME TypeOK, NEW msgs \in Seq(Requests), Send(msgs)
  PROVE  req' \in Seq(Requests)
  BY ConcatProperties DEF TypeOK, Send

LEMMA HandleTypes ==
  ASSUME TypeOK, NEW cmd, Handle(cmd)
  PROVE  /\ rep' \in Seq(Replies) /\ Head(rep) \in Replies
         /\ store' \in [Keys -> Contents] /\ want' \in [Keys -> Contents]
         /\ open' \in BOOLEAN /\ raced' \in BOOLEAN /\ lost' \in BOOLEAN
         /\ listed' \in SUBSET Keys /\ jobs' \in Nat
  BY HeadTailProperties DEF TypeOK, Handle, history

LEMMA RefreshTypes ==
  ASSUME TypeOK, Refresh
  PROVE  /\ gen' \in Nat /\ tree' \in [Keys -> Items] /\ loaded' \in SUBSET Keys
         /\ stale' \in BOOLEAN /\ overlapped' \in BOOLEAN
  BY DEF TypeOK, Refresh, Items

LEMMA AskKeysTypes == TypeOK => AskKeys \in Seq(Requests)
<1>1. TypeOK => [cmd |-> "KEYS", gen |-> gen + 1] \in Requests
  BY MessageTypes DEF TypeOK, Requests
<1> QED
  BY <1>1, OneRequest DEF AskKeys

\* The reply to each command, and what it holds.
LEMMA ReplyKinds ==
  \A m \in Replies :
    /\ m.cmd = "KEYS" => m \in KeysFound
    /\ m.cmd = "TYPE" => m \in TypesFound
    /\ m.cmd \in {"EXISTS", "TEXT"} => m \in Asks({"EXISTS", "TEXT"})
    /\ m.cmd = "LOAD" => m \in Filled
    /\ m.cmd = "SENTINEL" => m \in Sentinels
    /\ m.cmd \notin Writes
  BY DEF Replies, KeysFound, TypesFound, Asks, Filled, Sentinels, Writes

LEMMA RequestKinds ==
  \A m \in Requests :
    /\ m.cmd = "KEYS" => m \in KeysAsked
    /\ m.cmd \in {"EXISTS", "TYPE", "TEXT"} => m \in Asks({"EXISTS", "TYPE", "TEXT"})
    /\ m.cmd = "LOAD" => m \in Loads
    /\ m.cmd = "SENTINEL" => m \in Sentinels
    /\ m.cmd \in Writes => m \in Changes
  BY DEF Requests, KeysAsked, Asks, Loads, Sentinels, Changes, Edits, Renames, Writes

LEMMA UseTypes ==
  ASSUME TypeOK, NEW item \in Items, Use(item), rep # <<>>,
         Head(rep).cmd \in {"EXISTS", "TYPE", "TEXT"}
  PROVE  /\ tree' \in [Keys -> Items] /\ stale' \in BOOLEAN
         /\ gen' \in Nat /\ loaded' \in SUBSET Keys /\ overlapped' \in BOOLEAN
         /\ menu' \in [key : Keys, gen : Nat] \union {None}
         /\ cur' \in Keys \union {None} /\ curType' \in Items
         /\ pages' \in [Types -> [of : Keys \union {None}, rows : SUBSET Rows]]
<1>1. Head(rep) \in Replies
  BY HeadTailProperties DEF TypeOK
<1>2. Head(rep).key \in Keys
  BY <1>1, ReplyKinds DEF TypesFound, Asks
<1> QED
  BY <1>2 DEF TypeOK, Use, viewer

LEMMA CallbackTypes == TypeOK /\ Callback /\ UNCHANGED hasType => TypeOK'
<1> SUFFICES ASSUME TypeOK, Callback, UNCHANGED hasType PROVE TypeOK'
  OBVIOUS
<1>1. CASE OnSentinel
  <2>1. AskKeys \in Seq(Requests) /\ Refresh /\ Send(AskKeys)
    BY <1>1, AskKeysTypes DEF OnSentinel
  <2>2. req' \in Seq(Requests)
    BY <2>1, SendTypes
  <2> QED
    BY <1>1, <2>1, <2>2, HandleTypes, RefreshTypes DEF OnSentinel, TypeOK, viewer
<1>2. CASE OnKeys
  <2> DEFINE new == Head(rep).keys \ loaded
  <2>1. Handle("KEYS") /\ Head(rep) \in Replies
    BY <1>2, HandleTypes DEF OnKeys
  <2>2. Head(rep) \in KeysFound
    BY <2>1, ReplyKinds DEF Handle
  <2>3. new \in SUBSET Keys /\ Head(rep).gen \in Nat
    BY <2>2 DEF KeysFound
  <2>4. Asking(new, Head(rep).gen) \in Seq(Requests) /\ Send(Asking(new, Head(rep).gen))
    BY <1>2, <2>3, AskingTypes, MoreRequests DEF OnKeys, Asking
  <2>5. req' \in Seq(Requests)
    BY <2>4, SendTypes
  <2>6. tree' \in [Keys -> Items] /\ loaded' \in SUBSET Keys /\ stale' \in BOOLEAN
    BY <1>2, <2>3 DEF OnKeys, TypeOK, Items
  <2> QED
    BY <1>2, <2>1, <2>5, <2>6, HandleTypes DEF OnKeys, TypeOK, viewer
<1>3. CASE OnExists
  <2>1. Handle("EXISTS") /\ Head(rep) \in Replies
    BY <1>3, HandleTypes DEF OnExists
  <2>2. Head(rep).key \in Keys /\ Head(rep).gen \in Nat
    BY <2>1, ReplyKinds DEF Handle, Asks
  <2>3. Ask("TYPE", Head(rep).key, Head(rep).gen) \in Requests
    BY <2>2 DEF Ask, Asks, Requests
  <2>4. req' \in Seq(Requests)
    BY <1>3, <2>3, OneRequest, SendTypes DEF OnExists
  <2>5. Use("unknown") /\ "unknown" \in Items /\ rep # <<>> /\ Head(rep).cmd = "EXISTS"
    BY <1>3 DEF OnExists, Handle, Items
  <2> QED
    BY <2>1, <2>4, <2>5, UseTypes, HandleTypes DEF TypeOK
<1>4. CASE OnType
  <2>1. Handle("TYPE") /\ Head(rep) \in Replies
    BY <1>4, HandleTypes DEF OnType
  <2>2. Head(rep).key \in Keys /\ Head(rep).gen \in Nat /\ Head(rep).type \in Items
    BY <2>1, ReplyKinds DEF Handle, TypesFound, Items
  <2>3. Ask("TEXT", Head(rep).key, Head(rep).gen) \in Requests
    BY <2>2 DEF Ask, Asks, Requests
  <2>4. req' \in Seq(Requests)
    BY <1>4, <2>3, OneRequest, SendTypes DEF OnType
  <2>5. Use(Head(rep).type) /\ rep # <<>> /\ Head(rep).cmd = "TYPE"
    BY <1>4 DEF OnType, Handle
  <2> QED
    BY <2>1, <2>2, <2>4, <2>5, UseTypes, HandleTypes DEF TypeOK
<1>5. CASE OnText
  <2>1. Handle("TEXT") /\ Head(rep) \in Replies
    BY <1>5, HandleTypes DEF OnText
  <2>2. Head(rep) \in Asks({"EXISTS", "TEXT"}) /\ Head(rep).cmd = "TEXT" /\ rep # <<>>
    BY <2>1, ReplyKinds DEF Handle
  <2>3. CASE Head(rep).more
    <3>1. [Head(rep) EXCEPT !.more = FALSE] \in Requests
      BY <2>2 DEF Asks, Requests
    <3>2. req' \in Seq(Requests)
      BY <1>5, <2>3, <3>1, OneRequest, SendTypes DEF OnText
    <3> QED
      BY <1>5, <2>1, <2>3, <3>2, HandleTypes DEF OnText, TypeOK, browser, viewer
  <2>4. CASE ~Head(rep).more
    <3>1. Use(tree[Head(rep).key]) /\ UNCHANGED req
      BY <1>5, <2>4 DEF OnText
    <3>2. tree[Head(rep).key] \in Items
      BY <2>2 DEF TypeOK, Asks
    <3> QED
      BY <2>1, <2>2, <3>1, <3>2, UseTypes, HandleTypes DEF TypeOK
  <2> QED
    BY <2>3, <2>4
<1>6. CASE OnLoad
  <2>1. Handle("LOAD") /\ Head(rep) \in Replies
    BY <1>6, HandleTypes DEF OnLoad
  <2>2. Head(rep) \in Filled
    BY <2>1, ReplyKinds DEF Handle
  <2>3. pages' \in [Types -> [of : Keys \union {None}, rows : SUBSET Rows]]
    BY <1>6, <2>2 DEF OnLoad, TypeOK, Filled
  <2> QED
    BY <1>6, <2>1, <2>3, HandleTypes DEF OnLoad, TypeOK, browser
<1> QED
  BY <1>1, <1>2, <1>3, <1>4, <1>5, <1>6 DEF Callback

LEMMA QueryTypes ==
  ASSUME TypeOK, NEW cmd, Query(cmd), UNCHANGED hasType, rep' \in Seq(Replies), listed' \in SUBSET Keys
  PROVE  TypeOK'
  BY HeadTailProperties DEF Query, TypeOK, browser, viewer

LEMMA AnswerTypes ==
  ASSUME TypeOK, NEW m \in Replies, Answer(m)
  PROVE  rep' \in Seq(Replies)
  BY AppendProperties DEF TypeOK, Answer

LEMMA ExecutedTypes ==
  ASSUME NEW s \in [Keys -> Contents], NEW m \in Changes
  PROVE  Effect(s, m) \in [Keys -> Contents]
<1>1. CASE m \in Renames
  BY <1>1 DEF Renames, Effect, Renamed, Contents
<1>2. CASE m \in Edits
  <2>1. m.key \in Keys /\ m.rows \in SUBSET Rows /\ m.type \in Types /\ m.cmd \in {"SET", "DEL", "ADD"}
    BY <1>2 DEF Edits
  <2>2. CASE m.cmd = "SET"
    BY <2>1, <2>2 DEF Effect, Contents, Values, Types
  <2>3. CASE m.cmd = "DEL"
    BY <2>1, <2>3 DEF Effect, Contents
  <2>4. CASE m.cmd = "ADD"
    <3> DEFINE v == s[m.key]
    <3>1. CASE v = None
      <4>1. Effect(s, m) = [s EXCEPT ![m.key] = [type |-> m.type, rows |-> m.rows]]
        BY <2>4, <3>1 DEF Effect
      <4> QED
        BY <2>1, <4>1 DEF Contents, Values
    <3>2. CASE v # None /\ v.type = m.type
      <4>1. v \in Values
        BY <2>1, <3>2 DEF Contents
      <4>2. [v EXCEPT !.rows = @ \union m.rows] \in Values
        BY <2>1, <4>1 DEF Values
      <4>3. Effect(s, m) = [s EXCEPT ![m.key] = [v EXCEPT !.rows = @ \union m.rows]]
        BY <2>4, <3>2 DEF Effect
      <4> QED
        BY <2>1, <4>2, <4>3 DEF Contents
    <3>3. CASE v # None /\ v.type # m.type
      BY <2>4, <3>3 DEF Effect
    <3> QED
      BY <3>1, <3>2, <3>3
  <2> QED
    BY <2>1, <2>2, <2>3, <2>4
<1> QED
  BY <1>1, <1>2 DEF Changes

LEMMA ExecutedIsEffect == \A m \in Changes : Executed(m) = Effect(store, m)
  BY DEF Executed, Effect, Changes, Edits, Renames

LEMMA ServeTypes == TypeOK /\ Serve /\ UNCHANGED hasType => TypeOK'
<1> SUFFICES ASSUME TypeOK, Serve, UNCHANGED hasType PROVE TypeOK'
  OBVIOUS
<1>0. req # <<>> => Head(req) \in Requests /\ Tail(req) \in Seq(Requests)
  BY HeadTailProperties DEF TypeOK
<1>1. CASE ServeSame
  <2>1. PICK cmd \in {"SENTINEL", "EXISTS", "TEXT"} : Query(cmd)
    BY <1>1 DEF ServeSame
  <2>2. Head(req) \in Requests /\ Head(req).cmd = cmd
    BY <1>0, <2>1 DEF Query
  <2>3. Head(req) \in Replies
    BY <2>1, <2>2, RequestKinds DEF Replies, Asks
  <2>4. rep' \in Seq(Replies) /\ listed' \in SUBSET Keys
    BY <1>1, <2>3, AnswerTypes DEF ServeSame, TypeOK
  <2> QED
    BY <2>1, <2>4, QueryTypes
<1>2. CASE ServeKeys
  <2>1. Query("KEYS") /\ Head(req) \in KeysAsked
    BY <1>0, <1>2, RequestKinds DEF ServeKeys, Query
  <2>2. [cmd |-> "KEYS", gen |-> Head(req).gen, keys |-> Existing] \in Replies
    BY <2>1 DEF KeysAsked, Replies, KeysFound, Existing
  <2>3. rep' \in Seq(Replies) /\ listed' \in SUBSET Keys
    BY <1>2, <2>2, AnswerTypes DEF ServeKeys, Existing
  <2> QED
    BY <2>1, <2>3, QueryTypes
<1>3. CASE ServeType
  <2> DEFINE k == Head(req).key
             type == IF ~hasType THEN "unknown" ELSE IF store[k] = None THEN "none" ELSE store[k].type
  <2>1. Query("TYPE") /\ Head(req) \in Asks({"EXISTS", "TYPE", "TEXT"})
    BY <1>0, <1>3, RequestKinds DEF ServeType, Query
  <2>2. k \in Keys /\ Head(req).gen \in Nat
    BY <2>1 DEF Asks
  <2>3. store[k] # None => store[k].type \in Types
    BY <2>2 DEF TypeOK, Contents, Values
  <2>4. type \in Types \union {"unknown", "none"}
    BY <2>3
  <2>5. [cmd |-> "TYPE", key |-> k, gen |-> Head(req).gen, type |-> type] \in Replies
    BY <2>2, <2>4 DEF Replies, TypesFound
  <2>6. rep' \in Seq(Replies) /\ listed' \in SUBSET Keys
    BY <1>3, <2>5, AnswerTypes DEF ServeType, TypeOK
  <2> QED
    BY <2>1, <2>6, QueryTypes
<1>4. CASE ServeLoad
  <2> DEFINE v == store[Head(req).key]
             rows == IF v # None /\ v.type = Head(req).type THEN v.rows ELSE {}
  <2>1. Query("LOAD") /\ Head(req) \in Loads
    BY <1>0, <1>4, RequestKinds DEF ServeLoad, Query
  <2>2. v \in Contents
    BY <2>1 DEF Loads, TypeOK
  <2>3. rows \in SUBSET Rows
    BY <2>2 DEF Contents, Values
  <2>4. [cmd |-> "LOAD", key |-> Head(req).key, type |-> Head(req).type, rows |-> rows] \in Replies
    BY <2>1, <2>3 DEF Loads, Replies, Filled
  <2>5. rep' \in Seq(Replies) /\ listed' \in SUBSET Keys
    BY <1>4, <2>4, AnswerTypes DEF ServeLoad, TypeOK
  <2> QED
    BY <2>1, <2>5, QueryTypes
<1>5. CASE ServeWrite
  <2>1. Head(req) \in Changes /\ req' \in Seq(Requests)
    BY <1>0, <1>5, RequestKinds DEF ServeWrite
  <2>2. store' \in [Keys -> Contents]
    BY <1>5, <2>1, ExecutedIsEffect, ExecutedTypes DEF ServeWrite, TypeOK
  <2> QED
    BY <1>5, <2>1, <2>2 DEF ServeWrite, TypeOK, browser, viewer, history
<1> QED
  BY <1>1, <1>2, <1>3, <1>4, <1>5 DEF Serve

LEMMA LoadKeyTypes ==
  ASSUME TypeOK, NEW k \in Keys, NEW type \in Items, LoadKey(k, type)
  PROVE  /\ cur' \in Keys \union {None} /\ curType' \in Items
         /\ req' \in Seq(Requests) /\ pages' = pages
<1>1. type \in Types => [cmd |-> "LOAD", key |-> k, type |-> type] \in Requests
  BY DEF Requests, Loads
<1>2. (IF type \in Types THEN <<[cmd |-> "LOAD", key |-> k, type |-> type]>> ELSE <<>>) \in Seq(Requests)
  BY <1>1, OneRequest, EmptySeq
<1>3. CASE open
  BY <1>2, <1>3, SendTypes DEF LoadKey
<1>4. CASE ~open
  BY <1>4 DEF LoadKey, TypeOK
<1> QED
  BY <1>3, <1>4 DEF LoadKey

LEMMA ItemTypes == TypeOK => \A k \in Keys : ItemType(k) \in Items
  BY DEF TypeOK, ItemType, Items, Types

LEMMA MenuTypes == TypeOK /\ menu # None => menu.key \in Keys /\ menu.gen \in Nat
  BY DEF TypeOK

\* What a menu sends before the refresh.
LEMMA ThenRefresh ==
  ASSUME TypeOK, NEW m \in Requests
  PROVE  <<m>> \o AskKeys \in Seq(Requests)
  BY OneRequest, AskKeysTypes, ConcatProperties

LEMMA RenamedTypes ==
  ASSUME NEW s \in [Keys -> Contents], NEW k \in Keys, NEW to \in Keys
  PROVE  Renamed(s, k, to) \in [Keys -> Contents]
  BY DEF Renamed, Contents

LEMMA UserTypes == TypeOK /\ User /\ UNCHANGED hasType => TypeOK'
<1> SUFFICES ASSUME TypeOK, User, UNCHANGED hasType PROVE TypeOK'
  OBVIOUS
<1>1. CASE RefreshAsked
  <2>1. Refresh /\ req' \in Seq(Requests)
    BY <1>1, AskKeysTypes, SendTypes DEF RefreshAsked
  <2> QED
    BY <1>1, <2>1, RefreshTypes DEF RefreshAsked, TypeOK, Job, viewer, history
<1>2. CASE ReloadKey
  <2>1. LoadKey(cur, curType) /\ cur \in Keys /\ curType \in Items
    BY <1>2 DEF ReloadKey, TypeOK
  <2> QED
    BY <1>2, <2>1, LoadKeyTypes DEF ReloadKey, TypeOK, Job, browser, history
<1>3. CASE Save
  <2> DEFINE rows == pages[curType].rows
  <2>1. cur \in Keys /\ curType \in Types /\ rows \in SUBSET Rows
    BY <1>3 DEF Save, TypeOK
  <2>2. Send(Saving(cur, curType, rows)) /\ want' = [want EXCEPT ![cur] = Stored(curType, rows)]
    BY <1>3 DEF Save
  <2>3. req' \in Seq(Requests)
    BY <2>1, <2>2, SavingTypes, MoreRequests, SendTypes
  <2>4. Stored(curType, rows) \in Contents
    BY <2>1 DEF Stored, Contents, Values
  <2>5. want' \in [Keys -> Contents]
    BY <2>2, <2>4 DEF TypeOK
  <2> QED
    BY <1>3, <2>3, <2>5 DEF Save, TypeOK, Job, browser, viewer
<1>4. CASE OnDeleteKey
  <2>1. cur \in Keys
    BY <1>4 DEF OnDeleteKey, TypeOK
  <2>2. Write("DEL", cur, "string", {}) \in Requests
    BY <2>1, MessageTypes DEF Types, Requests, Changes
  <2>3. req' \in Seq(Requests)
    BY <1>4, <2>2, OneRequest, SendTypes DEF OnDeleteKey
  <2>4. want' \in [Keys -> Contents]
    BY <1>4 DEF OnDeleteKey, TypeOK, Contents
  <2> QED
    BY <1>4, <2>3, <2>4 DEF OnDeleteKey, TypeOK, Job, browser
<1>5. ASSUME NEW k \in Keys, OnItemClicked(k) PROVE TypeOK'
  <2>1. LoadKey(k, ItemType(k)) /\ ItemType(k) \in Items
    BY <1>5, ItemTypes DEF OnItemClicked
  <2> QED
    BY <1>5, <2>1, LoadKeyTypes DEF OnItemClicked, TypeOK, Job, browser, history
<1>6. ASSUME NEW k \in Keys, OnContextMenu(k) PROVE TypeOK'
  BY <1>6 DEF OnContextMenu, TypeOK, Job, network, viewer, history
<1>7. ASSUME NEW k \in Keys, MenuRename(k) PROVE TypeOK'
  <2>1. menu.key \in Keys
    BY <1>7, MenuTypes DEF MenuRename
  <2>2. [cmd |-> "RENAME", key |-> menu.key, to |-> k] \in Requests
    BY <2>1, MessageTypes DEF Requests, Changes
  <2>3. Refresh /\ req' \in Seq(Requests)
    BY <1>7, <2>2, ThenRefresh, SendTypes DEF MenuRename
  <2>4. want' \in [Keys -> Contents]
    BY <1>7, <2>1, RenamedTypes DEF MenuRename, TypeOK
  <2>5. menu' = None
    BY <1>7 DEF MenuRename
  <2> QED
    BY <1>7, <2>3, <2>4, <2>5, RefreshTypes DEF MenuRename, TypeOK, viewer
<1>8. ASSUME NEW rows \in SUBSET Rows, Edit(rows) PROVE TypeOK'
  <2>1. pages' \in [Types -> [of : Keys \union {None}, rows : SUBSET Rows]]
    BY <1>8 DEF Edit, TypeOK
  <2> QED
    BY <1>8, <2>1 DEF Edit, TypeOK, Job, network, browser, history
<1>9. CASE MenuOpen
  <2>1. LoadKey(menu.key, ItemType(menu.key)) /\ ItemType(menu.key) \in Items /\ menu.key \in Keys
    BY <1>9, ItemTypes, MenuTypes DEF MenuOpen
  <2>2. menu' = None /\ stale' \in BOOLEAN
    BY <1>9 DEF MenuOpen
  <2> QED
    BY <1>9, <2>1, <2>2, LoadKeyTypes DEF MenuOpen, TypeOK, history
<1>10. CASE MenuDelete
  <2>1. menu.key \in Keys
    BY <1>10, MenuTypes DEF MenuDelete
  <2>2. Write("DEL", menu.key, "string", {}) \in Requests
    BY <2>1, MessageTypes DEF Types, Requests, Changes
  <2>3. Refresh /\ req' \in Seq(Requests)
    BY <1>10, <2>2, ThenRefresh, SendTypes DEF MenuDelete
  <2>4. want' \in [Keys -> Contents]
    BY <1>10, <2>1 DEF MenuDelete, TypeOK, Contents
  <2>5. menu' = None
    BY <1>10 DEF MenuDelete
  <2> QED
    BY <1>10, <2>3, <2>4, <2>5, RefreshTypes DEF MenuDelete, TypeOK, viewer
<1>11. CASE MenuClosed
  BY <1>11 DEF MenuClosed, TypeOK, network, viewer, history
<1> QED
  BY <1>1, <1>2, <1>3, <1>4, <1>5, <1>6, <1>7, <1>8, <1>9, <1>10, <1>11 DEF User

LEMMA CutTypes ==
  ASSUME NEW S, NEW q \in Seq(S), NEW n \in 0..Len(q)
  PROVE  SubSeq(q, 1, n) \in Seq(S) /\ Len(SubSeq(q, 1, n)) = n
<1>1. Len(q) \in Nat /\ \A i \in 1..n : q[i] \in S
  BY LenProperties, ElementOfSeq
<1> QED
  BY <1>1, SubSeqProperties

LEMMA TypeStep == TypeOK /\ [Next]_vars => TypeOK'
<1> SUFFICES ASSUME TypeOK, [Next]_vars PROVE TypeOK'
  OBVIOUS
<1>1. CASE Connect /\ UNCHANGED hasType
  <2>1. req' \in Seq(Requests)
    BY <1>1, MessageTypes, OneRequest DEF Connect, Requests
  <2> QED
    BY <1>1, <2>1 DEF Connect, TypeOK, browser, viewer, history
<1>2. CASE Lose /\ UNCHANGED hasType
  <2>1. req' \in Seq(Requests)
    BY <1>2, CutTypes DEF Lose, TypeOK
  <2>2. rep' \in Seq(Replies)
    BY <1>2, EmptySeq DEF Lose
  <2>3. /\ open' = FALSE /\ lost' = TRUE /\ cur' = None
        /\ UNCHANGED <<store, curType, pages, listed, want, raced>>
        /\ UNCHANGED <<gen, tree, loaded, menu, stale, overlapped>>
        /\ jobs' \in Nat
    BY <1>2 DEF Lose, browser, Job, TypeOK
  <2> QED
    BY <1>2, <2>1, <2>2, <2>3 DEF TypeOK
<1>3. ASSUME NEW k \in Keys, NEW v \in Others, OtherClient(k, v), UNCHANGED hasType PROVE TypeOK'
  <2>1. v \in Contents
    BY ConstantsAssumption DEF Contents
  <2>2. store' \in [Keys -> Contents] /\ want' \in [Keys -> Contents] /\ raced' \in BOOLEAN
    BY <1>3, <2>1 DEF OtherClient, TypeOK, InFlight
  <2> QED
    BY <1>3, <2>2 DEF OtherClient, TypeOK, Job, network, browser, viewer
<1>4. CASE UNCHANGED vars
  BY <1>4 DEF TypeOK, vars, network, browser, viewer, history
<1> QED
  BY <1>1, <1>2, <1>3, <1>4, UserTypes, CallbackTypes, ServeTypes DEF Next

LEMMA TypeInit == Init => TypeOK
<1> SUFFICES ASSUME Init PROVE TypeOK
  OBVIOUS
<1>1. store \in [Keys -> Contents] /\ want \in [Keys -> Contents]
  BY ConstantsAssumption DEF Init, Contents
<1>2. req \in Seq(Requests) /\ rep \in Seq(Replies)
  BY EmptySeq DEF Init
<1>3. /\ tree \in [Keys -> Items] /\ curType \in Items
      /\ pages \in [Types -> [of : Keys \union {None}, rows : SUBSET Rows]]
  BY DEF Init, Items, Types
<1> QED
  BY <1>1, <1>2, <1>3 DEF Init, TypeOK

\* The tree, the viewer, the requests and the replies keep their types.
THEOREM TypeCorrect == Spec => []TypeOK
  BY TypeInit, TypeStep, PTL DEF Spec

-----------------------------------------------------------------------------
(* The page shown.                                                         *)

LEMMA LoadsInTail ==
  ASSUME NEW S, NEW q \in Seq(S), q # <<>>, NEW t, NEW k
  PROVE  /\ NoLoad(q, t) <=> ~IsLoad(Head(q), t) /\ NoLoad(Tail(q), t)
         /\ LastIsFor(q, t, k) => LastIsFor(Tail(q), t, k)
         /\ LastIsFor(q, t, k) /\ IsLoad(Head(q), t) /\ NoLoad(Tail(q), t) => Head(q).key = k
<1>1. /\ Tail(q) \in Seq(S) /\ Len(q) \in Nat \ {0} /\ Len(Tail(q)) = Len(q) - 1
      /\ \A i \in 1..Len(Tail(q)) : Tail(q)[i] = q[i + 1]
      /\ Head(q) = q[1]
  BY HeadTailProperties, EmptySeq
<1>2. \A i \in 2..Len(q) : i - 1 \in 1..Len(Tail(q)) /\ q[i] = Tail(q)[i - 1]
  BY <1>1
<1>3. NoLoad(q, t) <=> ~IsLoad(Head(q), t) /\ NoLoad(Tail(q), t)
  <2>1. NoLoad(q, t) => ~IsLoad(Head(q), t) /\ NoLoad(Tail(q), t)
    BY <1>1 DEF NoLoad
  <2>2. ~IsLoad(Head(q), t) /\ NoLoad(Tail(q), t) => NoLoad(q, t)
    BY <1>1, <1>2 DEF NoLoad
  <2> QED
    BY <2>1, <2>2
<1>4. ASSUME LastIsFor(q, t, k) PROVE LastIsFor(Tail(q), t, k)
  <2> SUFFICES ASSUME NEW i \in 1..Len(Tail(q)), IsLoad(Tail(q)[i], t),
                      \A j \in 1..Len(Tail(q)) : j > i => ~IsLoad(Tail(q)[j], t)
               PROVE  Tail(q)[i].key = k
    BY DEF LastIsFor
  <2>1. ASSUME NEW j \in 1..Len(q), j > i + 1 PROVE ~IsLoad(q[j], t)
    <3>1. j - 1 \in 1..Len(Tail(q)) /\ j - 1 > i /\ q[j] = Tail(q)[j - 1]
      BY <1>1, <2>1
    <3> QED
      BY <3>1
  <2>2. i + 1 \in 1..Len(q) /\ IsLoad(q[i + 1], t) /\ Tail(q)[i] = q[i + 1]
    BY <1>1
  <2> QED
    BY <1>4, <2>1, <2>2 DEF LastIsFor
<1>5. ASSUME LastIsFor(q, t, k), IsLoad(Head(q), t), NoLoad(Tail(q), t) PROVE Head(q).key = k
  <2>1. \A j \in 1..Len(q) : j > 1 => ~IsLoad(q[j], t)
    BY <1>1, <1>2, <1>5 DEF NoLoad
  <2> QED
    BY <1>1, <1>5, <2>1 DEF LastIsFor
<1> QED
  BY <1>3, <1>4, <1>5

LEMMA LoadsInConcat ==
  ASSUME NEW S, NEW q \in Seq(S), NEW msgs \in Seq(S), NEW t, NEW k, NoLoad(msgs, t)
  PROVE  /\ NoLoad(q \o msgs, t) <=> NoLoad(q, t)
         /\ LastIsFor(q, t, k) => LastIsFor(q \o msgs, t, k)
<1>1. /\ Len(q) \in Nat /\ Len(msgs) \in Nat /\ Len(q \o msgs) = Len(q) + Len(msgs)
      /\ \A i \in 1..Len(q) : (q \o msgs)[i] = q[i]
      /\ \A i \in 1..Len(q \o msgs) : i > Len(q) => i - Len(q) \in 1..Len(msgs) /\ (q \o msgs)[i] = msgs[i - Len(q)]
  BY ConcatProperties, LenProperties
<1>2. \A i \in 1..Len(q \o msgs) : i > Len(q) => ~IsLoad((q \o msgs)[i], t)
  BY <1>1 DEF NoLoad
<1>3. NoLoad(q \o msgs, t) <=> NoLoad(q, t)
  BY <1>1, <1>2 DEF NoLoad
<1>4. ASSUME LastIsFor(q, t, k) PROVE LastIsFor(q \o msgs, t, k)
  <2> SUFFICES ASSUME NEW i \in 1..Len(q \o msgs), IsLoad((q \o msgs)[i], t),
                      \A j \in 1..Len(q \o msgs) : j > i => ~IsLoad((q \o msgs)[j], t)
               PROVE  (q \o msgs)[i].key = k
    BY DEF LastIsFor
  <2>1. i \in 1..Len(q) /\ IsLoad(q[i], t)
    BY <1>1, <1>2
  <2>2. \A j \in 1..Len(q) : j > i => ~IsLoad(q[j], t)
    BY <1>1
  <2> QED
    BY <1>1, <1>4, <2>1, <2>2 DEF LastIsFor
<1> QED
  BY <1>3, <1>4

\* A load added at the end is the last.
LEMMA LoadAtTheEnd ==
  ASSUME NEW S, NEW q \in Seq(S), NEW m \in S, NEW t, IsLoad(m, t)
  PROVE  LastIsFor(Append(q, m), t, m.key) /\ ~NoLoad(Append(q, m), t)
<1>1. /\ Len(q) \in Nat /\ Len(Append(q, m)) = Len(q) + 1
      /\ Append(q, m)[Len(q) + 1] = m
  BY AppendProperties, LenProperties
<1> QED
  BY <1>1 DEF LastIsFor, NoLoad

LEMMA OtherAtTheEnd ==
  ASSUME NEW S, NEW q \in Seq(S), NEW m \in S, NEW t, NEW k, ~IsLoad(m, t)
  PROVE  /\ NoLoad(Append(q, m), t) <=> NoLoad(q, t)
         /\ LastIsFor(q, t, k) => LastIsFor(Append(q, m), t, k)
<1>1. <<m>> \in Seq(S) /\ Append(q, m) = q \o <<m>>
  BY AppendIsConcat
<1>2. NoLoad(<<m>>, t)
  BY OneMessage DEF NoLoad
<1> QED
  BY <1>1, <1>2, LoadsInConcat

NothingLoaded(msgs) == \A i \in 1..Len(msgs) : msgs[i].cmd # "LOAD"

\* Commands other than loads are sent, a reply other than a load handled.
LEMMA KeepsShown ==
  ASSUME TypeOK, NEW t, NEW k, LoadsLeadTo(t, k),
         NEW msgs \in Seq(Requests), NothingLoaded(msgs), Send(msgs),
         \/ rep' = rep
         \/ rep # <<>> /\ rep' = Tail(rep) /\ Head(rep).cmd # "LOAD",
         pages'[t].of = pages[t].of
  PROVE  LoadsLeadTo(t, k)'
<1>1. NoLoad(msgs, t)
  BY DEF NothingLoaded, NoLoad, IsLoad
<1>2. req \in Seq(Requests) /\ rep \in Seq(Replies)
  BY DEF TypeOK
<1>3. /\ NoLoad(req', t) <=> NoLoad(req, t)
      /\ LastIsFor(req, t, k) => LastIsFor(req', t, k)
  BY <1>1, <1>2, LoadsInConcat DEF Send
<1>4. /\ NoLoad(rep', t) <=> NoLoad(rep, t)
      /\ LastIsFor(rep, t, k) => LastIsFor(rep', t, k)
  BY <1>2, LoadsInTail DEF IsLoad
<1> QED
  BY <1>3, <1>4 DEF LoadsLeadTo

\* The reply to the request at the front: a load is answered for its key.
Echoes(m, t) ==
  /\ IsLoad(m, t) <=> IsLoad(Head(req), t)
  /\ IsLoad(m, t) => m.key = Head(req).key

\* A request is executed and answered, if at all, so.
LEMMA ServesShown ==
  ASSUME TypeOK, NEW t, NEW k, LoadsLeadTo(t, k), req # <<>>, req' = Tail(req),
         \/ rep' = rep /\ Head(req).cmd # "LOAD"
         \/ \E m \in Replies : rep' = Append(rep, m) /\ Echoes(m, t),
         pages'[t].of = pages[t].of
  PROVE  LoadsLeadTo(t, k)'
<1>1. req \in Seq(Requests) /\ rep \in Seq(Replies)
  BY DEF TypeOK
<1>2. /\ NoLoad(req, t) <=> ~IsLoad(Head(req), t) /\ NoLoad(req', t)
      /\ LastIsFor(req', t, k)
      /\ IsLoad(Head(req), t) /\ NoLoad(req', t) => Head(req).key = k
  BY <1>1, LoadsInTail DEF LoadsLeadTo
<1>3. CASE rep' = rep /\ Head(req).cmd # "LOAD"
  BY <1>2, <1>3 DEF LoadsLeadTo, IsLoad
<1>4. CASE \E m \in Replies : rep' = Append(rep, m) /\ Echoes(m, t)
  <2>1. PICK m \in Replies : rep' = Append(rep, m) /\ Echoes(m, t)
    BY <1>4
  <2>2. CASE IsLoad(m, t)
    <3>1. LastIsFor(rep', t, m.key) /\ ~NoLoad(rep', t)
      BY <1>1, <2>1, <2>2, LoadAtTheEnd
    <3> QED
      BY <1>2, <2>1, <2>2, <3>1 DEF LoadsLeadTo, Echoes
  <2>3. CASE ~IsLoad(m, t)
    <3>1. /\ NoLoad(rep', t) <=> NoLoad(rep, t)
          /\ LastIsFor(rep, t, k) => LastIsFor(rep', t, k)
      BY <1>1, <2>1, <2>3, OtherAtTheEnd
    <3> QED
      BY <1>2, <2>1, <2>3, <3>1 DEF LoadsLeadTo, Echoes
  <2> QED
    BY <2>2, <2>3
<1> QED
  BY <1>3, <1>4

LEMMA NothingSent == TypeOK /\ UNCHANGED req => Send(<<>>)
  BY ConcatEmptySeq DEF TypeOK, Send

LEMMA NothingLoadedConcat ==
  ASSUME NEW S, NEW a \in Seq(S), NEW b \in Seq(S), NothingLoaded(a), NothingLoaded(b)
  PROVE  NothingLoaded(a \o b)
<1>1. /\ Len(a) \in Nat /\ Len(b) \in Nat /\ Len(a \o b) = Len(a) + Len(b)
      /\ \A i \in 1..Len(a) : (a \o b)[i] = a[i]
      /\ \A i \in 1..Len(a \o b) : i > Len(a) => i - Len(a) \in 1..Len(b) /\ (a \o b)[i] = b[i - Len(a)]
  BY ConcatProperties, LenProperties
<1> QED
  BY <1>1 DEF NothingLoaded

LEMMA NoLoadsSent ==
  /\ NothingLoaded(<<>>)
  /\ \A m \in Requests : m.cmd # "LOAD" => NothingLoaded(<<m>>)
  /\ NothingLoaded(AskKeys)
  /\ \A m \in Requests : TypeOK /\ m.cmd # "LOAD" => NothingLoaded(<<m>> \o AskKeys)
  /\ \A msgs \in Seq(Edits) : NothingLoaded(msgs)
  /\ \A msgs \in Seq(Asks({"EXISTS", "TYPE"})) : NothingLoaded(msgs)
<1>1. NothingLoaded(<<>>)
  BY DEF NothingLoaded
<1>2. \A m \in Requests : m.cmd # "LOAD" => NothingLoaded(<<m>>)
  BY OneMessage DEF NothingLoaded
<1>3. NothingLoaded(AskKeys)
  BY DEF NothingLoaded, AskKeys
<1>4. ASSUME NEW m \in Requests, TypeOK, m.cmd # "LOAD"
      PROVE  NothingLoaded(<<m>> \o AskKeys)
  <2>1. /\ <<m>> \in Seq(Requests) /\ AskKeys \in Seq(Requests)
        /\ NothingLoaded(<<m>>) /\ NothingLoaded(AskKeys)
    BY <1>2, <1>3, <1>4, OneRequest, AskKeysTypes
  <2> QED
    BY <2>1, NothingLoadedConcat
<1>5. ASSUME NEW msgs \in Seq(Edits) PROVE NothingLoaded(msgs)
  <2>1. \A i \in 1..Len(msgs) : msgs[i] \in Edits
    BY ElementOfSeq
  <2> QED
    BY <2>1 DEF NothingLoaded, Edits
<1>6. ASSUME NEW msgs \in Seq(Asks({"EXISTS", "TYPE"})) PROVE NothingLoaded(msgs)
  <2>1. \A i \in 1..Len(msgs) : msgs[i] \in Asks({"EXISTS", "TYPE"})
    BY ElementOfSeq
  <2> QED
    BY <2>1 DEF NothingLoaded, Asks
<1> QED
  BY <1>1, <1>2, <1>3, <1>4, <1>5, <1>6

\* No load is sent or answered; the current key stays, or goes.
LEMMA QuietKeepsShown ==
  ASSUME TypeOK, Shown, NEW msgs \in Seq(Requests), NothingLoaded(msgs), Send(msgs),
         \/ rep' = rep
         \/ rep # <<>> /\ rep' = Tail(rep) /\ Head(rep).cmd # "LOAD",
         UNCHANGED open, cur' = None \/ UNCHANGED <<cur, curType>>,
         \A t \in Types : pages'[t].of = pages[t].of
  PROVE  Shown'
<1>1. ~open' => cur' = None /\ rep' = <<>>
  BY DEF Shown
<1>2. ASSUME NEW t \in Types, NEW k \in Keys, curType' = t, cur' = k
      PROVE  LoadsLeadTo(t, k)'
  <2>1. curType = t /\ cur = k
    BY <1>2, ConstantsAssumption
  <2>2. LoadsLeadTo(t, k)
    BY <2>1 DEF Shown
  <2> QED
    BY <2>2, KeepsShown
<1> QED
  BY <1>1, <1>2 DEF Shown

LEMMA LoadKeyShows ==
  ASSUME TypeOK, Shown, NEW k \in Keys, NEW type \in Items, LoadKey(k, type), UNCHANGED <<open, rep>>
  PROVE  Shown'
<1>1. CASE open
  <2> SUFFICES ASSUME NEW t \in Types, NEW kk \in Keys, curType' = t, cur' = kk
               PROVE  LoadsLeadTo(t, kk)'
    BY <1>1 DEF Shown
  <2> DEFINE m == [cmd |-> "LOAD", key |-> k, type |-> type]
  <2>1. type = t /\ k = kk
    BY <1>1 DEF LoadKey
  <2>2. m \in Requests /\ IsLoad(m, t) /\ m.key = kk
    BY <2>1 DEF Requests, Loads, IsLoad
  <2>3. req \in Seq(Requests) /\ req' = req \o <<m>>
    BY <1>1, <2>1 DEF LoadKey, Send, TypeOK
  <2>4. req' = Append(req, m)
    BY <2>2, <2>3, AppendIsConcat
  <2>5. LastIsFor(req', t, kk) /\ ~NoLoad(req', t)
    BY <2>2, <2>3, <2>4, LoadAtTheEnd
  <2> QED
    BY <2>5 DEF LoadsLeadTo
<1>2. CASE ~open
  <2>1. UNCHANGED <<cur, curType, req, pages>>
    BY <1>2 DEF LoadKey
  <2> QED
    BY <2>1 DEF Shown, LoadsLeadTo
<1> QED
  BY <1>1, <1>2

LEMMA QueryShows ==
  ASSUME TypeOK, Shown, req # <<>>, req' = Tail(req), UNCHANGED <<open, cur, curType, pages>>,
         \/ UNCHANGED rep /\ Head(req).cmd # "LOAD"
         \/ \E m \in Replies : Answer(m) /\ \A t \in Types : Echoes(m, t)
  PROVE  Shown'
<1>1. ~open' => cur' = None /\ rep' = <<>>
  BY DEF Shown, Answer
<1>2. ASSUME NEW t \in Types, NEW k \in Keys, curType' = t, cur' = k
      PROVE  LoadsLeadTo(t, k)'
  <2>1. LoadsLeadTo(t, k) /\ open
    BY <1>2, ConstantsAssumption DEF Shown, TypeOK
  <2>2. \/ rep' = rep /\ Head(req).cmd # "LOAD"
        \/ \E m \in Replies : rep' = Append(rep, m) /\ Echoes(m, t)
    BY <2>1 DEF Answer
  <2> QED
    BY <2>1, <2>2, ServesShown
<1> QED
  BY <1>1, <1>2 DEF Shown

LEMMA ShownByUser == TypeOK /\ Shown /\ User => Shown'
<1> SUFFICES ASSUME TypeOK, Shown, User PROVE Shown'
  OBVIOUS
<1>0. AskKeys \in Seq(Requests) /\ <<>> \in Seq(Requests)
  BY AskKeysTypes, EmptySeq
<1>1. CASE RefreshAsked
  BY <1>0, <1>1, NoLoadsSent, QuietKeepsShown DEF RefreshAsked, viewer
<1>2. CASE ReloadKey
  <2>1. LoadKey(cur, curType) /\ cur \in Keys /\ curType \in Items
    BY <1>2 DEF ReloadKey, TypeOK
  <2> QED
    BY <1>2, <2>1, LoadKeyShows DEF ReloadKey
<1>3. CASE Save
  <2> DEFINE msgs == Saving(cur, curType, pages[curType].rows)
  <2>1. cur \in Keys /\ curType \in Types /\ pages[curType].rows \in SUBSET Rows
    BY <1>3 DEF Save, TypeOK
  <2>2. msgs \in Seq(Edits)
    BY <2>1, SavingTypes
  <2>3. msgs \in Seq(Requests) /\ NothingLoaded(msgs)
    BY <2>2, MoreRequests, NoLoadsSent
  <2>4. Send(msgs) /\ rep' = rep /\ UNCHANGED open /\ UNCHANGED <<cur, curType, pages>>
    BY <1>3 DEF Save, viewer
  <2> QED
    BY <2>3, <2>4, QuietKeepsShown
<1>4. CASE OnDeleteKey
  <2> DEFINE m == Write("DEL", cur, "string", {})
  <2>1. m \in Requests /\ m.cmd # "LOAD"
    BY <1>4, MessageTypes DEF OnDeleteKey, TypeOK, Types, Requests, Changes, Write
  <2>2. <<m>> \in Seq(Requests) /\ NothingLoaded(<<m>>)
    BY <2>1, OneRequest, NoLoadsSent
  <2>3. Send(<<m>>) /\ rep' = rep /\ UNCHANGED open /\ cur' = None /\ UNCHANGED pages
    BY <1>4 DEF OnDeleteKey
  <2> QED
    BY <2>2, <2>3, QuietKeepsShown
<1>5. ASSUME NEW k \in Keys, OnItemClicked(k) PROVE Shown'
  <2>1. LoadKey(k, ItemType(k)) /\ ItemType(k) \in Items
    BY <1>5, ItemTypes DEF OnItemClicked
  <2> QED
    BY <1>5, <2>1, LoadKeyShows DEF OnItemClicked
<1>6. ASSUME NEW k \in Keys, OnContextMenu(k) PROVE Shown'
  BY <1>0, <1>6, NothingSent, NoLoadsSent, QuietKeepsShown DEF OnContextMenu, network, viewer
<1>7. ASSUME NEW k \in Keys, MenuRename(k) PROVE Shown'
  <2> DEFINE m == [cmd |-> "RENAME", key |-> menu.key, to |-> k]
             msgs == <<m>> \o AskKeys
  <2>1. m \in Requests /\ m.cmd # "LOAD"
    BY <1>7, MenuTypes, MessageTypes DEF MenuRename, Requests, Changes
  <2>2. msgs \in Seq(Requests) /\ NothingLoaded(msgs)
    BY <2>1, ThenRefresh, NoLoadsSent
  <2>3. Send(msgs) /\ rep' = rep /\ UNCHANGED open /\ UNCHANGED <<cur, curType, pages>>
    BY <1>7 DEF MenuRename, viewer
  <2> HIDE DEF m
  <2> QED
    BY <2>2, <2>3, QuietKeepsShown
<1>8. ASSUME NEW rows \in SUBSET Rows, Edit(rows) PROVE Shown'
  <2>1. \A t \in Types : pages'[t].of = pages[t].of
    BY <1>8 DEF Edit, TypeOK
  <2> QED
    BY <1>0, <1>8, <2>1, NothingSent, NoLoadsSent, QuietKeepsShown DEF Edit, network
<1>9. CASE MenuOpen
  <2>1. LoadKey(menu.key, ItemType(menu.key)) /\ ItemType(menu.key) \in Items /\ menu.key \in Keys
    BY <1>9, ItemTypes, MenuTypes DEF MenuOpen
  <2> QED
    BY <1>9, <2>1, LoadKeyShows DEF MenuOpen
<1>10. CASE MenuDelete
  <2> DEFINE m == Write("DEL", menu.key, "string", {})
             msgs == <<m>> \o AskKeys
  <2>1. m \in Requests /\ m.cmd # "LOAD"
    BY <1>10, MenuTypes, MessageTypes DEF MenuDelete, Types, Requests, Changes, Write
  <2>2. msgs \in Seq(Requests) /\ NothingLoaded(msgs)
    BY <2>1, ThenRefresh, NoLoadsSent
  <2>3. Send(msgs) /\ rep' = rep /\ UNCHANGED open /\ UNCHANGED <<cur, curType, pages>>
    BY <1>10 DEF MenuDelete, viewer
  <2> HIDE DEF m
  <2> QED
    BY <2>2, <2>3, QuietKeepsShown
<1>11. CASE MenuClosed
  BY <1>0, <1>11, NothingSent, NoLoadsSent, QuietKeepsShown DEF MenuClosed, network, viewer
<1> QED
  BY <1>1, <1>2, <1>3, <1>4, <1>5, <1>6, <1>7, <1>8, <1>9, <1>10, <1>11 DEF User

LEMMA ShownByCallback == TypeOK /\ Shown /\ Callback => Shown'
<1> SUFFICES ASSUME TypeOK, Shown, Callback PROVE Shown'
  OBVIOUS
<1>0. AskKeys \in Seq(Requests) /\ <<>> \in Seq(Requests)
  BY AskKeysTypes, EmptySeq
<1>1. CASE OnSentinel
  BY <1>0, <1>1, NoLoadsSent, QuietKeepsShown DEF OnSentinel, Handle, viewer
<1>2. CASE OnKeys
  <2> DEFINE new == Head(rep).keys \ loaded
             msgs == Asking(new, Head(rep).gen)
  <2>1. Head(rep) \in KeysFound
    BY <1>2, HandleTypes, ReplyKinds DEF OnKeys, Handle
  <2>2. new \in SUBSET Keys /\ Head(rep).gen \in Nat
    BY <2>1 DEF KeysFound
  <2>3. msgs \in Seq(Asks({"EXISTS", "TYPE"}))
    BY <2>2, AskingTypes
  <2>4. msgs \in Seq(Requests) /\ NothingLoaded(msgs)
    BY <2>3, MoreRequests, NoLoadsSent
  <2>5. Send(msgs) /\ UNCHANGED open /\ UNCHANGED <<cur, curType, pages>>
    BY <1>2 DEF OnKeys, Handle, viewer, Asking
  <2>6. rep # <<>> /\ rep' = Tail(rep) /\ Head(rep).cmd # "LOAD"
    BY <1>2 DEF OnKeys, Handle
  <2> QED
    BY <2>4, <2>5, <2>6, QuietKeepsShown
<1>3. CASE OnExists \/ OnType \/ OnText
  <2>1. PICK cmd \in {"EXISTS", "TYPE", "TEXT"} : Handle(cmd) /\ cmd \notin {"LOAD"}
    BY <1>3 DEF OnExists, OnType, OnText
  <2>2. rep # <<>> /\ rep' = Tail(rep) /\ Head(rep).cmd # "LOAD" /\ UNCHANGED open /\ Head(rep) \in Replies
    BY <2>1, HandleTypes DEF Handle
  <2>3. UNCHANGED <<cur, curType, pages>>
    BY <1>3 DEF OnExists, OnType, OnText, Use, viewer
  <2>4. \E msgs \in Seq(Requests) : NothingLoaded(msgs) /\ Send(msgs)
    <3>1. CASE OnExists
      <4>1. Head(rep) \in Asks({"EXISTS", "TEXT"})
        BY <2>2, <3>1, ReplyKinds DEF OnExists, Handle
      <4>2. Ask("TYPE", Head(rep).key, Head(rep).gen) \in Requests
        BY <4>1 DEF Ask, Asks, Requests
      <4> QED
        BY <3>1, <4>2, OneRequest, NoLoadsSent DEF OnExists, Ask
    <3>2. CASE OnType
      <4>1. Head(rep) \in TypesFound
        BY <2>2, <3>2, ReplyKinds DEF OnType, Handle
      <4>2. Ask("TEXT", Head(rep).key, Head(rep).gen) \in Requests
        BY <4>1 DEF Ask, Asks, TypesFound, Requests
      <4> QED
        BY <3>2, <4>2, OneRequest, NoLoadsSent DEF OnType, Ask
    <3>3. CASE OnText /\ Head(rep).more
      <4> DEFINE m == [Head(rep) EXCEPT !.more = FALSE]
      <4>1. Head(rep) \in Asks({"EXISTS", "TEXT"}) /\ Head(rep).cmd = "TEXT"
        BY <2>2, <3>3, ReplyKinds DEF OnText, Handle
      <4>2. m \in Requests /\ m.cmd # "LOAD"
        BY <4>1 DEF Asks, Requests
      <4> QED
        BY <3>3, <4>2, OneRequest, NoLoadsSent DEF OnText
    <3>4. CASE OnText /\ ~Head(rep).more
      BY <1>0, <3>4, NothingSent, NoLoadsSent DEF OnText
    <3> QED
      BY <1>3, <3>1, <3>2, <3>3, <3>4
  <2>5. PICK msgs \in Seq(Requests) : NothingLoaded(msgs) /\ Send(msgs)
    BY <2>4
  <2> QED
    BY <2>2, <2>3, <2>5, QuietKeepsShown
<1>4. CASE OnLoad
  <2>1. Handle("LOAD") /\ Head(rep) \in Filled /\ UNCHANGED <<req, cur, curType, open>>
    BY <1>4, HandleTypes, ReplyKinds DEF OnLoad, Handle
  <2>2. rep # <<>> /\ rep' = Tail(rep) /\ open
    BY <2>1 DEF Handle, Shown, TypeOK
  <2> SUFFICES ASSUME NEW t \in Types, NEW k \in Keys, curType = t, cur = k
               PROVE  LoadsLeadTo(t, k)'
    BY <2>1, <2>2 DEF Shown
  <2>3. LoadsLeadTo(t, k)
    BY DEF Shown
  <2>4. /\ NoLoad(rep, t) <=> ~IsLoad(Head(rep), t) /\ NoLoad(rep', t)
        /\ LastIsFor(rep, t, k) => LastIsFor(rep', t, k)
        /\ LastIsFor(rep, t, k) /\ IsLoad(Head(rep), t) /\ NoLoad(rep', t) => Head(rep).key = k
    BY <2>2, LoadsInTail DEF TypeOK
  <2>5. IsLoad(Head(rep), t) => pages'[t].of = Head(rep).key
    BY <1>4 DEF OnLoad, TypeOK, IsLoad
  <2>6. ~IsLoad(Head(rep), t) => pages'[t].of = pages[t].of
    BY <1>4, <2>1 DEF OnLoad, TypeOK, IsLoad, Filled
  <2> QED
    BY <2>1, <2>3, <2>4, <2>5, <2>6 DEF LoadsLeadTo
<1> QED
  BY <1>1, <1>2, <1>3, <1>4 DEF Callback

LEMMA ShownByServer == TypeOK /\ Shown /\ Serve => Shown'
<1> SUFFICES ASSUME TypeOK, Shown, Serve PROVE Shown'
  OBVIOUS
<1>0. req # <<>> => Head(req) \in Requests
  BY HeadTailProperties DEF TypeOK
<1>1. CASE ServeSame
  <2>1. PICK cmd \in {"SENTINEL", "EXISTS", "TEXT"} : Query(cmd)
    BY <1>1 DEF ServeSame
  <2>2. req # <<>> /\ Head(req).cmd = cmd /\ req' = Tail(req) /\ UNCHANGED <<open, cur, curType, pages>>
    BY <2>1 DEF Query, viewer
  <2>3. Head(req) \in Replies
    BY <1>0, <2>2, RequestKinds DEF Replies, Asks
  <2>4. Answer(Head(req)) /\ \A t \in Types : Echoes(Head(req), t)
    BY <1>1 DEF ServeSame, Echoes
  <2> QED
    BY <2>2, <2>3, <2>4, QueryShows
<1>2. CASE ServeKeys
  <2> DEFINE m == [cmd |-> "KEYS", gen |-> Head(req).gen, keys |-> Existing]
  <2>1. req # <<>> /\ Head(req).cmd = "KEYS" /\ req' = Tail(req) /\ UNCHANGED <<open, cur, curType, pages>>
    BY <1>2 DEF ServeKeys, Query, viewer
  <2>2. m \in Replies
    BY <1>0, <2>1, RequestKinds DEF KeysAsked, Replies, KeysFound, Existing
  <2>3. Answer(m) /\ \A t \in Types : Echoes(m, t)
    BY <1>2, <2>1 DEF ServeKeys, Echoes, IsLoad
  <2> QED
    BY <2>1, <2>2, <2>3, QueryShows
<1>3. CASE ServeType
  <2> DEFINE k == Head(req).key
             type == IF ~hasType THEN "unknown" ELSE IF store[k] = None THEN "none" ELSE store[k].type
             m == [cmd |-> "TYPE", key |-> k, gen |-> Head(req).gen, type |-> type]
  <2>1. req # <<>> /\ Head(req).cmd = "TYPE" /\ req' = Tail(req) /\ UNCHANGED <<open, cur, curType, pages>>
    BY <1>3 DEF ServeType, Query, viewer
  <2>2. k \in Keys /\ Head(req).gen \in Nat
    BY <1>0, <2>1, RequestKinds DEF Asks
  <2>3. type \in Types \union {"unknown", "none"}
    BY <2>2 DEF TypeOK, Contents, Values
  <2>4. m \in Replies
    BY <2>2, <2>3 DEF Replies, TypesFound
  <2>5. Answer(m)
    BY <1>3 DEF ServeType
  <2>6. \A t \in Types : Echoes(m, t)
    BY <2>1 DEF Echoes, IsLoad
  <2> QED
    BY <2>1, <2>4, <2>5, <2>6, QueryShows
<1>4. CASE ServeLoad
  <2> DEFINE v == store[Head(req).key]
             rows == IF v # None /\ v.type = Head(req).type THEN v.rows ELSE {}
             m == [cmd |-> "LOAD", key |-> Head(req).key, type |-> Head(req).type, rows |-> rows]
  <2>1. req # <<>> /\ Head(req).cmd = "LOAD" /\ req' = Tail(req) /\ UNCHANGED <<open, cur, curType, pages>>
    BY <1>4 DEF ServeLoad, Query, viewer
  <2>2. Head(req) \in Loads
    BY <1>0, <2>1, RequestKinds
  <2>3. v \in Contents
    BY <2>2 DEF Loads, TypeOK
  <2>4. rows \in SUBSET Rows
    BY <2>3 DEF Contents, Values
  <2>5. m \in Replies
    BY <2>2, <2>4 DEF Loads, Replies, Filled
  <2>6. Answer(m)
    BY <1>4 DEF ServeLoad
  <2>7. \A t \in Types : Echoes(m, t)
    BY <2>1 DEF Echoes, IsLoad
  <2> QED
    BY <2>1, <2>5, <2>6, <2>7, QueryShows
<1>5. CASE ServeWrite
  <2>1. Head(req).cmd # "LOAD"
    BY <1>5 DEF ServeWrite, Writes
  <2> QED
    BY <1>5, <2>1, QueryShows DEF ServeWrite, viewer
<1> QED
  BY <1>1, <1>2, <1>3, <1>4, <1>5 DEF Serve

LEMMA ShownStep == TypeOK /\ Shown /\ [Next]_vars => Shown'
<1> SUFFICES ASSUME TypeOK, Shown, [Next]_vars PROVE Shown'
  OBVIOUS
<1>1. CASE Connect
  <2>1. cur' = None /\ open' = TRUE
    BY <1>1 DEF Connect, Shown, viewer
  <2> QED
    BY <2>1, ConstantsAssumption DEF Shown
<1>2. CASE Lose
  <2>1. cur' = None /\ rep' = <<>>
    BY <1>2 DEF Lose
  <2> QED
    BY <2>1, ConstantsAssumption DEF Shown
<1>3. ASSUME NEW k \in Keys, NEW v \in Others, OtherClient(k, v) PROVE Shown'
  BY <1>3 DEF OtherClient, network, viewer, Shown, LoadsLeadTo
<1>4. CASE UNCHANGED vars
  BY <1>4 DEF vars, network, viewer, Shown, LoadsLeadTo
<1> QED
  BY <1>1, <1>2, <1>3, <1>4, ShownByUser, ShownByCallback, ShownByServer DEF Next

LEMMA ShownInit == Init => Shown
  BY ConstantsAssumption DEF Init, Shown

LEMMA ShownImplies == TypeOK /\ Shown => ShownIsOwn
<1> SUFFICES ASSUME TypeOK, Shown, cur # None, curType \in Types, ~InFlight({"LOAD"})
             PROVE  pages[curType].of = cur
  BY DEF ShownIsOwn
<1>1. PICK t \in Types, k \in Keys : t = curType /\ k = cur
  BY DEF TypeOK
<1>2. NoLoad(req, t) /\ NoLoad(rep, t)
  <2>1. DOMAIN req = 1..Len(req) /\ DOMAIN rep = 1..Len(rep)
    BY LenProperties DEF TypeOK
  <2> QED
    BY <2>1 DEF InFlight, NoLoad, IsLoad
<1> QED
  BY <1>1, <1>2 DEF Shown, LoadsLeadTo

\* Once every load is answered the page of the current type is that of the
\* current key, whatever was clicked, reloaded and answered before.
THEOREM PageIsTheKeys == Spec => []ShownIsOwn
  BY TypeInit, TypeStep, ShownInit, ShownStep, ShownImplies, PTL DEF Spec

-----------------------------------------------------------------------------
(* What was saved.                                                         *)

Stores == [Keys -> Contents]

LEMMA CourseTail ==
  ASSUME NEW S, NEW q \in Seq(S), q # <<>>, NEW from, NEW to, Leads(q, from, to)
  PROVE  Leads(Tail(q), Effect(from, Head(q)), to)
<1>1. /\ Tail(q) \in Seq(S) /\ Len(q) \in Nat \ {0} /\ Len(Tail(q)) = Len(q) - 1
      /\ \A i \in 1..Len(Tail(q)) : Tail(q)[i] = q[i + 1]
      /\ Head(q) = q[1]
  BY HeadTailProperties, EmptySeq
<1>2. PICK h : Course(h, q, from, to)
  BY DEF Leads
<1> DEFINE g == [i \in 0..Len(Tail(q)) |-> h[i + 1]]
<1>3. \A i \in 0..Len(Tail(q)) : i + 1 \in 0..Len(q) /\ g[i] = h[i + 1]
  BY <1>1
<1>4. g \in [0..Len(Tail(q)) -> [Keys -> Contents]]
  BY <1>2, <1>3 DEF Course
<1>5. g[0] = Effect(from, Head(q)) /\ g[Len(Tail(q))] = to
  <2>1. h[1] = Effect(h[0], q[1]) /\ h[0] = from /\ h[Len(q)] = to
    BY <1>1, <1>2 DEF Course
  <2> QED
    BY <1>1, <2>1
<1>6. ASSUME NEW i \in 1..Len(Tail(q)) PROVE g[i] = Effect(g[i - 1], Tail(q)[i])
  <2>1. i + 1 \in 1..Len(q) /\ i - 1 \in 0..Len(Tail(q)) /\ i \in 0..Len(Tail(q))
    BY <1>1
  <2>2. h[i + 1] = Effect(h[(i + 1) - 1], q[i + 1])
    BY <1>2, <2>1 DEF Course
  <2>3. (i + 1) - 1 = i /\ (i - 1) + 1 = i
    BY <2>1
  <2>4. g[i] = h[i + 1] /\ g[i - 1] = h[i] /\ Tail(q)[i] = q[i + 1]
    BY <1>1, <1>3, <2>1, <2>3
  <2> HIDE DEF g
  <2> QED
    BY <2>2, <2>3, <2>4
<1> HIDE DEF g
<1>7. Course(g, Tail(q), Effect(from, Head(q)), to)
  BY <1>4, <1>5, <1>6 DEF Course
<1> QED
  BY <1>7 DEF Leads

LEMMA CourseConcat ==
  ASSUME NEW S, NEW q \in Seq(S), NEW msgs \in Seq(S), NEW from, NEW mid, NEW to,
         Leads(q, from, mid), Leads(msgs, mid, to)
  PROVE  Leads(q \o msgs, from, to)
<1> DEFINE both == q \o msgs
<1>1. /\ Len(q) \in Nat /\ Len(msgs) \in Nat /\ Len(both) = Len(q) + Len(msgs)
      /\ \A i \in 1..Len(q) : both[i] = q[i]
      /\ \A i \in 1..Len(both) : i > Len(q) => i - Len(q) \in 1..Len(msgs) /\ both[i] = msgs[i - Len(q)]
  BY ConcatProperties, LenProperties
<1>2. PICK f : Course(f, q, from, mid)
  BY DEF Leads
<1>3. PICK g : Course(g, msgs, mid, to)
  BY DEF Leads
<1> DEFINE h == [i \in 0..Len(both) |-> IF i <= Len(q) THEN f[i] ELSE g[i - Len(q)]]
<1> HIDE DEF both
<1>4. /\ f \in [0..Len(q) -> [Keys -> Contents]] /\ f[0] = from /\ f[Len(q)] = mid
      /\ \A i \in 1..Len(q) : f[i] = Effect(f[i - 1], q[i])
  BY <1>2 DEF Course
<1>5. /\ g \in [0..Len(msgs) -> [Keys -> Contents]] /\ g[0] = mid /\ g[Len(msgs)] = to
      /\ \A i \in 1..Len(msgs) : g[i] = Effect(g[i - 1], msgs[i])
  BY <1>3 DEF Course
<1>6. h \in [0..Len(both) -> [Keys -> Contents]]
  BY <1>1, <1>4, <1>5
<1>7. h[0] = from
  BY <1>1, <1>4
<1>8. \A i \in 0..Len(msgs) : h[Len(q) + i] = g[i]
  BY <1>1, <1>4, <1>5
<1>9. h[Len(both)] = to
  <2>1. Len(msgs) \in 0..Len(msgs)
    BY <1>1
  <2>2. h[Len(q) + Len(msgs)] = g[Len(msgs)]
    BY <1>8, <2>1
  <2> HIDE DEF h
  <2> QED
    BY <1>1, <1>5, <2>2
<1>10. ASSUME NEW i \in 1..Len(both) PROVE h[i] = Effect(h[i - 1], both[i])
  <2>1. CASE i <= Len(q)
    <3>1. i \in 1..Len(q) /\ h[i] = f[i] /\ h[i - 1] = f[i - 1] /\ both[i] = q[i]
      BY <1>1, <2>1
    <3> QED
      BY <1>4, <3>1
  <2>2. CASE i > Len(q)
    <3> DEFINE j == i - Len(q)
    <3>1. j \in 1..Len(msgs) /\ both[i] = msgs[j] /\ Len(q) + j = i /\ Len(q) + (j - 1) = i - 1
      BY <1>1, <2>2
    <3>2. h[i] = g[j] /\ h[i - 1] = g[j - 1]
      BY <1>1, <1>8, <3>1
    <3> QED
      BY <1>5, <3>1, <3>2
  <2> QED
    BY <1>1, <2>1, <2>2
<1> HIDE DEF h
<1>11. Course(h, both, from, to)
  BY <1>6, <1>7, <1>9, <1>10 DEF Course
<1> QED
  BY <1>11 DEF Leads, both

LEMMA LeadsNowhere == \A s \in Stores : Leads(<<>>, s, s)
<1> SUFFICES ASSUME NEW s \in Stores PROVE Leads(<<>>, s, s)
  OBVIOUS
<1> DEFINE h == [i \in 0..0 |-> s]
<1>1. Course(h, <<>>, s, s)
  BY DEF Course, Stores
<1> QED
  BY <1>1 DEF Leads

LEMMA LeadsByOne ==
  ASSUME NEW s \in Stores, NEW m, Effect(s, m) \in Stores
  PROVE  Leads(<<m>>, s, Effect(s, m))
<1> DEFINE h == [i \in 0..1 |-> IF i = 0 THEN s ELSE Effect(s, m)]
<1>1. Len(<<m>>) = 1 /\ <<m>>[1] = m
  BY OneMessage
<1>2. h \in [0..1 -> [Keys -> Contents]] /\ h[0] = s /\ h[1] = Effect(s, m)
  BY DEF Stores
<1> HIDE DEF h
<1>3. \A i \in 1..1 : h[i] = Effect(h[i - 1], <<m>>[i])
  BY <1>1, <1>2
<1>4. Course(h, <<m>>, s, Effect(s, m))
  BY <1>1, <1>2, <1>3 DEF Course
<1> QED
  BY <1>4 DEF Leads

Idle == {m \in Requests : m.cmd \notin Writes}

LEMMA IdleEffect == \A s, m : m \in Idle => Effect(s, m) = s
  BY DEF Idle, Effect, Writes

LEMMA LeadsIdly ==
  ASSUME NEW s \in Stores, NEW msgs \in Seq(Idle)
  PROVE  Leads(msgs, s, s)
<1> DEFINE h == [i \in 0..Len(msgs) |-> s]
<1>1. Len(msgs) \in Nat /\ \A i \in 1..Len(msgs) : msgs[i] \in Idle
  BY LenProperties, ElementOfSeq
<1>2. h \in [0..Len(msgs) -> [Keys -> Contents]] /\ h[0] = s /\ h[Len(msgs)] = s
  BY <1>1 DEF Stores
<1>3. \A i \in 1..Len(msgs) : h[i] = s /\ h[i - 1] = s
  BY <1>1
<1> HIDE DEF h
<1>4. \A i \in 1..Len(msgs) : h[i] = Effect(h[i - 1], msgs[i])
  BY <1>1, <1>3, IdleEffect
<1>5. Course(h, msgs, s, s)
  BY <1>2, <1>4 DEF Course
<1> QED
  BY <1>5 DEF Leads

\* With no write under way another client's write changes every store of the
\* course alike.
LEMMA LeadsBeside ==
  ASSUME NEW q \in Seq(Idle), NEW from, NEW to, Leads(q, from, to),
         NEW k \in Keys, NEW v \in Contents
  PROVE  Leads(q, [from EXCEPT ![k] = v], [to EXCEPT ![k] = v])
<1>1. Len(q) \in Nat /\ \A i \in 1..Len(q) : q[i] \in Idle
  BY LenProperties, ElementOfSeq
<1>2. PICK h : Course(h, q, from, to)
  BY DEF Leads
<1> DEFINE g == [i \in 0..Len(q) |-> [h[i] EXCEPT ![k] = v]]
<1>3. \A i \in 1..Len(q) : h[i] = h[i - 1]
  BY <1>1, <1>2, IdleEffect DEF Course
<1>4. /\ g \in [0..Len(q) -> [Keys -> Contents]]
      /\ g[0] = [from EXCEPT ![k] = v] /\ g[Len(q)] = [to EXCEPT ![k] = v]
  BY <1>1, <1>2 DEF Course
<1>5. ASSUME NEW i \in 1..Len(q) PROVE i - 1 \in 0..Len(q) /\ g[i] = g[i - 1]
  <2>1. i \in 0..Len(q) /\ i - 1 \in 0..Len(q)
    BY <1>1
  <2>2. g[i] = [h[i] EXCEPT ![k] = v] /\ g[i - 1] = [h[i - 1] EXCEPT ![k] = v]
    BY <2>1
  <2> QED
    BY <1>3, <2>1, <2>2
<1> HIDE DEF g
<1>6. \A i \in 1..Len(q) : g[i] = Effect(g[i - 1], q[i])
  BY <1>1, <1>5, IdleEffect
<1>7. Course(g, q, [from EXCEPT ![k] = v], [to EXCEPT ![k] = v])
  BY <1>4, <1>6 DEF Course
<1> QED
  BY <1>7 DEF Leads

\* What the writes of a save do to the key.
LEMMA SetStored ==
  ASSUME NEW s, NEW k, NEW t, NEW rows
  PROVE  Effect(s, Write("SET", k, t, rows)) = [s EXCEPT ![k] = [type |-> "string", rows |-> rows]]
  BY DEF Effect, Write

LEMMA DelStored ==
  ASSUME NEW s, NEW k, NEW t
  PROVE  Effect(s, Write("DEL", k, t, {})) = [s EXCEPT ![k] = None]
  BY DEF Effect, Write

LEMMA FirstStored ==
  ASSUME NEW s, NEW k, NEW t, NEW rows, s[k] = None
  PROVE  Effect(s, Write("ADD", k, t, rows)) = [s EXCEPT ![k] = [type |-> t, rows |-> rows]]
  BY DEF Effect, Write

LEMMA NextStored ==
  ASSUME NEW s \in Stores, NEW k \in Keys, NEW t \in Types, NEW rows \in SUBSET Rows,
         NEW old \in SUBSET Rows, s[k] = [type |-> t, rows |-> old]
  PROVE  Effect(s, Write("ADD", k, t, rows)) = [s EXCEPT ![k] = [type |-> t, rows |-> old \union rows]]
<1>1. [type |-> t, rows |-> old] \in Values
  BY DEF Values
<1>2. s[k] # None /\ s[k].type = t
  BY <1>1, ConstantsAssumption
<1>3. Effect(s, Write("ADD", k, t, rows)) = [s EXCEPT ![k].rows = @ \union rows]
  BY <1>2 DEF Effect, Write
<1>4. [s[k] EXCEPT !.rows = @ \union rows] = [type |-> t, rows |-> old \union rows]
  OBVIOUS
<1> QED
  BY <1>3, <1>4

LEMMA LeadsByRows ==
  ASSUME NEW s \in Stores, NEW k \in Keys, NEW rows \in SUBSET Rows, s[k] = None
  PROVE  Leads(RowWrites(k, rows), s, [s EXCEPT ![k] = Stored("hash", rows)])
<1> DEFINE n == Cardinality(rows)
           row == SetToSeq(rows)
           msgs == RowWrites(k, rows)
           upto(i) == {row[j] : j \in 1..i}
           val(i) == IF i = 0 THEN None ELSE [type |-> "hash", rows |-> upto(i)]
           h == [i \in 0..n |-> [s EXCEPT ![k] = val(i)]]
<1>1. IsFiniteSet(rows)
  BY Finite
<1>2. n \in Nat /\ row \in [1..n -> rows] /\ upto(n) = rows
  BY <1>1, SetToSeqListsAll
<1>3. Len(msgs) = n /\ \A i \in 1..n : msgs[i] = Write("ADD", k, "hash", {row[i]})
  BY RowWriteTypes DEF RowWrites
<1>4. \A i \in 1..n : upto(i) \in SUBSET Rows /\ {row[i]} \in SUBSET Rows
  BY <1>2
<1>5. \A i \in 0..n : val(i) \in Contents
  BY <1>4 DEF Contents, Values, Types
<1>6. h \in [0..n -> [Keys -> Contents]]
  BY <1>5 DEF Stores
<1>7. h[0] = s
  BY <1>2 DEF Stores
<1>8. n = 0 <=> rows = {}
  BY <1>1, FS_EmptySet
<1>9. val(n) = Stored("hash", rows)
  BY <1>2, <1>8 DEF Stored
<1>10. h[n] = [s EXCEPT ![k] = Stored("hash", rows)]
  <2>1. n \in 0..n
    BY <1>2
  <2>2. h[n] = [s EXCEPT ![k] = val(n)]
    BY <2>1
  <2> HIDE DEF h, val
  <2> QED
    BY <1>9, <2>2
<1>11. ASSUME NEW i \in 1..n PROVE h[i] = Effect(h[i - 1], msgs[i])
  <2>1. i - 1 \in 0..n /\ i \in 0..n
    BY <1>2
  <2>2. h[i] = [s EXCEPT ![k] = [type |-> "hash", rows |-> upto(i)]] /\ h[i - 1] = [s EXCEPT ![k] = val(i - 1)]
    <3>1. h[i] = [s EXCEPT ![k] = val(i)] /\ h[i - 1] = [s EXCEPT ![k] = val(i - 1)]
      <4> HIDE DEF val
      <4> QED
        BY <2>1
    <3>2. i # 0 /\ val(i) = [type |-> "hash", rows |-> upto(i)]
      OBVIOUS
    <3> HIDE DEF h, val
    <3> QED
      BY <3>1, <3>2
  <2>3. h[i - 1] \in Stores /\ h[i - 1][k] = val(i - 1)
    BY <1>6, <2>1, <2>2 DEF Stores
  <2>4. upto(i) = upto(i - 1) \union {row[i]}
    BY <1>2, <2>1
  <2> HIDE DEF h
  <2>5. CASE i = 1
    <3>1. val(i - 1) = None /\ upto(i) = {row[i]}
      BY <2>5
    <3>2. Effect(h[i - 1], msgs[i]) = [h[i - 1] EXCEPT ![k] = [type |-> "hash", rows |-> {row[i]}]]
      <4>1. h[i - 1][k] = None /\ msgs[i] = Write("ADD", k, "hash", {row[i]})
        BY <1>3, <2>3, <3>1
      <4> DEFINE g == h[i - 1]
                 x == {row[i]}
      <4>2. g[k] = None
        BY <4>1
      <4> HIDE DEF g, x, msgs, row, upto, val, n
      <4>3. Effect(g, Write("ADD", k, "hash", x)) = [g EXCEPT ![k] = [type |-> "hash", rows |-> x]]
        BY <4>2, FirstStored
      <4> QED
        BY <4>1, <4>3 DEF g, x
    <3> QED
      BY <2>2, <3>1, <3>2
  <2>6. CASE i # 1
    <3>1. i - 1 \in 1..n /\ val(i - 1) = [type |-> "hash", rows |-> upto(i - 1)]
      BY <1>2, <2>6
    <3>2. Effect(h[i - 1], msgs[i]) = [h[i - 1] EXCEPT ![k] = [type |-> "hash", rows |-> upto(i - 1) \union {row[i]}]]
      <4>1. h[i - 1][k] = [type |-> "hash", rows |-> upto(i - 1)] /\ msgs[i] = Write("ADD", k, "hash", {row[i]})
        BY <1>3, <2>3, <3>1
      <4>2. /\ h[i - 1] \in Stores /\ upto(i - 1) \in SUBSET Rows /\ {row[i]} \in SUBSET Rows
            /\ "hash" \in Types
        BY <1>4, <2>3, <3>1 DEF Types
      <4> DEFINE g == h[i - 1]
                 old == upto(i - 1)
                 x == {row[i]}
      <4>3. /\ g \in Stores /\ old \in SUBSET Rows /\ x \in SUBSET Rows /\ "hash" \in Types
            /\ g[k] = [type |-> "hash", rows |-> old]
        BY <4>1, <4>2
      <4> HIDE DEF g, old, x
      <4>4. Effect(g, Write("ADD", k, "hash", x)) = [g EXCEPT ![k] = [type |-> "hash", rows |-> old \union x]]
        BY <4>3, NextStored
      <4> QED
        BY <4>1, <4>4 DEF g, old, x
    <3> HIDE DEF upto, val
    <3> QED
      BY <2>2, <2>4, <3>2
  <2> QED
    BY <2>5, <2>6
<1> HIDE DEF h
<1>12. Course(h, msgs, s, [s EXCEPT ![k] = Stored("hash", rows)])
  BY <1>3, <1>6, <1>7, <1>10, <1>11 DEF Course
<1> QED
  BY <1>12 DEF Leads

LEMMA LeadsBySave ==
  ASSUME NEW s \in Stores, NEW k \in Keys, NEW t \in Types, NEW rows \in SUBSET Rows
  PROVE  Leads(Saving(k, t, rows), s, [s EXCEPT ![k] = Stored(t, rows)])
<1> DEFINE emptied == [s EXCEPT ![k] = None]
           del == Write("DEL", k, t, {})
           add == Write("ADD", k, t, rows)
<1>1. emptied \in Stores /\ emptied[k] = None
  BY DEF Stores, Contents
<1>2. Leads(<<del>>, s, emptied) /\ <<del>> \in Seq(Edits)
  <2>1. Effect(s, del) = emptied
    BY DelStored
  <2>2. del \in Edits
    BY MessageTypes
  <2> HIDE DEF del, emptied
  <2> QED
    BY <1>1, <2>1, <2>2, LeadsByOne
<1>3. CASE t = "string"
  <2>1. Saving(k, t, rows) = <<Write("SET", k, t, rows)>> /\ Stored(t, rows) = [type |-> "string", rows |-> rows]
    BY <1>3 DEF Saving, Stored
  <2>2. Effect(s, Write("SET", k, t, rows)) = [s EXCEPT ![k] = Stored(t, rows)]
    BY <2>1, SetStored
  <2>3. Effect(s, Write("SET", k, t, rows)) \in Stores
    BY <2>1, <2>2 DEF Stores, Contents, Values, Types
  <2> QED
    BY <2>1, <2>2, <2>3, LeadsByOne
<1>4. CASE t = "list"
  <2>1. CASE rows = {}
    <3>1. Saving(k, t, rows) = <<del>> \o <<>> /\ Stored(t, rows) = None
      BY <1>4, <2>1 DEF Saving, Stored
    <3>2. Saving(k, t, rows) = <<del>>
      BY <1>2, <3>1, ConcatEmptySeq
    <3> QED
      BY <1>2, <3>1, <3>2
  <2>2. CASE rows # {}
    <3>1. Saving(k, t, rows) = <<del>> \o <<add>> /\ Stored(t, rows) = [type |-> t, rows |-> rows]
      BY <1>4, <2>2 DEF Saving, Stored
    <3>2. Effect(emptied, add) = [emptied EXCEPT ![k] = Stored(t, rows)]
      <4>1. Effect(emptied, add) = [emptied EXCEPT ![k] = [type |-> t, rows |-> rows]]
        <5> HIDE DEF emptied
        <5> QED
          BY <1>1, FirstStored
      <4> QED
        BY <3>1, <4>1
    <3>3. [emptied EXCEPT ![k] = Stored(t, rows)] = [s EXCEPT ![k] = Stored(t, rows)]
      BY DEF Stores
    <3>4. [s EXCEPT ![k] = Stored(t, rows)] \in Stores
      BY <3>1 DEF Stores, Contents, Values
    <3>5. Leads(<<add>>, emptied, [s EXCEPT ![k] = Stored(t, rows)])
      BY <1>1, <3>2, <3>3, <3>4, LeadsByOne
    <3>6. <<add>> \in Seq(Edits)
      BY MessageTypes
    <3> QED
      BY <1>2, <3>1, <3>5, <3>6, CourseConcat
  <2> QED
    BY <2>1, <2>2
<1>5. CASE t = "hash"
  <2>1. Saving(k, t, rows) = <<del>> \o RowWrites(k, rows)
    BY <1>5 DEF Saving, RowWrites
  <2>2. Leads(RowWrites(k, rows), emptied, [emptied EXCEPT ![k] = Stored("hash", rows)])
    BY <1>1, LeadsByRows
  <2>3. [emptied EXCEPT ![k] = Stored("hash", rows)] = [s EXCEPT ![k] = Stored(t, rows)]
    BY <1>5 DEF Stores
  <2>4. RowWrites(k, rows) \in Seq(Edits)
    BY RowWriteTypes
  <2>5. Leads(RowWrites(k, rows), emptied, [s EXCEPT ![k] = Stored(t, rows)])
    BY <2>2, <2>3
  <2> HIDE DEF del, emptied
  <2> QED
    BY <1>2, <2>1, <2>4, <2>5, CourseConcat
<1> QED
  BY <1>3, <1>4, <1>5 DEF Types

LEMMA IdleRequests ==
  /\ Idle \subseteq Requests /\ Seq(Idle) \subseteq Seq(Requests)
  /\ <<>> \in Seq(Idle)
  /\ \A m \in Idle : <<m>> \in Seq(Idle)
  /\ \A g \in Nat : <<[cmd |-> "KEYS", gen |-> g]>> \in Seq(Idle)
  /\ Seq(Asks({"EXISTS", "TYPE"})) \subseteq Seq(Idle)
  /\ Asks({"EXISTS", "TYPE", "TEXT"}) \union Loads \union Sentinels \union KeysAsked \subseteq Idle
<1>1. Idle \subseteq Requests
  BY DEF Idle
<1>2. Asks({"EXISTS", "TYPE", "TEXT"}) \union Loads \union Sentinels \union KeysAsked \subseteq Idle
  BY DEF Idle, Requests, Asks, Loads, Sentinels, KeysAsked, Writes
<1>3. Asks({"EXISTS", "TYPE"}) \subseteq Idle
  BY <1>2 DEF Asks
<1>4. Seq(Idle) \subseteq Seq(Requests) /\ Seq(Asks({"EXISTS", "TYPE"})) \subseteq Seq(Idle)
  BY <1>1, <1>3, SeqMonotonic
<1>5. \A m \in Idle : <<m>> \in Seq(Idle)
  OBVIOUS
<1>6. \A g \in Nat : <<[cmd |-> "KEYS", gen |-> g]>> \in Seq(Idle)
  BY <1>2, <1>5, MessageTypes
<1> QED
  BY <1>1, <1>2, <1>4, <1>5, <1>6, EmptySeq

\* Writes are sent and the store wanted is what they lead to.
LEMMA SendSaves ==
  ASSUME TypeOK, Saved, NEW msgs \in Seq(Requests), Send(msgs), UNCHANGED <<store, lost, raced>>,
         open => Leads(msgs, want, want'), ~open => want' = want
  PROVE  Saved'
<1> SUFFICES ASSUME ~lost, ~raced PROVE Leads(req', store', want')
  BY DEF Saved
<1>1. Leads(req, store, want) /\ req \in Seq(Requests)
  BY DEF Saved, TypeOK
<1>2. CASE open
  <2>1. Leads(req \o msgs, store, want')
    BY <1>1, <1>2, CourseConcat
  <2> QED
    BY <1>2, <2>1 DEF Send
<1>3. CASE ~open
  BY <1>1, <1>3 DEF Send
<1> QED
  BY <1>2, <1>3

LEMMA IdleSendSaves ==
  ASSUME TypeOK, Saved, NEW msgs \in Seq(Idle), Send(msgs), UNCHANGED <<store, want, lost, raced>>
  PROVE  Saved'
<1>1. want \in Stores
  BY DEF TypeOK, Stores
<1>2. msgs \in Seq(Requests) /\ Leads(msgs, want, want')
  BY <1>1, IdleRequests, LeadsIdly
<1> QED
  BY <1>2, SendSaves

LEMMA ExecuteSaves ==
  ASSUME TypeOK, Saved, req # <<>>, req' = Tail(req), store' = Effect(store, Head(req)),
         UNCHANGED <<want, lost, raced>>
  PROVE  Saved'
<1> SUFFICES ASSUME ~lost, ~raced PROVE Leads(req', store', want')
  BY DEF Saved
<1>1. Leads(req, store, want) /\ req \in Seq(Requests)
  BY DEF Saved, TypeOK
<1>2. Leads(Tail(req), Effect(store, Head(req)), want)
  BY <1>1, CourseTail
<1> QED
  BY <1>2

\* A write sent before a refresh.
LEMMA LeadsThenRefresh ==
  ASSUME TypeOK, NEW m \in Changes
  PROVE  Leads(<<m>> \o AskKeys, want, Effect(want, m))
<1>1. want \in Stores /\ Effect(want, m) \in Stores
  BY ExecutedTypes DEF TypeOK, Stores
<1>2. Leads(<<m>>, want, Effect(want, m))
  BY <1>1, LeadsByOne
<1>3. AskKeys \in Seq(Idle)
  BY IdleRequests DEF AskKeys, TypeOK
<1>4. Leads(AskKeys, Effect(want, m), Effect(want, m))
  BY <1>1, <1>3, LeadsIdly
<1>5. <<m>> \in Seq(Requests) /\ AskKeys \in Seq(Requests)
  BY <1>3, OneRequest, IdleRequests DEF Requests
<1> QED
  BY <1>2, <1>4, <1>5, CourseConcat

LEMMA SavedByUser == TypeOK /\ Saved /\ User => Saved'
<1> SUFFICES ASSUME TypeOK, Saved, User PROVE Saved'
  OBVIOUS
<1>0. /\ AskKeys \in Seq(Idle) /\ <<>> \in Seq(Idle) /\ want \in Stores
      /\ \A k \in Keys, t \in Types : <<[cmd |-> "LOAD", key |-> k, type |-> t]>> \in Seq(Idle)
  <2>1. \A k \in Keys, t \in Types : [cmd |-> "LOAD", key |-> k, type |-> t] \in Idle
    BY IdleRequests DEF Loads
  <2>2. AskKeys \in Seq(Idle)
    BY IdleRequests DEF AskKeys, TypeOK
  <2>3. want \in Stores
    BY DEF TypeOK, Stores
  <2> QED
    BY <2>1, <2>2, <2>3, IdleRequests
<1>1. CASE RefreshAsked
  BY <1>0, <1>1, IdleSendSaves DEF RefreshAsked, history
<1>2. ASSUME NEW k \in Keys, NEW type, LoadKey(k, type), UNCHANGED <<store, want, lost, raced>>
      PROVE  Saved'
  <2> DEFINE msgs == IF type \in Types THEN <<[cmd |-> "LOAD", key |-> k, type |-> type]>> ELSE <<>>
  <2>1. msgs \in Seq(Idle)
    BY <1>0
  <2>2. Send(msgs) \/ UNCHANGED req
    BY <1>2 DEF LoadKey
  <2> HIDE DEF msgs
  <2> QED
    BY <1>0, <1>2, <2>1, <2>2, NothingSent, IdleSendSaves
<1>3. CASE ReloadKey
  <2>1. cur \in Keys /\ LoadKey(cur, curType) /\ UNCHANGED <<store, want, lost, raced>>
    BY <1>3 DEF ReloadKey, TypeOK, history
  <2> QED
    BY <1>2, <2>1
<1>4. CASE Save
  <2> DEFINE rows == pages[curType].rows
             msgs == Saving(cur, curType, rows)
  <2>1. cur \in Keys /\ curType \in Types /\ rows \in SUBSET Rows
    BY <1>4 DEF Save, TypeOK
  <2>2. msgs \in Seq(Requests)
    BY <2>1, SavingTypes, MoreRequests
  <2>3. Leads(msgs, want, [want EXCEPT ![cur] = Stored(curType, rows)])
    BY <1>0, <2>1, LeadsBySave
  <2>4. /\ open /\ Send(msgs) /\ UNCHANGED <<store, lost, raced>>
        /\ want' = [want EXCEPT ![cur] = Stored(curType, rows)]
    BY <1>4 DEF Save
  <2> HIDE DEF msgs
  <2> QED
    BY <2>2, <2>3, <2>4, SendSaves
<1>5. CASE OnDeleteKey
  <2> DEFINE m == Write("DEL", cur, "string", {})
  <2>1. cur \in Keys
    BY <1>5 DEF OnDeleteKey, TypeOK
  <2>2. m \in Edits /\ m \in Requests
    BY <2>1, MessageTypes DEF Types, Requests, Changes
  <2>3. Effect(want, m) = want' /\ want' \in Stores
    BY <1>5, <2>1, DelStored DEF OnDeleteKey, Stores, Contents, TypeOK
  <2>4. open /\ Send(<<m>>) /\ UNCHANGED <<store, lost, raced>>
    BY <1>5 DEF OnDeleteKey
  <2> HIDE DEF m
  <2>5. Leads(<<m>>, want, want') /\ <<m>> \in Seq(Requests)
    BY <1>0, <2>2, <2>3, LeadsByOne, OneRequest
  <2> QED
    BY <2>4, <2>5, SendSaves
<1>6. ASSUME NEW k \in Keys, OnItemClicked(k) PROVE Saved'
  BY <1>2, <1>6 DEF OnItemClicked, history
<1>7. ASSUME NEW k \in Keys, OnContextMenu(k) PROVE Saved'
  BY <1>7 DEF OnContextMenu, network, history, Saved
<1>8. ASSUME NEW k \in Keys, MenuRename(k) PROVE Saved'
  <2> DEFINE m == [cmd |-> "RENAME", key |-> menu.key, to |-> k]
  <2>1. m \in Changes /\ m \in Requests
    BY <1>8, MenuTypes, MessageTypes DEF MenuRename, Requests, Changes
  <2>2. Effect(want, m) = Renamed(want, menu.key, k)
    BY DEF Effect
  <2>3. /\ Send(<<m>> \o AskKeys) /\ UNCHANGED <<store, lost, raced>>
        /\ want' = IF open THEN Renamed(want, menu.key, k) ELSE want
    BY <1>8 DEF MenuRename
  <2> HIDE DEF m
  <2>4. Leads(<<m>> \o AskKeys, want, Effect(want, m)) /\ <<m>> \o AskKeys \in Seq(Requests)
    BY <2>1, LeadsThenRefresh, ThenRefresh
  <2> QED
    BY <2>2, <2>3, <2>4, SendSaves
<1>9. ASSUME NEW rows \in SUBSET Rows, Edit(rows) PROVE Saved'
  BY <1>9 DEF Edit, network, history, Saved
<1>10. CASE MenuOpen
  <2>1. menu.key \in Keys /\ LoadKey(menu.key, ItemType(menu.key)) /\ UNCHANGED <<store, want, lost, raced>>
    BY <1>10, MenuTypes DEF MenuOpen, history
  <2> QED
    BY <1>2, <2>1
<1>11. CASE MenuDelete
  <2> DEFINE m == Write("DEL", menu.key, "string", {})
  <2>1. m \in Changes /\ m \in Requests
    BY <1>11, MenuTypes, MessageTypes DEF MenuDelete, Types, Requests, Changes
  <2>2. Effect(want, m) = [want EXCEPT ![menu.key] = None]
    BY DelStored
  <2>3. /\ Send(<<m>> \o AskKeys) /\ UNCHANGED <<store, lost, raced>>
        /\ want' = IF open THEN [want EXCEPT ![menu.key] = None] ELSE want
    BY <1>11 DEF MenuDelete
  <2> HIDE DEF m
  <2>4. Leads(<<m>> \o AskKeys, want, Effect(want, m)) /\ <<m>> \o AskKeys \in Seq(Requests)
    BY <2>1, LeadsThenRefresh, ThenRefresh
  <2> QED
    BY <2>2, <2>3, <2>4, SendSaves
<1>12. CASE MenuClosed
  BY <1>12 DEF MenuClosed, network, history, Saved
<1> QED
  BY <1>1, <1>3, <1>4, <1>5, <1>6, <1>7, <1>8, <1>9, <1>10, <1>11, <1>12 DEF User

LEMMA SavedByCallback == TypeOK /\ Saved /\ Callback => Saved'
<1> SUFFICES ASSUME TypeOK, Saved, Callback PROVE Saved'
  OBVIOUS
<1>1. UNCHANGED <<store, want, lost, raced>> /\ Head(rep) \in Replies
  BY HandleTypes DEF Callback, OnSentinel, OnKeys, OnExists, OnType, OnText, OnLoad, Handle, history
<1>2. \E msgs \in Seq(Idle) : Send(msgs)
  <2>1. CASE OnSentinel
    <3>1. AskKeys \in Seq(Idle)
      BY IdleRequests DEF AskKeys, TypeOK
    <3> QED
      BY <2>1, <3>1 DEF OnSentinel
  <2>2. CASE OnKeys
    <3>1. Head(rep) \in KeysFound
      BY <1>1, <2>2, ReplyKinds DEF OnKeys, Handle
    <3>2. Asking(Head(rep).keys \ loaded, Head(rep).gen) \in Seq(Asks({"EXISTS", "TYPE"}))
      BY <3>1, AskingTypes DEF KeysFound
    <3>3. Send(Asking(Head(rep).keys \ loaded, Head(rep).gen))
      BY <2>2 DEF OnKeys, Asking
    <3> QED
      BY <3>2, <3>3, IdleRequests
  <2>3. CASE OnExists
    <3>1. Head(rep) \in Asks({"EXISTS", "TEXT"})
      BY <1>1, <2>3, ReplyKinds DEF OnExists, Handle
    <3>2. Ask("TYPE", Head(rep).key, Head(rep).gen) \in Asks({"EXISTS", "TYPE", "TEXT"})
      BY <3>1 DEF Ask, Asks
    <3> QED
      BY <2>3, <3>2, IdleRequests DEF OnExists
  <2>4. CASE OnType
    <3>1. Head(rep) \in TypesFound
      BY <1>1, <2>4, ReplyKinds DEF OnType, Handle
    <3>2. Ask("TEXT", Head(rep).key, Head(rep).gen) \in Asks({"EXISTS", "TYPE", "TEXT"})
      BY <3>1 DEF Ask, Asks, TypesFound
    <3> QED
      BY <2>4, <3>2, IdleRequests DEF OnType
  <2>5. CASE OnText /\ Head(rep).more
    <3>1. Head(rep) \in Asks({"EXISTS", "TEXT"})
      BY <1>1, <2>5, ReplyKinds DEF OnText, Handle
    <3>2. [Head(rep) EXCEPT !.more = FALSE] \in Asks({"EXISTS", "TYPE", "TEXT"})
      BY <3>1 DEF Asks
    <3> QED
      BY <2>5, <3>2, IdleRequests DEF OnText
  <2>6. CASE OnLoad \/ (OnText /\ ~Head(rep).more)
    BY <2>6, NothingSent, IdleRequests DEF OnLoad, OnText
  <2> QED
    BY <2>1, <2>2, <2>3, <2>4, <2>5, <2>6 DEF Callback
<1> QED
  BY <1>1, <1>2, IdleSendSaves

LEMMA SavedByServer == TypeOK /\ Saved /\ Serve => Saved'
<1> SUFFICES ASSUME TypeOK, Saved, Serve PROVE Saved'
  OBVIOUS
<1>0. req # <<>> => Head(req) \in Requests
  BY HeadTailProperties DEF TypeOK
<1>1. CASE ServeWrite
  <2>1. Head(req) \in Changes
    BY <1>0, <1>1, RequestKinds DEF ServeWrite
  <2>2. store' = Effect(store, Head(req))
    BY <1>1, <2>1, ExecutedIsEffect DEF ServeWrite
  <2> QED
    BY <1>1, <2>2, ExecuteSaves DEF ServeWrite, history
<1>2. CASE ~ServeWrite
  <2>1. PICK cmd \in {"SENTINEL", "EXISTS", "TEXT", "KEYS", "TYPE", "LOAD"} : Query(cmd)
    BY <1>2 DEF Serve, ServeSame, ServeKeys, ServeType, ServeLoad
  <2>2. req # <<>> /\ req' = Tail(req) /\ Head(req).cmd = cmd /\ UNCHANGED <<store, want, lost, raced>>
    BY <2>1 DEF Query
  <2>3. Head(req) \in Idle
    BY <1>0, <2>2 DEF Idle, Writes
  <2>4. store' = Effect(store, Head(req))
    BY <2>2, <2>3, IdleEffect
  <2> QED
    BY <2>2, <2>4, ExecuteSaves
<1> QED
  BY <1>1, <1>2

LEMMA SavedStep == TypeOK /\ Saved /\ [Next]_vars => Saved'
<1> SUFFICES ASSUME TypeOK, Saved, [Next]_vars PROVE Saved'
  OBVIOUS
<1>1. CASE Connect
  <2> DEFINE msgs == <<[cmd |-> "SENTINEL"]>>
  <2>1. msgs \in Seq(Idle)
    BY IdleRequests, MessageTypes
  <2>2. req' = msgs /\ req = <<>> /\ UNCHANGED <<store, want, lost, raced>>
    BY <1>1 DEF Connect, history
  <2> HIDE DEF msgs
  <2> SUFFICES ASSUME ~lost, ~raced PROVE Leads(req', store', want')
    BY <2>2 DEF Saved
  <2>3. Leads(<<>>, store, want) /\ store \in Stores
    BY <2>2 DEF Saved, TypeOK, Stores
  <2>4. Len(<<>>) = 0
    OBVIOUS
  <2>5. store = want
    BY <2>3, <2>4 DEF Leads, Course
  <2> QED
    BY <2>1, <2>2, <2>3, <2>5, LeadsIdly
<1>2. CASE Lose
  BY <1>2 DEF Lose, Saved
<1>3. ASSUME NEW k \in Keys, NEW v \in Others, OtherClient(k, v) PROVE Saved'
  <2> SUFFICES ASSUME ~lost', ~raced' PROVE Leads(req', store', want')
    BY DEF Saved
  <2>1. ~lost /\ ~raced /\ ~InFlight(Writes) /\ req' = req
    BY <1>3 DEF OtherClient, network
  <2>2. Leads(req, store, want)
    BY <2>1 DEF Saved
  <2>3. req \in Seq(Requests) /\ \A i \in 1..Len(req) : req[i] \in Idle
    <3>1. req \in Seq(Requests) /\ DOMAIN req = 1..Len(req) /\ \A i \in 1..Len(req) : req[i] \in Requests
      BY LenProperties, ElementOfSeq DEF TypeOK
    <3> QED
      BY <2>1, <3>1 DEF InFlight, Idle
  <2>4. Len(req) \in Nat /\ req \in [1..Len(req) -> Idle]
    BY <2>3, LenProperties
  <2>5. req \in Seq(Idle)
    BY <2>4, FunctionIsSeq
  <2>6. v \in Contents
    BY ConstantsAssumption DEF Contents
  <2> QED
    BY <1>3, <2>1, <2>2, <2>5, <2>6, LeadsBeside DEF OtherClient
<1>4. CASE UNCHANGED vars
  BY <1>4 DEF vars, network, history, Saved
<1> QED
  BY <1>1, <1>2, <1>3, <1>4, SavedByUser, SavedByCallback, SavedByServer DEF Next

LEMMA SavedInit == Init => Saved
<1> SUFFICES ASSUME Init PROVE Leads(req, store, want)
  BY DEF Saved
<1>1. store \in Stores /\ req = <<>> /\ want = store
  BY ConstantsAssumption DEF Init, Stores, Contents
<1> QED
  BY <1>1, LeadsNowhere

LEMMA SavedImplies == TypeOK /\ Saved => SavedIsStored
<1> SUFFICES ASSUME Saved, req = <<>>, ~lost, ~raced PROVE store = want
  BY DEF SavedIsStored, Settled
<1>1. Leads(<<>>, store, want)
  BY DEF Saved
<1>2. Len(<<>>) = 0
  OBVIOUS
<1> QED
  BY <1>1, <1>2 DEF Leads, Course

\* When nothing is in flight the keys hold what was last saved under them,
\* whatever was saved, deleted and renamed meanwhile, unless a connection was
\* lost or another client wrote between the writes.
THEOREM EditsArrive == Spec => []SavedIsStored
  BY TypeInit, TypeStep, SavedInit, SavedStep, SavedImplies, PTL DEF Spec

-----------------------------------------------------------------------------
(* The tree.                                                               *)

\* Each message of a queue, whatever its place.
LEMMA RangeIs ==
  ASSUME NEW S, NEW q \in Seq(S)
  PROVE  /\ Len(q) \in Nat /\ DOMAIN q = 1..Len(q)
         /\ \A i \in 1..Len(q) : q[i] \in Range(q)
         /\ \A m \in Range(q) : m \in S /\ \E i \in 1..Len(q) : m = q[i]
  BY LenProperties, ElementOfSeq DEF Range

LEMMA RangeOfTail ==
  ASSUME NEW S, NEW q \in Seq(S), q # <<>>
  PROVE  Range(q) = {Head(q)} \union Range(Tail(q)) /\ Head(q) \in Range(q) /\ Head(q) \in S
<1>1. /\ Tail(q) \in Seq(S) /\ Len(q) \in Nat \ {0} /\ Len(Tail(q)) = Len(q) - 1
      /\ \A i \in 1..Len(Tail(q)) : Tail(q)[i] = q[i + 1]
      /\ Head(q) = q[1] /\ Head(q) \in S
  BY HeadTailProperties, EmptySeq
<1>2. /\ DOMAIN q = 1..Len(q) /\ DOMAIN Tail(q) = 1..Len(Tail(q))
  BY <1>1, LenProperties
<1>3. \A i \in 2..Len(q) : i - 1 \in 1..Len(Tail(q)) /\ q[i] = Tail(q)[i - 1]
  BY <1>1
<1>4. Range(q) \subseteq {Head(q)} \union Range(Tail(q))
  <2> SUFFICES ASSUME NEW i \in 1..Len(q) PROVE q[i] \in {Head(q)} \union Range(Tail(q))
    BY <1>2 DEF Range
  <2>1. CASE i = 1
    BY <1>1, <2>1
  <2>2. CASE i # 1
    <3>1. i \in 2..Len(q)
      BY <1>1, <2>2
    <3>2. i - 1 \in DOMAIN Tail(q) /\ q[i] = Tail(q)[i - 1]
      BY <1>2, <1>3, <3>1
    <3> QED
      BY <3>2 DEF Range
  <2> QED
    BY <2>1, <2>2
<1>5. Range(Tail(q)) \subseteq Range(q)
  <2> SUFFICES ASSUME NEW i \in 1..Len(Tail(q)) PROVE Tail(q)[i] \in Range(q)
    BY <1>2 DEF Range
  <2>1. i + 1 \in 1..Len(q) /\ Tail(q)[i] = q[i + 1]
    BY <1>1
  <2> QED
    BY <1>2, <2>1 DEF Range
<1>6. Head(q) \in Range(q)
  BY <1>1, <1>2 DEF Range
<1> QED
  BY <1>1, <1>4, <1>5, <1>6

LEMMA RangeOfOne == \A m : Range(<<m>>) = {m}
<1> TAKE m
<1>1. <<m>> \in Seq({m}) /\ Len(<<m>>) = 1 /\ <<m>>[1] = m
  BY OneMessage
<1>2. DOMAIN <<m>> = 1..1
  BY <1>1, LenProperties
<1> QED
  BY <1>1, <1>2 DEF Range

LEMMA RangeOfNone == Range(<<>>) = {}
  BY DEF Range

LEMMA InFlightIs ==
  ASSUME TypeOK, NEW cmds
  PROVE  InFlight(cmds) <=> \E m \in Flying : m.cmd \in cmds
<1>1. /\ DOMAIN req = 1..Len(req) /\ DOMAIN rep = 1..Len(rep)
  BY LenProperties DEF TypeOK
<1> QED
  BY <1>1 DEF InFlight, Flying, Range

LEMMA OnceInTail ==
  ASSUME NEW S, NEW q \in Seq(S), q # <<>>, KeysOnce(q)
  PROVE  /\ KeysOnce(Tail(q))
         /\ Head(q).cmd = "KEYS" => ~HasChain(Range(Tail(q)))
         /\ Head(q).cmd \in Chain => ~HasKeys(Range(Tail(q)))
<1>1. /\ Tail(q) \in Seq(S) /\ Len(q) \in Nat \ {0} /\ Len(Tail(q)) = Len(q) - 1
      /\ \A i \in 1..Len(Tail(q)) : Tail(q)[i] = q[i + 1] /\ i + 1 \in 1..Len(q)
      /\ Head(q) = q[1] /\ 1 \in 1..Len(q)
  BY HeadTailProperties, EmptySeq
<1>2. KeysOnce(Tail(q))
  <2> SUFFICES ASSUME NEW i \in 1..Len(Tail(q)), NEW j \in 1..Len(Tail(q)),
                      Tail(q)[i].cmd = "KEYS", Tail(q)[j].cmd \in Chain
               PROVE  i = j
    BY DEF KeysOnce
  <2>1. i + 1 = j + 1
    BY <1>1 DEF KeysOnce
  <2> QED
    BY <1>1, <2>1
<1>3. \A m \in Range(Tail(q)) : \E i \in 1..Len(Tail(q)) : m = Tail(q)[i]
  <2>1. DOMAIN Tail(q) = 1..Len(Tail(q))
    BY <1>1, LenProperties
  <2> QED
    BY <2>1 DEF Range
<1>4. ASSUME Head(q).cmd = "KEYS", NEW m \in Range(Tail(q)), m.cmd \in Chain PROVE FALSE
  <2>1. PICK i \in 1..Len(Tail(q)) : m = Tail(q)[i]
    BY <1>3
  <2>2. i + 1 \in 1..Len(q) /\ q[i + 1].cmd \in Chain /\ q[1].cmd = "KEYS"
    BY <1>1, <1>4, <2>1
  <2>3. 1 = i + 1
    BY <1>1, <2>2 DEF KeysOnce
  <2> QED
    BY <1>1, <2>3
<1>5. ASSUME Head(q).cmd \in Chain, NEW m \in Range(Tail(q)), m.cmd = "KEYS" PROVE FALSE
  <2>1. PICK i \in 1..Len(Tail(q)) : m = Tail(q)[i]
    BY <1>3
  <2>2. i + 1 \in 1..Len(q) /\ q[i + 1].cmd = "KEYS" /\ q[1].cmd \in Chain
    BY <1>1, <1>5, <2>1
  <2>3. i + 1 = 1
    BY <1>1, <2>2 DEF KeysOnce
  <2> QED
    BY <1>1, <2>3
<1> QED
  BY <1>2, <1>4, <1>5 DEF HasKeys, HasChain

LEMMA OnceInConcat ==
  ASSUME NEW S, NEW a \in Seq(S), NEW b \in Seq(S), KeysOnce(a), KeysOnce(b),
         Apart(Range(a), Range(b))
  PROVE  KeysOnce(a \o b)
<1>1. /\ Len(a) \in Nat /\ Len(b) \in Nat /\ Len(a \o b) = Len(a) + Len(b)
      /\ \A i \in 1..Len(a) : (a \o b)[i] = a[i]
      /\ \A i \in 1..Len(a \o b) : i > Len(a) => i - Len(a) \in 1..Len(b) /\ (a \o b)[i] = b[i - Len(a)]
  BY ConcatProperties, LenProperties
<1>2. /\ \A i \in 1..Len(a) : a[i] \in Range(a)
      /\ \A i \in 1..Len(b) : b[i] \in Range(b)
  BY RangeIs
<1> SUFFICES ASSUME NEW i \in 1..Len(a \o b), NEW j \in 1..Len(a \o b),
                    (a \o b)[i].cmd = "KEYS", (a \o b)[j].cmd \in Chain
             PROVE  i = j
  BY DEF KeysOnce
<1>3. CASE i <= Len(a) /\ j <= Len(a)
  <2>1. i \in 1..Len(a) /\ j \in 1..Len(a) /\ a[i].cmd = "KEYS" /\ a[j].cmd \in Chain
    BY <1>1, <1>3
  <2> QED
    BY <2>1 DEF KeysOnce
<1>4. CASE i <= Len(a) /\ j > Len(a)
  <2>1. /\ i \in 1..Len(a) /\ a[i].cmd = "KEYS" /\ a[i] \in Range(a)
        /\ b[j - Len(a)].cmd \in Chain /\ b[j - Len(a)] \in Range(b)
    BY <1>1, <1>2, <1>4
  <2> QED
    BY <2>1 DEF Apart, HasKeys, HasChain
<1>5. CASE i > Len(a) /\ j <= Len(a)
  <2>1. /\ j \in 1..Len(a) /\ a[j].cmd \in Chain /\ a[j] \in Range(a)
        /\ b[i - Len(a)].cmd = "KEYS" /\ b[i - Len(a)] \in Range(b)
    BY <1>1, <1>2, <1>5
  <2> QED
    BY <2>1 DEF Apart, HasKeys, HasChain
<1>6. CASE i > Len(a) /\ j > Len(a)
  <2>1. /\ i - Len(a) \in 1..Len(b) /\ j - Len(a) \in 1..Len(b)
        /\ b[i - Len(a)].cmd = "KEYS" /\ b[j - Len(a)].cmd \in Chain
    BY <1>1, <1>6
  <2>2. i - Len(a) = j - Len(a)
    BY <2>1 DEF KeysOnce
  <2> QED
    BY <1>1, <2>2
<1> QED
  BY <1>1, <1>3, <1>4, <1>5, <1>6

LEMMA OnceAlone ==
  /\ \A m : KeysOnce(<<m>>)
  /\ \A S : \A q \in Seq(S) : ~HasKeys(Range(q)) => KeysOnce(q)
  /\ \A S : \A q \in Seq(S) : ~HasChain(Range(q)) => KeysOnce(q)
<1>1. \A m : KeysOnce(<<m>>)
  BY OneMessage DEF KeysOnce
<1>2. ASSUME NEW S, NEW q \in Seq(S), ~HasKeys(Range(q)) \/ ~HasChain(Range(q)) PROVE KeysOnce(q)
  <2>1. \A i \in 1..Len(q) : q[i] \in Range(q)
    BY RangeIs
  <2> QED
    BY <1>2, <2>1 DEF HasKeys, HasChain, KeysOnce
<1> QED
  BY <1>1, <1>2

LEMMA RangeOfConcat ==
  ASSUME NEW S, NEW a \in Seq(S), NEW b \in Seq(S)
  PROVE  Range(a \o b) = Range(a) \union Range(b)
<1>1. /\ Len(a) \in Nat /\ Len(b) \in Nat /\ Len(a \o b) = Len(a) + Len(b) /\ a \o b \in Seq(S)
      /\ \A i \in 1..Len(a) : (a \o b)[i] = a[i]
      /\ \A i \in 1..Len(a \o b) : i > Len(a) => (a \o b)[i] = b[i - Len(a)]
  BY ConcatProperties, LenProperties
<1>2. DOMAIN a = 1..Len(a) /\ DOMAIN b = 1..Len(b) /\ DOMAIN (a \o b) = 1..Len(a \o b)
  BY <1>1, LenProperties
<1> DEFINE ab == a \o b
<1> HIDE DEF ab
<1>3. ASSUME NEW i \in DOMAIN ab PROVE ab[i] \in Range(a) \union Range(b)
  <2>1. CASE i \in DOMAIN a
    BY <1>1, <1>2, <2>1 DEF ab, Range
  <2>2. CASE i \notin DOMAIN a
    <3>1. i - Len(a) \in 1..Len(b) /\ ab[i] = b[i - Len(a)]
      BY <1>1, <1>2, <2>2 DEF ab
    <3>2. i - Len(a) \in DOMAIN b
      BY <1>2, <3>1
    <3> QED
      BY <3>1, <3>2 DEF Range
  <2> QED
    BY <2>1, <2>2
<1>4. ASSUME NEW i \in DOMAIN a PROVE a[i] \in Range(ab)
  <2>1. i \in DOMAIN ab /\ ab[i] = a[i]
    BY <1>1, <1>2 DEF ab
  <2> QED
    BY <2>1 DEF Range
<1>5. ASSUME NEW i \in DOMAIN b PROVE b[i] \in Range(ab)
  <2>1. i + Len(a) \in 1..Len(ab) /\ i + Len(a) > Len(a) /\ (i + Len(a)) - Len(a) = i
    BY <1>1, <1>2 DEF ab
  <2>2. i + Len(a) \in DOMAIN ab /\ ab[i + Len(a)] = b[i]
    BY <1>1, <1>2, <2>1 DEF ab
  <2> QED
    BY <2>2 DEF Range
<1>6. Range(ab) \subseteq Range(a) \union Range(b)
  BY <1>3 DEF Range
<1>7. Range(a) \subseteq Range(ab) /\ Range(b) \subseteq Range(ab)
  BY <1>4, <1>5 DEF Range
<1> QED
  BY <1>6, <1>7 DEF ab

\* The messages the tree is about.
Telling(M) == {m \in M : m.cmd \in Chain \union {"SENTINEL"}}

\* Others come and go beside them.
LEMMA BesideAtTheEnd ==
  ASSUME NEW S, NEW q \in Seq(S), NEW msgs \in Seq(S), Telling(Range(msgs)) = {}
  PROVE  /\ Telling(Range(q \o msgs)) = Telling(Range(q))
         /\ KeysOnce(q) => KeysOnce(q \o msgs)
<1>1. Range(q \o msgs) = Range(q) \union Range(msgs)
  BY RangeOfConcat
<1>2. ~HasChain(Range(msgs)) /\ ~HasKeys(Range(msgs))
  BY DEF Telling, HasChain, HasKeys, Chain
<1>3. KeysOnce(msgs) /\ Apart(Range(q), Range(msgs))
  BY <1>2, OnceAlone DEF Apart
<1>4. KeysOnce(q) => KeysOnce(q \o msgs)
  BY <1>3, OnceInConcat
<1> QED
  BY <1>1, <1>4 DEF Telling

LEMMA BesideTail ==
  ASSUME NEW S, NEW q \in Seq(S), q # <<>>, Head(q).cmd \notin Chain \union {"SENTINEL"}
  PROVE  /\ Telling(Range(Tail(q))) = Telling(Range(q))
         /\ KeysOnce(q) => KeysOnce(Tail(q))
<1>1. Range(q) = {Head(q)} \union Range(Tail(q))
  BY RangeOfTail
<1>2. KeysOnce(q) => KeysOnce(Tail(q))
  BY OnceInTail
<1> QED
  BY <1>1, <1>2 DEF Telling

LEMMA FreshBeside ==
  ASSUME TypeOK, Fresh, UNCHANGED <<open, gen, tree, loaded, listed, overlapped>>,
         stale' = stale \/ (menu # None /\ stale' = (menu.gen # gen)),
         menu' # None => menu' = menu \/ menu'.gen = gen,
         ~open => rep' = rep,
         Telling(Range(req')) = Telling(Range(req)), KeysOnce(req) => KeysOnce(req'),
         Telling(Range(rep')) = Telling(Range(rep)), KeysOnce(rep) => KeysOnce(rep')
  PROVE  Fresh'
<1>1. ~open' => rep' = <<>>
  BY DEF Fresh
<1> SUFFICES ASSUME ~overlapped PROVE
       /\ ~stale'
       /\ menu' # None => menu'.gen = gen'
       /\ \A k \in Keys : tree'[k] # "absent" => k \in loaded'
       /\ open' => Chains' /\ (gen' > 0 /\ ~Starting' => Complete')
  BY <1>1 DEF Fresh
<1>2. /\ ~stale'
      /\ menu' # None => menu'.gen = gen'
      /\ \A k \in Keys : tree'[k] # "absent" => k \in loaded'
  <2>1. ~stale /\ (menu # None => menu.gen = gen)
    BY DEF Fresh
  <2>2. ~stale'
    BY <2>1
  <2>3. menu' # None => menu'.gen = gen'
    BY <2>1
  <2>4. \A k \in Keys : tree'[k] # "absent" => k \in loaded'
    BY DEF Fresh
  <2> QED
    BY <2>2, <2>3, <2>4
<1> SUFFICES ASSUME open PROVE Chains' /\ (gen' > 0 /\ ~Starting' => Complete')
  BY <1>2
<1>3. Chains /\ (gen > 0 /\ ~Starting => Complete)
  BY DEF Fresh
<1>4. /\ \A m \in Range(req') : m.cmd \in Chain \union {"SENTINEL"} => m \in Range(req)
      /\ \A m \in Range(rep') : m.cmd \in Chain \union {"SENTINEL"} => m \in Range(rep)
      /\ \A m \in Range(req) : m.cmd \in Chain \union {"SENTINEL"} => m \in Range(req')
      /\ \A m \in Range(rep) : m.cmd \in Chain \union {"SENTINEL"} => m \in Range(rep')
  BY DEF Telling
<1>5. KeysAlone'
  BY <1>3, <1>4 DEF Chains, KeysAlone, Apart, HasKeys, HasChain, Chain
<1>6. ThisRefresh' /\ AskedLoaded' /\ AnswerListed'
  BY <1>3, <1>4 DEF Chains, ThisRefresh, AskedLoaded, AnswerListed, Flying, Chain
<1>7. HasKeys(Flying') => HasKeys(Flying)
  BY <1>4 DEF HasKeys, Flying, Chain
<1>8. Cleared'
  BY <1>3, <1>7 DEF Chains, Cleared
<1>9. ~Starting' => ~Starting
  BY <1>4 DEF Starting, Flying, Chain
<1>10. \A k \in Keys : Promised(k) => Promised(k)'
  BY <1>4 DEF Promised, Flying, Chain
<1>11. Complete => Complete'
  BY <1>10 DEF Complete, TypeOK
<1> QED
  BY <1>3, <1>5, <1>6, <1>8, <1>9, <1>11 DEF Chains

\* A refresh while no chain is under way: its KEYS is the only message of one.
LEMMA FreshRefresh ==
  ASSUME TypeOK, Fresh, Refresh, UNCHANGED <<open, listed>>, Range(rep') \subseteq Range(rep),
         rep' \in Seq(Replies), ~open => rep' = rep,
         NEW msgs \in Seq(Requests), Send(msgs), KeysOnce(msgs), HasKeys(Range(msgs)),
         \A m \in Range(msgs) : m.cmd \in Chain => m.cmd = "KEYS" /\ m.gen = gen + 1
  PROVE  Fresh'
<1>1. ~open' => rep' = <<>>
  BY DEF Fresh
<1> SUFFICES ASSUME ~overlapped' PROVE
       /\ ~stale'
       /\ menu' # None => menu'.gen = gen'
       /\ \A k \in Keys : tree'[k] # "absent" => k \in loaded'
       /\ open' => Chains' /\ (gen' > 0 /\ ~Starting' => Complete')
  BY <1>1 DEF Fresh
<1>2. /\ ~overlapped /\ menu' = None /\ ~stale /\ stale' = stale
      /\ gen' = gen + 1 /\ loaded' = {} /\ \A k \in Keys : tree'[k] = "absent"
      /\ open => ~InFlight(Chain)
  BY DEF Refresh, Fresh
<1> SUFFICES ASSUME open PROVE Chains' /\ (gen' > 0 /\ ~Starting' => Complete')
  BY <1>2
<1>3. ~HasChain(Range(req)) /\ ~HasChain(Range(rep)) /\ ~HasKeys(Range(req))
  BY <1>2, InFlightIs DEF HasChain, HasKeys, Flying, Chain
<1>4. ~HasChain(Range(rep')) /\ ~HasKeys(Range(rep'))
  BY <1>3 DEF HasChain, HasKeys, Chain
<1>5. req' = req \o msgs /\ req \in Seq(Requests)
  BY DEF Send, TypeOK
<1>6. Range(req') = Range(req) \union Range(msgs)
  BY <1>5, RangeOfConcat
<1>7. KeysOnce(req') /\ KeysOnce(rep')
  <2>1. KeysOnce(req) /\ KeysOnce(rep') /\ Apart(Range(req), Range(msgs))
    BY <1>3, <1>4, <1>5, OnceAlone DEF Apart
  <2> QED
    BY <1>5, <2>1, OnceInConcat
<1>8. \A m \in Flying' : m.cmd \in Chain => m \in Range(msgs) /\ m.cmd = "KEYS" /\ m.gen = gen'
  BY <1>2, <1>3, <1>4, <1>6 DEF Flying, HasChain
<1>9. KeysAlone'
  BY <1>4, <1>7 DEF KeysAlone, Apart
<1>10. ThisRefresh' /\ AskedLoaded'
  BY <1>8 DEF ThisRefresh, AskedLoaded, Chain
<1>11. Cleared'
  BY <1>2 DEF Cleared
<1>12. AnswerListed'
  BY <1>4 DEF AnswerListed, HasKeys
<1>13. Starting'
  BY <1>6 DEF Starting, Flying, HasKeys
<1> QED
  BY <1>9, <1>10, <1>11, <1>12, <1>13 DEF Chains

\* The server answers a request with a reply to the same.
LEMMA FreshMoves ==
  ASSUME TypeOK, Fresh, UNCHANGED <<open, gen, tree, loaded, menu, stale, overlapped>>,
         req # <<>>, req' = Tail(req), NEW m \in Replies, Answer(m),
         m.cmd = Head(req).cmd, m.cmd \in Chain => m.gen = Head(req).gen,
         m.cmd \in {"EXISTS", "TYPE", "TEXT"} => m.key = Head(req).key,
         m.cmd = "KEYS" => m.keys = listed', m.cmd # "KEYS" => listed' = listed
  PROVE  Fresh'
<1>1. ~open' => rep' = <<>>
  BY DEF Fresh, Answer
<1> SUFFICES ASSUME ~overlapped, open PROVE Chains' /\ (gen' > 0 /\ ~Starting' => Complete')
  BY <1>1 DEF Fresh
<1>2. Chains /\ (gen > 0 /\ ~Starting => Complete)
  BY DEF Fresh
<1>3. req \in Seq(Requests) /\ rep \in Seq(Replies) /\ KeysOnce(req) /\ KeysOnce(rep)
  BY <1>2 DEF TypeOK, Chains, KeysAlone
<1> DEFINE h == Head(req)
<1> HIDE DEF h
<1>4. Range(req) = {h} \union Range(req') /\ h \in Range(req)
  BY <1>3, RangeOfTail DEF h
<1>5. rep' = rep \o <<m>> /\ <<m>> \in Seq(Replies) /\ Range(<<m>>) = {m}
  BY <1>3, AppendIsConcat, RangeOfOne DEF Answer
<1>6. Range(rep') = Range(rep) \union {m}
  <2> DEFINE b == <<m>>
  <2> HIDE DEF b
  <2>1. rep' = rep \o b /\ b \in Seq(Replies) /\ Range(b) = {m}
    BY <1>5 DEF b
  <2>2. Range(rep \o b) = Range(rep) \union Range(b)
    BY <1>3, <2>1, RangeOfConcat
  <2> QED
    BY <2>1, <2>2
<1>7. /\ m.cmd = h.cmd /\ (m.cmd \in Chain => m.gen = h.gen)
      /\ m.cmd \in {"EXISTS", "TYPE", "TEXT"} => m.key = h.key
  BY DEF h
<1>8. /\ KeysOnce(req')
      /\ h.cmd = "KEYS" => ~HasChain(Range(req'))
      /\ h.cmd \in Chain => ~HasKeys(Range(req'))
  BY <1>3, OnceInTail DEF h
<1>9. Apart(Range(req), Range(rep))
  BY <1>2 DEF Chains, KeysAlone
<1>10. /\ h.cmd = "KEYS" => ~HasChain(Range(rep))
       /\ h.cmd \in Chain => ~HasKeys(Range(rep))
  BY <1>4, <1>9 DEF Apart, HasKeys, HasChain
<1>11. KeysOnce(rep')
  <2>1. Apart(Range(rep), {m}) /\ KeysOnce(<<m>>)
    BY <1>7, <1>10, OnceAlone DEF Apart, HasKeys, HasChain
  <2> QED
    BY <1>3, <1>5, <2>1, OnceInConcat
<1>12. Apart(Range(req'), Range(rep'))
  BY <1>4, <1>6, <1>7, <1>8, <1>9 DEF Apart, HasKeys, HasChain
<1>13. KeysAlone'
  BY <1>8, <1>11, <1>12 DEF KeysAlone
<1>14. ThisRefresh' /\ AskedLoaded'
  BY <1>2, <1>4, <1>6, <1>7 DEF Chains, ThisRefresh, AskedLoaded, Flying
<1>15. HasKeys(Flying') => HasKeys(Flying)
  BY <1>4, <1>6, <1>7 DEF HasKeys, Flying
<1>16. Cleared'
  BY <1>2, <1>15 DEF Chains, Cleared
<1>17. AnswerListed'
  <2>1. CASE m.cmd = "KEYS"
    BY <1>6, <1>7, <1>10, <2>1 DEF AnswerListed, HasChain, Chain
  <2>2. CASE m.cmd # "KEYS"
    BY <1>2, <1>6, <2>2 DEF Chains, AnswerListed
  <2> QED
    BY <2>1, <2>2
<1>18. ~Starting' => ~Starting /\ m.cmd # "KEYS"
  BY <1>4, <1>6, <1>7 DEF Starting, Flying
<1>19. \A k \in Keys : Promised(k) => Promised(k)'
  BY <1>4, <1>6, <1>7 DEF Promised, Flying
<1>20. Complete /\ m.cmd # "KEYS" => Complete'
  BY <1>19 DEF Complete, TypeOK
<1> QED
  BY <1>2, <1>13, <1>14, <1>16, <1>17, <1>18, <1>20 DEF Chains

\* An answer past KEYS is used and the next of its chain sent.
LEMMA FreshChain ==
  ASSUME TypeOK, Fresh, UNCHANGED <<open, gen, loaded, menu, overlapped, listed>>,
         rep # <<>>, rep' = Tail(rep), Head(rep).cmd \in {"EXISTS", "TYPE", "TEXT"},
         stale' = stale \/ stale' = (Head(rep).gen # gen),
         \A k \in Keys : k # Head(rep).key => tree'[k] = tree[k],
         tree'[Head(rep).key] = "absent" =>
           tree[Head(rep).key] = "absent" /\ Head(rep).cmd # "EXISTS",
         NEW msgs \in Seq(Requests), Send(msgs),
         \A m \in Range(msgs) :
           m.cmd \in {"TYPE", "TEXT"} /\ m.key = Head(rep).key /\ m.gen = Head(rep).gen
  PROVE  Fresh'
<1> DEFINE h == Head(rep)
<1>1. open
  BY DEF Fresh, TypeOK
<1> SUFFICES ASSUME ~overlapped PROVE
       /\ ~stale'
       /\ menu' # None => menu'.gen = gen'
       /\ \A k \in Keys : tree'[k] # "absent" => k \in loaded'
       /\ Chains' /\ (gen' > 0 /\ ~Starting' => Complete')
  BY <1>1 DEF Fresh
<1>2. Chains /\ (gen > 0 /\ ~Starting => Complete) /\ ~stale
  BY <1>1 DEF Fresh
<1>3. req \in Seq(Requests) /\ rep \in Seq(Replies) /\ KeysOnce(req) /\ KeysOnce(rep)
  BY <1>2 DEF TypeOK, Chains, KeysAlone
<1>4. Range(rep) = {h} \union Range(rep') /\ h \in Range(rep) /\ rep' \in Seq(Replies)
  BY <1>3, RangeOfTail, HeadTailProperties
<1>5. h.cmd \in Chain /\ h.cmd # "KEYS" /\ h.gen = gen /\ h.key \in loaded /\ h.key \in Keys
  BY <1>2, <1>4 DEF Chain, Chains, ThisRefresh, AskedLoaded, Flying, TypeOK
<1>6. req' = req \o msgs
  BY <1>1 DEF Send
<1>7. Range(req') = Range(req) \union Range(msgs) /\ req' \in Seq(Requests)
  BY <1>3, <1>6, RangeOfConcat, ConcatProperties
<1>8. ~HasKeys(Range(rep')) /\ ~HasKeys(Range(req))
  <2>1. ~HasKeys(Range(rep'))
    BY <1>3, <1>5, OnceInTail
  <2>2. Apart(Range(req), Range(rep))
    BY <1>2 DEF Chains, KeysAlone
  <2> QED
    BY <1>4, <1>5, <2>1, <2>2 DEF Apart, HasChain
<1>9. ~HasKeys(Range(req')) /\ ~HasKeys(Flying')
  BY <1>7, <1>8 DEF HasKeys, Flying
<1>10. KeysAlone'
  BY <1>4, <1>7, <1>8, <1>9, OnceAlone DEF KeysAlone, Apart
<1>11. ThisRefresh' /\ AskedLoaded'
  <2>1. \A m \in Flying' : m \in Flying \/ m \in Range(msgs)
    BY <1>4, <1>7 DEF Flying
  <2>2. \A m \in Range(msgs) : m.gen = gen /\ m.key \in loaded
    BY <1>5
  <2> QED
    BY <1>2, <2>1, <2>2 DEF Chains, ThisRefresh, AskedLoaded
<1>12. Cleared' /\ AnswerListed'
  BY <1>8, <1>9 DEF Cleared, AnswerListed, HasKeys
<1>13. ~Starting' => ~Starting
  BY <1>4, <1>5, <1>7 DEF Starting, Flying, Chain
<1>14. \A k \in Keys : Promised(k) => Promised(k)' \/ (k = h.key /\ h.cmd = "EXISTS")
  BY <1>4, <1>7 DEF Promised, Flying
<1>15. Complete => Complete'
  <2> SUFFICES ASSUME Complete, NEW k \in loaded PROVE tree'[k] # "absent" \/ Promised(k)'
    BY DEF Complete
  <2>1. k \in Keys /\ (tree[k] # "absent" \/ Promised(k))
    BY DEF Complete, TypeOK
  <2> QED
    BY <1>14, <2>1
<1>16. \A k \in Keys : tree'[k] # "absent" => k \in loaded'
  BY <1>5 DEF Fresh
<1>17. menu' # None => menu'.gen = gen'
  BY DEF Fresh
<1>18. ~stale'
  BY <1>2, <1>5
<1> QED
  BY <1>2, <1>10, <1>11, <1>12, <1>13, <1>15, <1>16, <1>17, <1>18 DEF Chains

LEMMA AskingIs ==
  ASSUME NEW new \in SUBSET Keys, NEW g
  PROVE  Range(Asking(new, g)) = {Ask(IF k \in Products THEN "EXISTS" ELSE "TYPE", k, g) : k \in new}
<1> DEFINE n == Cardinality(new)
           s == SetToSeq(new)
<1>1. IsFiniteSet(new)
  BY Finite
<1>2. n \in Nat /\ s \in [1..n -> new] /\ {s[i] : i \in 1..n} = new
  BY <1>1, SetToSeqListsAll
<1>3. DOMAIN Asking(new, g) = 1..n
  BY DEF Asking
<1>4. \A i \in 1..n :
        Asking(new, g)[i] = Ask(IF s[i] \in Products THEN "EXISTS" ELSE "TYPE", s[i], g)
  BY DEF Asking
<1> HIDE DEF n, s
<1>5. Range(Asking(new, g)) =
        {Ask(IF s[i] \in Products THEN "EXISTS" ELSE "TYPE", s[i], g) : i \in 1..n}
  BY <1>3, <1>4 DEF Range
<1> QED
  BY <1>2, <1>5

\* The answer to KEYS meets all keys for the first time.
LEMMA FreshKeys == TypeOK /\ Fresh /\ OnKeys => Fresh'
<1> SUFFICES ASSUME TypeOK, Fresh, OnKeys PROVE Fresh'
  OBVIOUS
<1> DEFINE h == Head(rep)
           new == h.keys \ loaded
           plain == new \ Products
           msgs == Asking(new, h.gen)
<1>1. /\ rep # <<>> /\ rep' = Tail(rep) /\ h.cmd = "KEYS"
      /\ UNCHANGED <<open, gen, menu, overlapped, listed>>
      /\ loaded' = loaded \union new /\ stale' = (h.gen # gen /\ plain # {})
      /\ tree' = [k \in Keys |-> IF k \in plain THEN "unknown" ELSE tree[k]]
      /\ Send(msgs)
  BY DEF OnKeys, Handle, history, Asking
<1>2. open
  BY <1>1 DEF Fresh, TypeOK
<1> SUFFICES ASSUME ~overlapped PROVE
       /\ ~stale'
       /\ menu' # None => menu'.gen = gen'
       /\ \A k \in Keys : tree'[k] # "absent" => k \in loaded'
       /\ Chains' /\ (gen' > 0 /\ ~Starting' => Complete')
  BY <1>1, <1>2 DEF Fresh
<1>3. Chains /\ ~stale
  BY <1>2 DEF Fresh
<1>4. req \in Seq(Requests) /\ rep \in Seq(Replies) /\ KeysOnce(req) /\ KeysOnce(rep)
  BY <1>3 DEF TypeOK, Chains, KeysAlone
<1>5. Range(rep) = {h} \union Range(rep') /\ h \in Range(rep) /\ h \in Replies /\ rep' \in Seq(Replies)
  BY <1>1, <1>4, RangeOfTail, HeadTailProperties
<1>6. h.keys \in SUBSET Keys /\ h.gen = gen /\ h.keys = listed
  BY <1>1, <1>3, <1>5, ReplyKinds DEF KeysFound, Chains, ThisRefresh, AnswerListed, Flying, Chain
<1>7. loaded = {} /\ \A k \in Keys : tree[k] = "absent"
  BY <1>1, <1>3, <1>5 DEF Chains, Cleared, HasKeys, Flying
<1>8. new = listed /\ new \in SUBSET Keys /\ loaded' = new /\ gen \in Nat
  BY <1>1, <1>6, <1>7 DEF TypeOK
<1>9. Range(msgs) = {Ask(IF k \in Products THEN "EXISTS" ELSE "TYPE", k, gen) : k \in new}
  BY <1>6, <1>8, AskingIs
<1>10. msgs \in Seq(Requests)
  BY <1>6, <1>8, AskingTypes, MoreRequests
<1> HIDE DEF h, new, plain, msgs
<1>11. Range(req') = Range(req) \union Range(msgs) /\ req' \in Seq(Requests)
  <2>1. req' = req \o msgs
    BY <1>1, <1>2 DEF Send
  <2> QED
    BY <1>4, <1>10, <2>1, RangeOfConcat, ConcatProperties
<1>12. ~HasChain(Range(rep')) /\ ~HasChain(Range(req))
  <2>1. ~HasChain(Range(rep'))
    BY <1>1, <1>4, OnceInTail DEF h
  <2>2. Apart(Range(req), Range(rep))
    BY <1>3 DEF Chains, KeysAlone
  <2> QED
    BY <1>1, <1>5, <2>1, <2>2 DEF Apart, HasKeys
<1>13. \A m \in Range(msgs) : m.cmd \in {"EXISTS", "TYPE"} /\ m.gen = gen /\ m.key \in new
  BY <1>9 DEF Ask
<1>14. \A m \in Flying' : m.cmd \in Chain => m \in Range(msgs)
  BY <1>11, <1>12 DEF Flying, HasChain
<1>15. ~HasKeys(Range(rep')) /\ ~HasKeys(Range(req')) /\ ~HasKeys(Flying')
  <2>1. \A m \in Flying' : m.cmd # "KEYS"
    BY <1>13, <1>14 DEF Chain
  <2> QED
    BY <2>1 DEF HasKeys, Flying
<1>16. KeysAlone'
  BY <1>5, <1>11, <1>15, OnceAlone DEF KeysAlone, Apart
<1>17. ThisRefresh' /\ AskedLoaded'
  BY <1>1, <1>8, <1>13, <1>14 DEF ThisRefresh, AskedLoaded, Chain
<1>18. Cleared' /\ AnswerListed'
  BY <1>15 DEF Cleared, AnswerListed, HasKeys
<1>19. Complete'
  <2> SUFFICES ASSUME NEW k \in new PROVE tree'[k] # "absent" \/ Promised(k)'
    BY <1>1, <1>8 DEF Complete
  <2>1. CASE k \in Products
    <3>1. Ask("EXISTS", k, gen) \in Range(msgs)
      BY <1>9, <2>1
    <3>2. Ask("EXISTS", k, gen) \in Flying'
      BY <1>11, <3>1 DEF Flying
    <3> QED
      BY <3>2 DEF Promised, Ask
  <2>2. CASE k \notin Products
    BY <1>1, <1>8, <2>2 DEF plain
  <2> QED
    BY <2>1, <2>2
<1>20. \A k \in Keys : tree'[k] # "absent" => k \in loaded'
  BY <1>1, <1>7, <1>8 DEF plain
<1>21. menu' # None => menu'.gen = gen'
  BY <1>1 DEF Fresh
<1>22. ~stale'
  BY <1>1, <1>6
<1> QED
  BY <1>16, <1>17, <1>18, <1>19, <1>20, <1>21, <1>22 DEF Chains

\* What the panels send beside the chains, and what a refresh sends.
LEMMA BesideMessages ==
  /\ Telling(Range(<<>>)) = {}
  /\ \A m : m.cmd \in Writes \union {"LOAD"} => Telling(Range(<<m>>)) = {}
  /\ \A msgs \in Seq(Edits) : Telling(Range(msgs)) = {}
<1>1. Telling(Range(<<>>)) = {}
  BY RangeOfNone DEF Telling
<1>2. \A m : m.cmd \in Writes \union {"LOAD"} => Telling(Range(<<m>>)) = {}
  BY RangeOfOne DEF Telling, Writes, Chain
<1>3. ASSUME NEW msgs \in Seq(Edits) PROVE Telling(Range(msgs)) = {}
  <2>1. \A m \in Range(msgs) : m \in Edits
    BY RangeIs
  <2> QED
    BY <2>1 DEF Telling, Edits, Chain
<1> QED
  BY <1>1, <1>2, <1>3

RefreshMessages(msgs) ==
  /\ msgs \in Seq(Requests) /\ KeysOnce(msgs) /\ HasKeys(Range(msgs))
  /\ \A m \in Range(msgs) : m.cmd \in Chain => m.cmd = "KEYS" /\ m.gen = gen + 1

LEMMA TheRefreshMessages ==
  ASSUME TypeOK
  PROVE  /\ RefreshMessages(AskKeys)
         /\ \A m \in Requests : m.cmd \in Writes => RefreshMessages(<<m>> \o AskKeys)
<1> DEFINE k == [cmd |-> "KEYS", gen |-> gen + 1]
<1>1. AskKeys \in Seq(Requests) /\ Range(AskKeys) = {k} /\ KeysOnce(AskKeys)
  BY AskKeysTypes, RangeOfOne, OnceAlone DEF AskKeys
<1>2. RefreshMessages(AskKeys)
  BY <1>1 DEF RefreshMessages, HasKeys
<1>3. ASSUME NEW m \in Requests, m.cmd \in Writes PROVE RefreshMessages(<<m>> \o AskKeys)
  <2> DEFINE a == <<m>>
             b == AskKeys
  <2>1. a \in Seq(Requests) /\ Range(a) = {m} /\ KeysOnce(a) /\ a \o b \in Seq(Requests)
    BY RangeOfOne, OnceAlone, OneRequest, ThenRefresh
  <2>2. b \in Seq(Requests) /\ Range(b) = {k} /\ KeysOnce(b)
    BY <1>1
  <2> HIDE DEF a, b
  <2>3. Range(a \o b) = {m, k}
    BY <2>1, <2>2, RangeOfConcat
  <2>4. ~HasChain(Range(a)) /\ ~HasKeys(Range(a))
    BY <1>3, <2>1 DEF HasChain, HasKeys, Writes, Chain
  <2>5. KeysOnce(a \o b)
    BY <2>1, <2>2, <2>4, OnceInConcat DEF Apart
  <2>6. RefreshMessages(a \o b)
    BY <1>3, <2>1, <2>3, <2>5 DEF RefreshMessages, HasKeys, Writes, Chain
  <2> QED
    BY <2>6 DEF a, b
<1> QED
  BY <1>2, <1>3

LEMMA FreshSends ==
  ASSUME TypeOK, Fresh, UNCHANGED <<open, rep, gen, tree, loaded, listed, overlapped>>,
         stale' = stale \/ (menu # None /\ stale' = (menu.gen # gen)),
         menu' # None => menu' = menu \/ menu'.gen = gen,
         NEW msgs \in Seq(Requests), Telling(Range(msgs)) = {}, Send(msgs) \/ UNCHANGED req
  PROVE  Fresh'
<1>1. req \in Seq(Requests) /\ (req' = req \o msgs \/ req' = req)
  BY DEF Send, TypeOK
<1>2. Telling(Range(req \o msgs)) = Telling(Range(req)) /\ (KeysOnce(req) => KeysOnce(req \o msgs))
  BY <1>1, BesideAtTheEnd
<1>3. Telling(Range(req')) = Telling(Range(req)) /\ (KeysOnce(req) => KeysOnce(req'))
  BY <1>1, <1>2
<1> QED
  BY <1>3, FreshBeside

LEMMA FreshLoads ==
  ASSUME TypeOK, Fresh, UNCHANGED <<open, rep, gen, tree, loaded, listed, overlapped>>,
         stale' = stale \/ (menu # None /\ stale' = (menu.gen # gen)),
         menu' # None => menu' = menu \/ menu'.gen = gen,
         NEW k \in Keys, NEW type, LoadKey(k, type)
  PROVE  Fresh'
<1> DEFINE m == [cmd |-> "LOAD", key |-> k, type |-> type]
           msgs == IF type \in Types THEN <<m>> ELSE <<>>
<1>1. type \in Types => m \in Requests
  BY MessageTypes DEF Requests
<1>2. msgs \in Seq(Requests)
  BY <1>1, OneRequest, EmptySeq
<1>3. Telling(Range(msgs)) = {}
  BY BesideMessages
<1>4. Send(msgs) \/ UNCHANGED req
  BY DEF LoadKey
<1> HIDE DEF msgs
<1> QED
  BY <1>2, <1>3, <1>4, FreshSends

LEMMA FreshByUser == TypeOK /\ Fresh /\ User => Fresh'
<1> SUFFICES ASSUME TypeOK, Fresh, User PROVE Fresh'
  OBVIOUS
<1> USE DEF browser, history, network
<1>1. CASE RefreshAsked
  <2>1. Refresh /\ Send(AskKeys) /\ UNCHANGED <<open, listed, rep>> /\ rep \in Seq(Replies)
    BY <1>1 DEF RefreshAsked, TypeOK
  <2>2. RefreshMessages(AskKeys)
    BY TheRefreshMessages
  <2> QED
    BY <2>1, <2>2, FreshRefresh DEF RefreshMessages
<1>2. CASE ReloadKey
  <2>1. cur \in Keys /\ LoadKey(cur, curType) /\ UNCHANGED <<open, rep, listed, browser>>
    BY <1>2 DEF ReloadKey, TypeOK
  <2> QED
    BY <2>1, FreshLoads
<1>3. CASE Save
  <2> DEFINE msgs == Saving(cur, curType, pages[curType].rows)
  <2>1. cur \in Keys /\ curType \in Types /\ pages[curType].rows \in SUBSET Rows
    BY <1>3 DEF Save, TypeOK
  <2>2. msgs \in Seq(Edits)
    BY <2>1, SavingTypes
  <2>3. msgs \in Seq(Requests) /\ Telling(Range(msgs)) = {}
    BY <2>2, MoreRequests, BesideMessages
  <2>4. Send(msgs) /\ UNCHANGED <<open, rep, browser, listed>>
    BY <1>3 DEF Save
  <2> HIDE DEF msgs
  <2> QED
    BY <2>3, <2>4, FreshSends
<1>4. CASE OnDeleteKey
  <2> DEFINE m == Write("DEL", cur, "string", {})
             msgs == <<m>>
  <2>1. m \in Requests /\ m.cmd \in Writes
    BY <1>4, MessageTypes DEF OnDeleteKey, TypeOK, Types, Requests, Changes, Write, Writes
  <2>2. msgs \in Seq(Requests) /\ Telling(Range(msgs)) = {}
    BY <2>1, OneRequest, BesideMessages
  <2>3. Send(msgs) /\ UNCHANGED <<open, rep, browser, listed>>
    BY <1>4 DEF OnDeleteKey
  <2> HIDE DEF msgs
  <2> QED
    BY <2>2, <2>3, FreshSends
<1>5. ASSUME NEW k \in Keys, OnItemClicked(k) PROVE Fresh'
  <2>1. LoadKey(k, ItemType(k)) /\ UNCHANGED <<open, rep, listed, browser>>
    BY <1>5 DEF OnItemClicked
  <2> QED
    BY <2>1, FreshLoads
<1>6. ASSUME NEW k \in Keys, OnContextMenu(k) PROVE Fresh'
  <2>1. /\ menu'.gen = gen
        /\ UNCHANGED <<open, rep, req, listed, gen, tree, loaded, stale, overlapped>>
    BY <1>6 DEF OnContextMenu
  <2> QED
    BY <2>1, FreshBeside
<1>7. ASSUME NEW k \in Keys, MenuRename(k) PROVE Fresh'
  <2> DEFINE m == [cmd |-> "RENAME", key |-> menu.key, to |-> k]
             msgs == <<m>> \o AskKeys
  <2>1. m \in Requests /\ m.cmd \in Writes
    BY <1>7, MenuTypes, MessageTypes DEF MenuRename, Requests, Changes, Writes
  <2>2. RefreshMessages(msgs)
    BY <2>1, TheRefreshMessages
  <2>3. Refresh /\ Send(msgs) /\ UNCHANGED <<open, listed, rep>> /\ rep \in Seq(Replies)
    BY <1>7 DEF MenuRename, TypeOK
  <2> HIDE DEF msgs
  <2> QED
    BY <2>2, <2>3, FreshRefresh DEF RefreshMessages
<1>8. ASSUME NEW rows \in SUBSET Rows, Edit(rows) PROVE Fresh'
  <2>1. UNCHANGED <<open, rep, req, listed, browser>>
    BY <1>8 DEF Edit
  <2> QED
    BY <2>1, FreshBeside
<1>9. CASE MenuOpen
  <2>1. /\ menu # None /\ menu' = None /\ stale' = (menu.gen # gen)
        /\ menu.key \in Keys /\ LoadKey(menu.key, ItemType(menu.key))
        /\ UNCHANGED <<open, rep, listed, gen, tree, loaded, overlapped>>
    BY <1>9, MenuTypes DEF MenuOpen
  <2> QED
    BY <2>1, FreshLoads
<1>10. CASE MenuDelete
  <2> DEFINE m == Write("DEL", menu.key, "string", {})
             msgs == <<m>> \o AskKeys
  <2>1. m \in Requests /\ m.cmd \in Writes
    BY <1>10, MenuTypes, MessageTypes DEF MenuDelete, Types, Requests, Changes, Write, Writes
  <2>2. RefreshMessages(msgs)
    BY <2>1, TheRefreshMessages
  <2>3. Refresh /\ Send(msgs) /\ UNCHANGED <<open, listed, rep>> /\ rep \in Seq(Replies)
    BY <1>10 DEF MenuDelete, TypeOK
  <2> HIDE DEF msgs
  <2> QED
    BY <2>2, <2>3, FreshRefresh DEF RefreshMessages
<1>11. CASE MenuClosed
  <2>1. menu' = None /\ UNCHANGED <<open, rep, req, listed, gen, tree, loaded, stale, overlapped>>
    BY <1>11 DEF MenuClosed
  <2> QED
    BY <2>1, FreshBeside
<1> QED
  BY <1>1, <1>2, <1>3, <1>4, <1>5, <1>6, <1>7, <1>8, <1>9, <1>10, <1>11 DEF User

LEMMA FreshByCallback == TypeOK /\ Fresh /\ Callback => Fresh'
<1> SUFFICES ASSUME TypeOK, Fresh, Callback PROVE Fresh'
  OBVIOUS
<1>0. /\ rep # <<>> /\ rep' = Tail(rep) /\ UNCHANGED <<open, listed>>
      /\ Head(rep) \in Replies /\ Range(rep') \subseteq Range(rep) /\ rep' \in Seq(Replies)
  <2>1. rep # <<>> /\ rep' = Tail(rep) /\ UNCHANGED <<open, listed>>
    BY DEF Callback, OnSentinel, OnKeys, OnExists, OnType, OnText, OnLoad, Handle, history
  <2>2. rep \in Seq(Replies)
    BY DEF TypeOK
  <2> QED
    BY <2>1, <2>2, RangeOfTail, HeadTailProperties
<1>1. CASE OnSentinel
  <2>1. Refresh /\ Send(AskKeys) /\ open
    BY <1>0, <1>1 DEF OnSentinel, Fresh, TypeOK
  <2>2. RefreshMessages(AskKeys)
    BY TheRefreshMessages
  <2> QED
    BY <1>0, <2>1, <2>2, FreshRefresh DEF RefreshMessages
<1>2. CASE OnKeys
  BY <1>2, FreshKeys
<1> DEFINE h == Head(rep)
<1>3. CASE OnExists
  <2> DEFINE m == Ask("TYPE", h.key, h.gen)
             msgs == <<m>>
  <2>1. h.cmd = "EXISTS" /\ h.key \in Keys /\ h.gen \in Nat
    BY <1>0, <1>3, ReplyKinds DEF OnExists, Handle, Asks
  <2>2. m \in Requests /\ m.cmd = "TYPE" /\ m.key = h.key /\ m.gen = h.gen
    BY <2>1 DEF Ask, Asks, Requests
  <2>3. msgs \in Seq(Requests) /\ Range(msgs) = {m}
    BY <2>2, OneRequest, RangeOfOne
  <2>4. /\ Send(msgs) /\ stale' = (h.gen # gen) /\ tree' = [tree EXCEPT ![h.key] = "unknown"]
        /\ UNCHANGED <<gen, loaded, menu, overlapped>>
    BY <1>3 DEF OnExists, Use
  <2>5. tree'[h.key] # "absent" /\ \A k \in Keys : k # h.key => tree'[k] = tree[k]
    BY <2>1, <2>4 DEF TypeOK
  <2> HIDE DEF m, msgs
  <2> QED
    BY <1>0, <2>1, <2>2, <2>3, <2>4, <2>5, FreshChain
<1>4. CASE OnType
  <2> DEFINE m == Ask("TEXT", h.key, h.gen)
             msgs == <<m>>
  <2>1. h.cmd = "TYPE" /\ h.key \in Keys /\ h.gen \in Nat /\ h.type # "absent"
    BY <1>0, <1>4, ReplyKinds DEF OnType, Handle, TypesFound, Types
  <2>2. m \in Requests /\ m.cmd = "TEXT" /\ m.key = h.key /\ m.gen = h.gen
    BY <2>1 DEF Ask, Asks, Requests
  <2>3. msgs \in Seq(Requests) /\ Range(msgs) = {m}
    BY <2>2, OneRequest, RangeOfOne
  <2>4. /\ Send(msgs) /\ stale' = (h.gen # gen) /\ tree' = [tree EXCEPT ![h.key] = h.type]
        /\ UNCHANGED <<gen, loaded, menu, overlapped>>
    BY <1>4 DEF OnType, Use
  <2>5. tree'[h.key] # "absent" /\ \A k \in Keys : k # h.key => tree'[k] = tree[k]
    BY <2>1, <2>4 DEF TypeOK
  <2> HIDE DEF m, msgs
  <2> QED
    BY <1>0, <2>1, <2>2, <2>3, <2>4, <2>5, FreshChain
<1>5. CASE OnText /\ h.more
  <2> DEFINE m == [h EXCEPT !.more = FALSE]
             msgs == <<m>>
  <2>1. h.cmd = "TEXT" /\ h \in Asks({"EXISTS", "TEXT"})
    BY <1>0, <1>5, ReplyKinds DEF OnText, Handle
  <2>2. m \in Requests /\ m.cmd = "TEXT" /\ m.key = h.key /\ m.gen = h.gen
    BY <2>1 DEF Asks, Requests
  <2>3. msgs \in Seq(Requests) /\ Range(msgs) = {m}
    BY <2>2, OneRequest, RangeOfOne
  <2>4. Send(msgs) /\ UNCHANGED <<stale, tree, gen, loaded, menu, overlapped>>
    BY <1>5 DEF OnText, browser
  <2> HIDE DEF m, msgs
  <2> QED
    BY <1>0, <2>1, <2>2, <2>3, <2>4, FreshChain
<1>6. CASE OnText /\ ~h.more
  <2>1. h.cmd = "TEXT" /\ h \in Asks({"EXISTS", "TEXT"})
    BY <1>0, <1>6, ReplyKinds DEF OnText, Handle
  <2>2. /\ UNCHANGED req /\ stale' = (h.gen # gen) /\ tree' = tree
        /\ UNCHANGED <<gen, loaded, menu, overlapped>>
    BY <1>6, <2>1 DEF OnText, Use, Asks, TypeOK
  <2>3. Send(<<>>) /\ <<>> \in Seq(Requests) /\ Range(<<>>) = {}
    BY <2>2, NothingSent, EmptySeq, RangeOfNone
  <2> QED
    BY <1>0, <2>1, <2>2, <2>3, FreshChain
<1>7. CASE OnLoad
  <2>1. h.cmd = "LOAD" /\ UNCHANGED <<req, stale, tree, gen, loaded, menu, overlapped>>
    BY <1>7 DEF OnLoad, Handle, browser
  <2>2. rep \in Seq(Replies) /\ open
    BY <1>0 DEF TypeOK, Fresh
  <2>3. Telling(Range(rep')) = Telling(Range(rep)) /\ (KeysOnce(rep) => KeysOnce(rep'))
    BY <1>0, <2>1, <2>2, BesideTail DEF Chain
  <2> QED
    BY <1>0, <2>1, <2>2, <2>3, FreshBeside
<1> QED
  BY <1>1, <1>2, <1>3, <1>4, <1>5, <1>6, <1>7 DEF Callback

LEMMA FreshByServer == TypeOK /\ Fresh /\ Serve => Fresh'
<1> SUFFICES ASSUME TypeOK, Fresh, Serve PROVE Fresh'
  OBVIOUS
<1> DEFINE h == Head(req)
<1>0. req # <<>> => h \in Requests /\ req \in Seq(Requests)
  BY HeadTailProperties DEF TypeOK
<1>1. CASE ServeSame
  <2>1. PICK cmd \in {"SENTINEL", "EXISTS", "TEXT"} : Query(cmd)
    BY <1>1 DEF ServeSame
  <2>2. /\ req # <<>> /\ h.cmd = cmd /\ req' = Tail(req) /\ Answer(h)
        /\ UNCHANGED <<open, gen, tree, loaded, menu, stale, overlapped, listed>>
    BY <1>1, <2>1 DEF ServeSame, Query, browser
  <2>3. h \in Replies
    BY <1>0, <2>2, RequestKinds DEF Replies, Asks
  <2> HIDE DEF h
  <2> QED
    BY <2>1, <2>2, <2>3, FreshMoves DEF h
<1>2. CASE ServeKeys
  <2> DEFINE m == [cmd |-> "KEYS", gen |-> h.gen, keys |-> Existing]
  <2>1. /\ req # <<>> /\ h.cmd = "KEYS" /\ req' = Tail(req) /\ Answer(m)
        /\ UNCHANGED <<open, gen, tree, loaded, menu, stale, overlapped>> /\ listed' = Existing
    BY <1>2 DEF ServeKeys, Query, browser
  <2>2. m \in Replies
    BY <1>0, <2>1, RequestKinds DEF KeysAsked, Replies, KeysFound, Existing
  <2>3. m.cmd = "KEYS" /\ m.gen = h.gen /\ m.keys = listed'
    BY <2>1
  <2> HIDE DEF m
  <2> QED
    BY <2>1, <2>2, <2>3, FreshMoves
<1>3. CASE ServeType
  <2> DEFINE type == IF ~hasType THEN "unknown" ELSE IF store[h.key] = None THEN "none" ELSE store[h.key].type
             m == [cmd |-> "TYPE", key |-> h.key, gen |-> h.gen, type |-> type]
  <2>1. /\ req # <<>> /\ h.cmd = "TYPE" /\ req' = Tail(req) /\ Answer(m)
        /\ UNCHANGED <<open, gen, tree, loaded, menu, stale, overlapped, listed>>
    BY <1>3 DEF ServeType, Query, browser
  <2>2. h.key \in Keys /\ h.gen \in Nat
    BY <1>0, <2>1, RequestKinds DEF Asks
  <2>3. store[h.key] # None => store[h.key].type \in Types
    BY <2>2 DEF TypeOK, Contents, Values
  <2>4. type \in Types \union {"unknown", "none"}
    BY <2>3
  <2>5. m \in Replies /\ m.cmd = "TYPE" /\ m.gen = h.gen /\ m.key = h.key
    BY <2>2, <2>4 DEF Replies, TypesFound
  <2> HIDE DEF m
  <2> QED
    BY <2>1, <2>5, FreshMoves
<1>4. CASE ServeLoad
  <2> DEFINE v == store[h.key]
             rows == IF v # None /\ v.type = h.type THEN v.rows ELSE {}
             m == [cmd |-> "LOAD", key |-> h.key, type |-> h.type, rows |-> rows]
  <2>1. /\ req # <<>> /\ h.cmd = "LOAD" /\ req' = Tail(req) /\ Answer(m)
        /\ UNCHANGED <<open, gen, tree, loaded, menu, stale, overlapped, listed>>
    BY <1>4 DEF ServeLoad, Query, browser
  <2>2. h \in Loads
    BY <1>0, <2>1, RequestKinds
  <2>3. v \in Contents
    BY <2>2 DEF Loads, TypeOK
  <2>4. rows \in SUBSET Rows
    BY <2>3 DEF Contents, Values
  <2>5. m \in Replies /\ m.cmd = "LOAD"
    BY <2>2, <2>4 DEF Loads, Replies, Filled
  <2> HIDE DEF m
  <2> QED
    BY <2>1, <2>5, FreshMoves DEF Chain
<1>5. CASE ServeWrite
  <2>1. /\ req # <<>> /\ h.cmd \in Writes /\ req' = Tail(req)
        /\ UNCHANGED <<open, rep, gen, tree, loaded, menu, stale, overlapped, listed>>
    BY <1>5 DEF ServeWrite, browser, history
  <2>2. Telling(Range(req')) = Telling(Range(req)) /\ (KeysOnce(req) => KeysOnce(req'))
    BY <1>0, <2>1, BesideTail DEF Chain, Writes
  <2> QED
    BY <2>1, <2>2, FreshBeside
<1> QED
  BY <1>1, <1>2, <1>3, <1>4, <1>5 DEF Serve

LEMMA FreshStep == TypeOK /\ Fresh /\ [Next]_vars => Fresh'
<1> SUFFICES ASSUME TypeOK, Fresh, [Next]_vars PROVE Fresh'
  OBVIOUS
<1>1. CASE Connect
  <2>1. rep = <<>> /\ rep' = <<>> /\ UNCHANGED <<gen, tree, loaded, menu, stale, overlapped>>
    BY <1>1 DEF Connect, browser, Fresh
  <2> DEFINE m == [cmd |-> "SENTINEL"]
  <2>2. Range(req') = {m} /\ Range(rep') = {} /\ KeysOnce(req') /\ KeysOnce(rep')
    <3>1. req' = <<m>>
      BY <1>1 DEF Connect
    <3>2. KeysOnce(<<>>)
      BY DEF KeysOnce
    <3> QED
      BY <2>1, <3>1, <3>2, RangeOfOne, RangeOfNone, OnceAlone
  <2>3. Flying' = {m} /\ m.cmd = "SENTINEL"
    BY <2>2 DEF Flying
  <2> HIDE DEF m
  <2>4. Chains'
    BY <2>2, <2>3 DEF Chains, KeysAlone, Apart, ThisRefresh, Cleared, AnswerListed, AskedLoaded,
                      HasKeys, HasChain, Chain
  <2>5. Starting'
    BY <2>3 DEF Starting
  <2> QED
    BY <2>1, <2>4, <2>5 DEF Fresh
<1>2. CASE Lose
  BY <1>2 DEF Lose, browser, Fresh
<1>3. ASSUME NEW k \in Keys, NEW v \in Others, OtherClient(k, v) PROVE Fresh'
  <2>1. UNCHANGED <<open, req, rep, gen, tree, loaded, menu, stale, overlapped, listed>>
    BY <1>3 DEF OtherClient, network, browser
  <2> QED
    BY <2>1, FreshBeside
<1>4. CASE UNCHANGED vars
  <2>1. UNCHANGED <<open, req, rep, gen, tree, loaded, menu, stale, overlapped, listed>>
    BY <1>4 DEF vars, network, browser, history
  <2> QED
    BY <2>1, FreshBeside
<1> QED
  BY <1>1, <1>2, <1>3, <1>4, FreshByUser, FreshByCallback, FreshByServer DEF Next

LEMMA FreshInit == Init => Fresh
  BY DEF Init, Fresh

LEMMA FreshImplies == TypeOK /\ Fresh => TreeIsListed
<1> SUFFICES ASSUME TypeOK, Fresh, ~overlapped, Settled, gen > 0
             PROVE  {k \in Keys : tree[k] # "absent"} = listed
  BY DEF TreeIsListed, Fresh
<1>1. Flying = {}
  BY RangeOfNone DEF Settled, Flying
<1>2. Complete
  BY <1>1 DEF Fresh, Settled, Starting
<1>3. \A k \in Keys : ~Promised(k)
  BY <1>1 DEF Promised
<1>4. listed \subseteq Keys /\ \A k \in Keys : tree[k] # "absent" => k \in loaded
  BY DEF Fresh, TypeOK
<1> QED
  BY <1>2, <1>3, <1>4 DEF Complete

\* Unless a refresh overlapped another or an open menu, no freed item is used,
\* and at rest the tree has exactly the keys the last KEYS found.
THEOREM TreeIsWhatWasListed == Spec => []TreeIsListed
  BY TypeInit, TypeStep, FreshInit, FreshStep, FreshImplies, PTL DEF Spec
=============================================================================
