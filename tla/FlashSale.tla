----------------------------- MODULE FlashSale -----------------------------
(***************************************************************************)
(* Ordering one flash-sale product: BusinessPanel::executeOrder and        *)
(* onBatchStressTest (src/src/business_panel.cpp) on several connections,  *)
(* against the single-threaded server that executes one command at a time  *)
(* (src/mini_redis/src/server.cpp, db.cpp).                                *)
(*                                                                         *)
(* An order decrements the product's counter; a negative result means the  *)
(* product is sold out and is given back by an increment sent later.       *)
(* Between the two, other connections see a counter that is too low.       *)
(*                                                                         *)
(* A client is one TCP connection.  Once closed it never opens again: the  *)
(* reconnect of a desktop is another client.  Each connection is a FIFO of *)
(* requests and a FIFO of replies; of the replies only those that have a   *)
(* callback matter here, and that they reach it is RedisClient's theorem.  *)
(* The panel's display refresh (updateProductInfo) touches no key of this  *)
(* module and is left out.                                                 *)
(***************************************************************************)
EXTENDS Integers, Sequences, FiniteSets

CONSTANTS Clients,
          Orders,
          By,        \* the client that places an order
          Batch,     \* the orders of a client's stress test, in order
          Stock0,    \* the counter's seed (business_data.cpp, seedAll)
          MaxDrops   \* bound: connections lost

Batched(o) == \E i \in DOMAIN Batch[By[o]] : Batch[By[o]][i] = o

ASSUME ConstantsAssumption ==
  /\ IsFiniteSet(Orders)
  /\ By \in [Orders -> Clients]
  /\ Batch \in [Clients -> Seq(Orders)]
  /\ \A c \in Clients : \A i, j \in DOMAIN Batch[c] :
       By[Batch[c][i]] = c /\ (i # j => Batch[c][i] # Batch[c][j])
  /\ Stock0 \in Nat /\ MaxDrops \in Nat

VARIABLES
  open,     \* the connection is up
  req,      \* requests sent and not yet executed
  rep,      \* replies not yet handled
  stock,    \* flash:N:product:M:stock
  pending,  \* orders:pending, newest first
  daily,    \* stats:daily:orders
  revenue,  \* stats:daily:revenue, in units of the flash price
  score,    \* the lowest score the product has in sales:rank, 0 for none
  phase,    \* history: how far the server is with an order
  drops     \* number of connections lost

orderVars == <<stock, pending, daily, revenue, score, phase>>
vars == <<open, req, rep, orderVars, drops>>

Phases == {"idle", "placed", "granted", "refused", "restored"}
Commands == {"DECR", "INCR", "LPUSH", "INCR orders", "INCRBY revenue", "ZSCORE", "ZADD"}
Requests == [cmd : Commands, ord : Orders, arg : Nat]
Replies == {r \in [cmd : Commands, ord : Orders, arg : Nat, res : Int] :
              r.cmd = "ZSCORE" => r.res \in Nat}

In(p) == {o \in Orders : phase[o] = p}

Request(cmd, o, n) == [cmd |-> cmd, ord |-> o, arg |-> n]

Init ==
  /\ open = [c \in Clients |-> TRUE]
  /\ req = [c \in Clients |-> <<>>]
  /\ rep = [c \in Clients |-> <<>>]
  /\ stock = Stock0
  /\ pending = <<>> /\ daily = 0 /\ revenue = 0 /\ score = 0
  /\ phase = [o \in Orders |-> "idle"]
  /\ drops = 0

-----------------------------------------------------------------------------
(* The panel.                                                              *)

Send(c, msgs) == req' = [req EXCEPT ![c] = @ \o msgs]

\* The next reply with a callback is the one to cmd.
Handle(c, cmd) ==
  /\ rep[c] # <<>>
  /\ Head(rep[c]).cmd = cmd
  /\ rep' = [rep EXCEPT ![c] = Tail(@)]

ExecuteOrder(o) ==
  /\ open[By[o]]
  /\ ~Batched(o)
  /\ phase[o] = "idle"
  /\ phase' = [phase EXCEPT ![o] = "placed"]
  /\ Send(By[o], <<Request("DECR", o, 0)>>)
  /\ UNCHANGED <<open, rep, stock, pending, daily, revenue, score, drops>>

\* All decrements of a stress test go out before any reply is seen.
OnBatchStressTest(c) ==
  /\ open[c]
  /\ Batch[c] # <<>>
  /\ \A i \in DOMAIN Batch[c] : phase[Batch[c][i]] = "idle"
  /\ phase' = [o \in Orders |-> IF By[o] = c /\ Batched(o) THEN "placed" ELSE phase[o]]
  /\ Send(c, [i \in DOMAIN Batch[c] |-> Request("DECR", Batch[c][i], 0)])
  /\ UNCHANGED <<open, rep, stock, pending, daily, revenue, score, drops>>

\* Mutant: the revenue is not booked.
RecordingWithoutRevenue(o) ==
  <<Request("LPUSH", o, 0), Request("INCR orders", o, 0)>>
    \o IF Batched(o) THEN <<>> ELSE <<Request("ZSCORE", o, 0)>>

\* What is sent for an order that got an item; a stress test skips the rank.
Recording(o) ==
  <<Request("LPUSH", o, 0), Request("INCR orders", o, 0), Request("INCRBY revenue", o, 1)>>
    \o IF Batched(o) THEN <<>> ELSE <<Request("ZSCORE", o, 0)>>

\* Mutant: the last item is sold twice over, >= -1 for >= 0.
OnDecrOffByOne(c) ==
  /\ Handle(c, "DECR")
  /\ LET o == Head(rep[c]).ord
     IN Send(c, IF Head(rep[c]).res >= -1 THEN Recording(o) ELSE <<Request("INCR", o, 0)>>)
  /\ UNCHANGED <<open, orderVars, drops>>

\* Mutant: a sold-out order is not given back.
OnDecrForgetsRollback(c) ==
  /\ Handle(c, "DECR")
  /\ LET o == Head(rep[c]).ord
     IN Send(c, IF Head(rep[c]).res >= 0 THEN Recording(o) ELSE <<>>)
  /\ UNCHANGED <<open, orderVars, drops>>

\* Mutant: the revenue is counted before the order is recorded.
OnDecrCountsFirst(c) ==
  /\ Handle(c, "DECR")
  /\ LET o == Head(rep[c]).ord
     IN Send(c, IF Head(rep[c]).res >= 0
                THEN <<Request("INCRBY revenue", o, 1)>> \o
                     <<Request("LPUSH", o, 0), Request("INCR orders", o, 0)>>
                ELSE <<Request("INCR", o, 0)>>)
  /\ UNCHANGED <<open, orderVars, drops>>

\* Mutant: the last item is given back, > 0 for >= 0.
OnDecrKeepsLast(c) ==
  /\ Handle(c, "DECR")
  /\ LET o == Head(rep[c]).ord
     IN Send(c, IF Head(rep[c]).res > 0 THEN Recording(o) ELSE <<Request("INCR", o, 0)>>)
  /\ UNCHANGED <<open, orderVars, drops>>

OnDecr(c) ==
  /\ Handle(c, "DECR")
  /\ LET o == Head(rep[c]).ord
     IN Send(c, IF Head(rep[c]).res >= 0 THEN Recording(o) ELSE <<Request("INCR", o, 0)>>)
  /\ UNCHANGED <<open, orderVars, drops>>

\* The rank is read and written back, one higher, in two commands.
OnZscore(c) ==
  /\ Handle(c, "ZSCORE")
  /\ Send(c, <<Request("ZADD", Head(rep[c]).ord, Head(rep[c]).res + 1)>>)
  /\ UNCHANGED <<open, orderVars, drops>>

\* The connection ends: no further callback runs (RedisClient::onDisconnected)
\* and the server executes what it has read of the requests, if anything.
Disconnect(c) ==
  /\ open[c]
  /\ drops < MaxDrops
  /\ drops' = drops + 1
  /\ open' = [open EXCEPT ![c] = FALSE]
  /\ rep' = [rep EXCEPT ![c] = <<>>]
  /\ \E n \in 0..Len(req[c]) : req' = [req EXCEPT ![c] = SubSeq(@, 1, n)]
  /\ UNCHANGED orderVars

-----------------------------------------------------------------------------
(* The server: the oldest request of some connection, executed whole.      *)

Execute(c, cmd) ==
  /\ req[c] # <<>>
  /\ Head(req[c]).cmd = cmd
  /\ req' = [req EXCEPT ![c] = Tail(@)]

Answer(c, res) ==
  LET m == Head(req[c])
  IN  rep' = IF open[c]
             THEN [rep EXCEPT ![c] = Append(@, [cmd |-> m.cmd, ord |-> m.ord,
                                                arg |-> m.arg, res |-> res])]
             ELSE rep

\* Mutant: each order takes two items off the counter.
ServeDecrByTwo(c) ==
  /\ Execute(c, "DECR")
  /\ stock' = stock - 2
  /\ Answer(c, stock')
  /\ phase' = [phase EXCEPT ![Head(req[c]).ord] = IF stock' >= 0 THEN "granted" ELSE "refused"]
  /\ UNCHANGED <<open, pending, daily, revenue, score, drops>>

\* Database::decrby: replies with the new value.
ServeDecr(c) ==
  /\ Execute(c, "DECR")
  /\ stock' = stock - 1
  /\ Answer(c, stock')
  /\ phase' = [phase EXCEPT ![Head(req[c]).ord] = IF stock' >= 0 THEN "granted" ELSE "refused"]
  /\ UNCHANGED <<open, pending, daily, revenue, score, drops>>

\* Mutant: a rollback adds two.
ServeIncrTwice(c) ==
  /\ Execute(c, "INCR")
  /\ stock' = stock + 2
  /\ phase' = [phase EXCEPT ![Head(req[c]).ord] = "restored"]
  /\ UNCHANGED <<open, rep, pending, daily, revenue, score, drops>>

ServeIncr(c) ==
  /\ Execute(c, "INCR")
  /\ stock' = stock + 1
  /\ phase' = [phase EXCEPT ![Head(req[c]).ord] = "restored"]
  /\ UNCHANGED <<open, rep, pending, daily, revenue, score, drops>>

ServeLpush(c) ==
  /\ Execute(c, "LPUSH")
  /\ pending' = <<Head(req[c]).ord>> \o pending
  /\ UNCHANGED <<open, rep, stock, daily, revenue, score, phase, drops>>

ServeDailyOrders(c) ==
  /\ Execute(c, "INCR orders")
  /\ daily' = daily + 1
  /\ UNCHANGED <<open, rep, stock, pending, revenue, score, phase, drops>>

ServeRevenue(c) ==
  /\ Execute(c, "INCRBY revenue")
  /\ revenue' = revenue + Head(req[c]).arg
  /\ UNCHANGED <<open, rep, stock, pending, daily, score, phase, drops>>

\* SkipList::get_score finds the member's lowest score; 0 stands for nil.
ServeZscore(c) ==
  /\ Execute(c, "ZSCORE")
  /\ Answer(c, score)
  /\ UNCHANGED <<open, orderVars, drops>>

\* SkipList::insert adds a node for a new score and leaves the old one, so the
\* lowest score never rises.
ServeZadd(c) ==
  /\ Execute(c, "ZADD")
  /\ LET n == Head(req[c]).arg
     IN score' = IF score = 0 \/ n < score THEN n ELSE score
  /\ UNCHANGED <<open, rep, stock, pending, daily, revenue, phase, drops>>

-----------------------------------------------------------------------------
Callback(c) == OnDecr(c) \/ OnZscore(c)

Serve(c) ==
  \/ ServeDecr(c) \/ ServeIncr(c) \/ ServeLpush(c) \/ ServeDailyOrders(c)
  \/ ServeRevenue(c) \/ ServeZscore(c) \/ ServeZadd(c)

Next ==
  \/ \E o \in Orders : ExecuteOrder(o)
  \/ \E c \in Clients : OnBatchStressTest(c) \/ Callback(c) \/ Disconnect(c) \/ Serve(c)

Spec == Init /\ [][Next]_vars

\* The event loop of a desktop runs the callbacks of the replies it has read,
\* and the server's epoll loop comes round to every connection with requests.
Fairness == \A c \in Clients : WF_vars(Callback(c)) /\ WF_vars(Serve(c))

FairSpec == Spec /\ Fairness

-----------------------------------------------------------------------------
(* Properties.                                                             *)

\* Every variable stays in its domain.
TypeOK ==
  /\ open \in [Clients -> BOOLEAN]
  /\ req \in [Clients -> Seq(Requests)]
  /\ rep \in [Clients -> Seq(Replies)]
  /\ stock \in Int
  /\ pending \in Seq(Orders)
  /\ daily \in Nat /\ revenue \in Nat
  /\ score \in Nat
  /\ phase \in [Orders -> Phases]
  /\ drops \in 0..MaxDrops

\* No more orders are recorded than there were items, however the decrements,
\* the rollbacks and the connection losses interleave (the decrement-and-check
\* of executeOrder).
NoOversell == Len(pending) <= Stock0

\* The counter is exact at every moment: what was there, less the orders that
\* got an item and those whose rollback is still due.
CounterIsLedger ==
  stock = Stock0 - Cardinality(In("granted")) - Cardinality(In("refused"))

\* No order is turned away while an item is left: a decrement still to be
\* rolled back never makes another order fail that should have succeeded.
SoldOutBeforeRefusal ==
  In("refused") \union In("restored") # {} => Cardinality(In("granted")) = Stock0

\* An order is recorded once and only if it got an item, and the daily figures
\* never run ahead of the queue: revenue behind orders behind records.
StatsTrailOrders ==
  /\ \A i, j \in DOMAIN pending : i # j => pending[i] # pending[j]
  /\ \A i \in DOMAIN pending : phase[pending[i]] = "granted"
  /\ revenue <= daily /\ daily <= Len(pending)

Quiet == \A c \in Clients : open[c] /\ req[c] = <<>> /\ rep[c] = <<>>

\* With every connection up and nothing in flight, the books balance: each
\* item is in the counter or in a recorded and counted order.
BooksBalance ==
  Quiet => /\ stock + Len(pending) = Stock0 /\ stock >= 0
           /\ daily = Len(pending) /\ revenue = Len(pending)

\* An order placed is recorded and counted, or rolled back, unless its
\* connection is lost.
OrderSettled ==
  \A o \in Orders :
    phase[o] = "placed" ~>
      \/ phase[o] = "restored"
      \/ \E i \in DOMAIN pending : pending[i] = o
      \/ ~open[By[o]]

\* What the panel promises of the stock (StockLedger): an order gets an item
\* while there is one, and is refused only when there is none.
Ledger == INSTANCE StockLedger WITH
  remaining <- Stock0 - Cardinality(In("granted")),
  outcome <- [o \in Orders |-> CASE phase[o] \in {"idle", "placed"} -> "open"
                                 [] phase[o] = "granted" -> "sold"
                                 [] OTHER -> "refused"]
ImplementsLedger == Ledger!Spec

\* As README.md:75 has it, every negative decrement is rolled back and the
\* stock never stays below zero: at the latest with nothing left in flight.
NeverNegativeAtRest ==
  (\A c \in Clients : req[c] = <<>> /\ rep[c] = <<>>) => stock >= 0

=============================================================================
