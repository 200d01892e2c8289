----------------------------- MODULE FlashAdmin -----------------------------
(***************************************************************************)
(* One product of a running sale while desktops administer it: seeding on  *)
(* connect (src/src/business_data.cpp), the stock dialog, the flash        *)
(* toggle, adding and deleting (key_browser.cpp), and the panel that loads *)
(* the product, shows its stock and orders it (business_panel.cpp).        *)
(*                                                                         *)
(* Every one of these is a chain of commands: the callback of one reads    *)
(* the reply and sends the next.  A desktop has one connection, a FIFO of  *)
(* requests and a FIFO of replies; commands of other desktops fall between *)
(* any two.  A request names the callback that gets its reply ("-" for     *)
(* none) and the number the callback has captured.                         *)
(*                                                                         *)
(* The store is what concerns the product: whether flash:sale:1 is there,  *)
(* the field stock of product:P, the fields flash_price and flash_stock of *)
(* flash:1:product:P, and the counter flash:1:product:P:stock.  Seeding    *)
(* writes the product first and the sale later; the panel finds products   *)
(* only through the sale.  The figures and the rank an order also writes   *)
(* are in FlashSale.                                                       *)
(*                                                                         *)
(* The name of the counter is put together from the sale chosen in the     *)
(* panel.  While the list of sales is empty the name is that of no sale,   *)
(* flash::product:P:stock: nothing ever sets that counter, so a decrement  *)
(* leaves it below 0 and rollbacks bring it back to 0 at most.             *)
(***************************************************************************)
EXTENDS Integers, Sequences, FiniteSets

CONSTANTS Desktops,
          Stock0,     \* the stock seeded
          Flash0,     \* the capacity of the flash sale seeded, and its counter
          Stocks,     \* what is entered as a stock
          BatchSize,  \* the orders of a stress test
          Menu,       \* bound: what each desktop's user does besides ordering
          MaxOrders,  \* bound: orders
          MaxJobs,    \* bound: connections made or lost, orders, stress tests, menu entries
          None, Mark  \* a missing field; the placeholder of the order queue

Orders == 1..MaxOrders

ASSUME ConstantsAssumption ==
  /\ Stock0 \in Nat /\ Flash0 \in Nat /\ Stocks \subseteq Nat
  /\ BatchSize \in Nat \ {0}
  /\ MaxOrders \in Nat /\ MaxJobs \in Nat
  /\ None \notin Int /\ Mark \notin Int

VARIABLES
  db,      \* sale, stock, price, cap and counter
  queue,   \* orders:pending, newest first
  req, rep, \* requests not yet executed, replies not yet handled
  open,    \* the connection is up
  dialogs, \* the dialogs open, each a stock to change, or None to add with
  timer,   \* one-shot timers that will report keysChanged
  listed,  \* the sale is in the panel's list of sales
  shown,   \* the panel's product: "none", "plain" or "flash"
  enabled, \* the order and stress-test buttons
  spin,    \* the field for the number of orders
  tests,   \* the orders each running stress test still waits for
  posted,  \* ends of stress tests queued for the event loop
  phase,   \* how far the server is with an order; "astray": it was placed
           \* with no sale in the list, and names the counter of no sale
  setTo, got, gone, lost, jobs
           \* history: the value last written to the counter; the orders that
           \* ever got an item; a deletion of the product; the desktops that
           \* lost a connection; the operations asked for

store == <<db, queue, phase, setTo, got, gone>>
panel == <<listed, shown, enabled, spin, tests, posted>>
browser == <<dialogs, timer>>
vars == <<store, panel, browser, req, rep, open, lost, jobs>>

Phases == {"idle", "placed", "granted", "refused", "restored", "past", "stale", "late",
           "astray"}
In(p) == {o \in Orders : phase[o] = p}

Read(f, then, n) == [cmd |-> "read", field |-> f, then |-> then, n |-> n]
WriteThen(put, then, n) == [cmd |-> "write", put |-> put, then |-> then, n |-> n]
Write(put) == WriteThen(put, "-", 0)
Decr(o, then) == [cmd |-> "DECR", ord |-> o, then |-> then]
Incr(o) == [cmd |-> "INCR", ord |-> o]
Lpush(x) == [cmd |-> "LPUSH", item |-> x]
Lpop == [cmd |-> "LPOP"]
Ping == [cmd |-> "PING", then |-> "seeded"]

OrZero(v) == IF v = None THEN 0 ELSE v

\* The desktops start as the server does, with nothing stored; or join in the
\* middle of a sale, the product seeded, every panel loaded and quiet; or after
\* the desktop that seeded was cut off between the product and the sale, every
\* load having found no sale.
Init ==
  \E start \in {"empty", "running", "cut"} :
    /\ db = LET Seeded(v) == IF start = "running" THEN v ELSE None
            IN  [sale |-> Seeded(1), stock |-> IF start = "empty" THEN None ELSE Stock0,
                 price |-> Seeded(1), cap |-> Seeded(Flash0), counter |-> Seeded(Flash0)]
    /\ setTo = IF start = "running" THEN Flash0 ELSE 0
    /\ open = [d \in Desktops |-> start # "empty"]
    /\ listed = [d \in Desktops |-> start = "running"]
    /\ shown = [d \in Desktops |-> IF start = "running" THEN "flash" ELSE "none"]
    /\ enabled = [d \in Desktops |-> start = "running" /\ Flash0 > 0]
    /\ queue = <<>>
    /\ req = [d \in Desktops |-> <<>>] /\ rep = [d \in Desktops |-> <<>>]
    /\ dialogs = [d \in Desktops |-> <<>>] /\ timer = [d \in Desktops |-> 0]
    /\ spin = [d \in Desktops |-> TRUE]
    /\ tests = [d \in Desktops |-> {}] /\ posted = [d \in Desktops |-> 0]
    /\ phase = [o \in Orders |-> "idle"] /\ got = {} /\ gone = FALSE
    /\ lost = {} /\ jobs = 0

\* The bound on what the users do.
Job == jobs < MaxJobs /\ jobs' = jobs + 1

-----------------------------------------------------------------------------
(* The connection.                                                         *)

\* What is sent while disconnected is gone.
Send(d, msgs) == req' = IF open[d] THEN [req EXCEPT ![d] = @ \o msgs] ELSE req

\* BusinessPanel::refresh begins with the list of sales.
Load == <<Read("sale", "sales", 0)>>

\* MainWindow::onClientConnected: BusinessData::initIfEmpty first.
Connect(d) ==
  /\ ~open[d] /\ req[d] = <<>>
  /\ Job
  /\ open' = [open EXCEPT ![d] = TRUE]
  /\ req' = [req EXCEPT ![d] = <<Read("stock", "seed", 0)>>]
  /\ UNCHANGED <<store, panel, browser, rep, lost>>

\* The callbacks are dropped; the server executes what it has read, if anything.
Lose(d) ==
  /\ open[d]
  /\ Job
  /\ lost' = lost \union {d}
  /\ open' = [open EXCEPT ![d] = FALSE]
  /\ rep' = [rep EXCEPT ![d] = <<>>]
  /\ \E n \in 0..Len(req[d]) : req' = [req EXCEPT ![d] = SubSeq(@, 1, n)]
  /\ tests' = [tests EXCEPT ![d] = {}]
  /\ UNCHANGED <<store, browser, listed, shown, enabled, spin, posted>>

\* The reply at the front is for this callback.
Handle(d, then) ==
  /\ rep[d] # <<>>
  /\ Head(rep[d]).then = then
  /\ rep' = [rep EXCEPT ![d] = Tail(@)]

Value(d) == Head(rep[d]).val
Captured(d) == Head(rep[d]).n

-----------------------------------------------------------------------------
(* Seeding (BusinessData).                                                 *)

\* Mutant: the placeholder is left in the queue.
SeedLeavesMark ==
  <<Write([stock |-> Stock0]), Write([sale |-> 1]), Write([price |-> 1, cap |-> Flash0]),
    Write([counter |-> Flash0]), Lpush(Mark), Ping>>

\* The product, the sale, the flash entry and counter of the product, and a
\* queue made and emptied.
Seed ==
  <<Write([stock |-> Stock0]), Write([sale |-> 1]), Write([price |-> 1, cap |-> Flash0]),
    Write([counter |-> Flash0]), Lpush(Mark), Lpop, Ping>>

OnSeed(d) ==
  /\ Handle(d, "seed")
  /\ Send(d, IF Value(d) # None THEN Load ELSE Seed)
  /\ UNCHANGED <<store, panel, browser, open, lost, jobs>>

OnSeeded(d) ==
  /\ Handle(d, "seeded")
  /\ Send(d, Load)
  /\ UNCHANGED <<store, panel, browser, open, lost, jobs>>

-----------------------------------------------------------------------------
(* The key browser.  The menu's idea of the product, flash or plain, is    *)
(* that of an earlier refresh: both entries of the toggle can be met.  A   *)
(* dialog is modal: no menu while one is open.                             *)

Ask(d, entry, msgs) ==
  /\ entry \in Menu[d]
  /\ open[d] /\ dialogs[d] = <<>>
  /\ Job
  /\ Send(d, msgs)
  /\ UNCHANGED <<store, panel, rep, open, lost>>

AdjustStock(d) == Ask(d, "adjust", <<Read("stock", "adjust", 0)>>) /\ UNCHANGED browser

SetFlash(d) == Ask(d, "flash", <<Read("stock", "enable", 0)>>) /\ UNCHANGED browser

\* The entry goes before the counter; the refresh comes 100 ms later.
SetPlain(d) ==
  /\ Ask(d, "plain",
         <<Write([price |-> None, cap |-> None]), Write([counter |-> None])>>)
  /\ timer' = [timer EXCEPT ![d] = @ + 1]
  /\ UNCHANGED dialogs

DeleteProduct(d) ==
  /\ Ask(d, "delete",
         <<Write([stock |-> None]), Write([price |-> None, cap |-> None]),
           Write([counter |-> None])>> \o Load)
  /\ UNCHANGED browser

AddProduct(d) == Ask(d, "add", <<Read("stock", "add", 0)>>) /\ UNCHANGED browser

Reload(d) == Ask(d, "reload", Load) /\ UNCHANGED browser

OpenDialog(d, x) == dialogs' = [dialogs EXCEPT ![d] = Append(@, x)]

CloseDialog(d) == dialogs' = [dialogs EXCEPT ![d] = SubSeq(@, 1, Len(@) - 1)]

Top(d) == dialogs[d][Len(dialogs[d])]

OnAdjust(d) ==
  /\ Handle(d, "adjust")
  /\ OpenDialog(d, OrZero(Value(d)))
  /\ UNCHANGED <<store, panel, timer, req, open, lost, jobs>>

\* The product's identifier is free only while there is no such product.
OnAdd(d) ==
  /\ Handle(d, "add")
  /\ IF Value(d) = None THEN OpenDialog(d, None) ELSE UNCHANGED dialogs
  /\ UNCHANGED <<store, panel, timer, req, open, lost, jobs>>

AcceptStock(d, n) ==
  /\ dialogs[d] # <<>> /\ Top(d) # None
  /\ n # Top(d)
  /\ CloseDialog(d)
  /\ Send(d, <<WriteThen([stock |-> n], "adjusted", n)>>)
  /\ UNCHANGED <<store, panel, timer, rep, open, lost, jobs>>

AcceptProduct(d, n, flash) ==
  /\ dialogs[d] # <<>> /\ Top(d) = None
  /\ CloseDialog(d)
  /\ Send(d, <<Write([stock |-> n])>> \o
             IF flash THEN <<Write([price |-> 1, cap |-> n]), Write([counter |-> n])>> ELSE <<>>)
  /\ timer' = [timer EXCEPT ![d] = @ + 1]
  /\ UNCHANGED <<store, panel, rep, open, lost, jobs>>

Cancel(d) ==
  /\ dialogs[d] # <<>>
  /\ CloseDialog(d)
  /\ UNCHANGED <<store, panel, timer, req, rep, open, lost, jobs>>

OnAdjusted(d) ==
  /\ Handle(d, "adjusted")
  /\ Send(d, <<Read("counter", "sync", Captured(d))>>)
  /\ UNCHANGED <<store, panel, browser, open, lost, jobs>>

\* A counter found is set, and the capacity with it.
OnSync(d) ==
  /\ Handle(d, "sync")
  /\ Send(d, IF Value(d) = None THEN <<>>
             ELSE <<Write([counter |-> Captured(d)]), Write([cap |-> Captured(d)])>>)
  /\ UNCHANGED <<store, panel, browser, open, lost, jobs>>

OnEnable(d) ==
  /\ Handle(d, "enable")
  /\ LET n == OrZero(Value(d))
     IN  Send(d, <<Write([price |-> 1, cap |-> n]), Write([counter |-> n])>>)
  /\ timer' = [timer EXCEPT ![d] = @ + 1]
  /\ UNCHANGED <<store, panel, dialogs, open, lost, jobs>>

KeysChanged(d) ==
  /\ timer[d] > 0
  /\ timer' = [timer EXCEPT ![d] = @ - 1]
  /\ Send(d, Load)
  /\ UNCHANGED <<store, panel, dialogs, rep, open, lost, jobs>>

-----------------------------------------------------------------------------
(* The panel: loading.                                                     *)

\* What a counter is called that belongs to the sale in the list, if any.
Counter(d) == IF listed[d] THEN "counter" ELSE "astray"

\* updateProductInfo for the product shown: it asks for the counter, or
\* disables the buttons at once.
Update(d, sh) == IF sh = "flash" THEN <<Read(Counter(d), "stock", 0)>> ELSE <<>>

\* No sale ends the load; else the list of sales is cleared, and the title asked for.
OnSales(d) ==
  /\ Handle(d, "sales")
  /\ IF Value(d) = None THEN UNCHANGED <<listed, req>>
     ELSE /\ listed' = [listed EXCEPT ![d] = FALSE]
          /\ Send(d, <<Read("sale", "title", 0)>>)
  /\ UNCHANGED <<store, shown, enabled, spin, tests, posted, browser, open, lost, jobs>>

\* With or without a title the sale goes into the list, and the products are loaded.
OnTitle(d) ==
  /\ Handle(d, "title")
  /\ listed' = [listed EXCEPT ![d] = TRUE]
  /\ Send(d, <<Read("stock", "list", 0)>>)
  /\ UNCHANGED <<store, shown, enabled, spin, tests, posted, browser, open, lost, jobs>>

\* An empty list returns before anything is cleared.
OnList(d) ==
  /\ Handle(d, "list")
  /\ IF Value(d) = None THEN UNCHANGED <<shown, req>>
     ELSE /\ shown' = [shown EXCEPT ![d] = "none"]
          /\ Send(d, <<Read("stock", "detail", 0)>>)
  /\ UNCHANGED <<store, listed, enabled, spin, tests, posted, browser, open, lost, jobs>>

OnDetail(d) ==
  /\ Handle(d, "detail")
  /\ Send(d, <<Read("price", "price", OrZero(Value(d)))>>)
  /\ UNCHANGED <<store, panel, browser, open, lost, jobs>>

\* Mutant: a missing counter is not created.
OnPriceUnensured(d) ==
  /\ Handle(d, "price")
  /\ LET kind == IF Value(d) = None THEN "plain" ELSE "flash"
         sh == IF shown[d] = "none" THEN kind ELSE shown[d]
     IN  /\ shown' = [shown EXCEPT ![d] = sh]
         /\ enabled' = [enabled EXCEPT ![d] = @ /\ sh = "flash"]
         /\ Send(d, Update(d, sh))
  /\ UNCHANGED <<store, listed, spin, tests, posted, browser, open, lost, jobs>>

\* The product is appended to the list; the first entry is the one shown.
OnPrice(d) ==
  /\ Handle(d, "price")
  /\ LET kind == IF Value(d) = None THEN "plain" ELSE "flash"
         sh == IF shown[d] = "none" THEN kind ELSE shown[d]
     IN  /\ shown' = [shown EXCEPT ![d] = sh]
         /\ enabled' = [enabled EXCEPT ![d] = @ /\ sh = "flash"]
         /\ Send(d, (IF kind = "flash" THEN <<Read("counter", "ensure", Captured(d))>> ELSE <<>>)
                      \o Update(d, sh))
  /\ UNCHANGED <<store, listed, spin, tests, posted, browser, open, lost, jobs>>

\* A missing counter is created with the stock read three replies earlier.
OnEnsure(d) ==
  /\ Handle(d, "ensure")
  /\ Send(d, IF Value(d) = None THEN <<Write([counter |-> Captured(d)])>> ELSE <<>>)
  /\ UNCHANGED <<store, panel, browser, open, lost, jobs>>

OnStock(d) ==
  /\ Handle(d, "stock")
  /\ Send(d, <<Read("cap", "capacity", OrZero(Value(d)))>>)
  /\ UNCHANGED <<store, panel, browser, open, lost, jobs>>

\* The buttons follow the counter, whatever is under way.
OnCapacity(d) ==
  /\ Handle(d, "capacity")
  /\ Send(d, IF Captured(d) > OrZero(Value(d)) THEN <<Write([cap |-> Captured(d)])>> ELSE <<>>)
  /\ enabled' = [enabled EXCEPT ![d] = Captured(d) > 0]
  /\ UNCHANGED <<store, listed, shown, spin, tests, posted, browser, open, lost, jobs>>

-----------------------------------------------------------------------------
(* The panel: ordering.                                                    *)

\* Orders are numbered as they are placed.
NextOrder == Cardinality(Orders \ In("idle")) + 1

\* An order keeps the name of the counter it was placed with.
Place(S, d) ==
  /\ S \subseteq In("idle")
  /\ phase' = [o \in Orders |-> IF o \notin S THEN phase[o]
                              ELSE IF listed[d] THEN "placed" ELSE "astray"]

ExecuteOrder(d) ==
  /\ open[d] /\ dialogs[d] = <<>>
  /\ enabled[d] /\ shown[d] = "flash"
  /\ Job
  /\ Place({NextOrder}, d)
  /\ Send(d, <<Decr(NextOrder, "order")>>)
  /\ UNCHANGED <<db, queue, setTo, got, gone, panel, browser, rep, open, lost>>

\* While the connection closes, every callback is called at once with NIL and
\* counts nothing.
OnBatchStressTest(d) ==
  /\ dialogs[d] = <<>>
  /\ enabled[d] /\ shown[d] = "flash"
  /\ Job
  /\ LET S == NextOrder..(NextOrder + BatchSize - 1)
     IN  IF open[d]
         THEN /\ Place(S, d)
              /\ Send(d, [i \in 1..BatchSize |-> Decr(NextOrder + i - 1, "test")])
              /\ tests' = [tests EXCEPT ![d] = @ \union {S}]
         ELSE UNCHANGED <<phase, req, tests>>
  /\ enabled' = [enabled EXCEPT ![d] = FALSE]
  /\ spin' = [spin EXCEPT ![d] = FALSE]
  /\ UNCHANGED <<db, queue, setTo, got, gone, listed, shown, posted, browser, rep, open, lost>>

\* Mutant: two items are given back.
OutcomeTwice(d) ==
  LET o == Head(rep[d]).ord
  IN  IF Value(d) >= 0 THEN <<Lpush(o)>> ELSE <<Incr(o), Incr(o)>>

\* What the callback of a decrement sends first: the record, or the rollback.
Outcome(d) ==
  LET o == Head(rep[d]).ord
  IN  IF Value(d) >= 0 THEN <<Lpush(o)>> ELSE <<Incr(o)>>

OnOrder(d) ==
  /\ Handle(d, "order")
  /\ Send(d, Outcome(d) \o Update(d, shown[d]))
  /\ enabled' = [enabled EXCEPT ![d] = @ /\ shown[d] = "flash"]
  /\ UNCHANGED <<store, listed, shown, spin, tests, posted, browser, open, lost, jobs>>

\* Mutant: only the orders that got an item are counted.
OnTestSuccesses(d) ==
  /\ Handle(d, "test")
  /\ Send(d, Outcome(d))
  /\ LET o == Head(rep[d]).ord
         left == {IF Value(d) >= 0 THEN S \ {o} ELSE S : S \in tests[d]}
     IN  /\ tests' = [tests EXCEPT ![d] = left \ {{}}]
         /\ posted' = [posted EXCEPT ![d] = IF {} \in left THEN @ + 1 ELSE @]
  /\ UNCHANGED <<store, listed, shown, enabled, spin, browser, open, lost, jobs>>

\* The last reply of a stress test posts its end.
OnTest(d) ==
  /\ Handle(d, "test")
  /\ Send(d, Outcome(d))
  /\ LET o == Head(rep[d]).ord
         left == {S \ {o} : S \in tests[d]}
     IN  /\ tests' = [tests EXCEPT ![d] = left \ {{}}]
         /\ posted' = [posted EXCEPT ![d] = IF {} \in left THEN @ + 1 ELSE @]
  /\ UNCHANGED <<store, listed, shown, enabled, spin, browser, open, lost, jobs>>

\* The buttons come back; disconnected, the update finds no stock.
EndTest(d) ==
  /\ posted[d] > 0
  /\ posted' = [posted EXCEPT ![d] = @ - 1]
  /\ spin' = [spin EXCEPT ![d] = TRUE]
  /\ enabled' = [enabled EXCEPT ![d] = open[d] /\ shown[d] = "flash"]
  /\ Send(d, Update(d, shown[d]))
  /\ UNCHANGED <<store, listed, shown, tests, browser, rep, open, lost, jobs>>

-----------------------------------------------------------------------------
(* The server: the oldest request of some connection, executed whole.      *)

Execute(d, cmd) ==
  /\ req[d] # <<>>
  /\ Head(req[d]).cmd = cmd
  /\ req' = [req EXCEPT ![d] = Tail(@)]
  /\ UNCHANGED <<panel, browser, open, lost, jobs>>

Answer(d, reply) == rep' = IF open[d] THEN [rep EXCEPT ![d] = Append(@, reply)] ELSE rep

Request(d) == Head(req[d])

\* The counter of no sale, missing or at most 0, is to a panel as if missing.
Field(f) == IF f = "astray" THEN None ELSE db[f]

ServeRead(d) ==
  /\ Execute(d, "read")
  /\ Answer(d, [then |-> Request(d).then, n |-> Request(d).n, val |-> Field(Request(d).field)])
  /\ UNCHANGED store

\* A written counter starts a new count of orders.
Renew(p) ==
  CASE p \in {"granted", "restored", "late"} -> "past"
    [] p = "refused" -> "stale"
    [] OTHER -> p

ServeWrite(d) ==
  /\ Execute(d, "write")
  /\ LET put == Request(d).put
     IN  /\ db' = [f \in DOMAIN db |-> IF f \in DOMAIN put THEN put[f] ELSE db[f]]
         /\ IF "counter" \in DOMAIN put
            THEN /\ setTo' = OrZero(put["counter"])
                 /\ phase' = [o \in Orders |-> Renew(phase[o])]
            ELSE UNCHANGED <<setTo, phase>>
         /\ gone' = \/ gone
                    \/ "stock" \in DOMAIN put /\ put["stock"] = None
  /\ IF Request(d).then = "-" THEN UNCHANGED rep
     ELSE Answer(d, [then |-> Request(d).then, n |-> Request(d).n, val |-> 0])
  /\ UNCHANGED <<queue, got>>

\* Mutant: the counter stops at zero.
ServeDecrFloored(d) ==
  /\ Execute(d, "DECR")
  /\ LET o == Request(d).ord
         n == OrZero(db.counter) - 1
     IN  /\ phase[o] # "astray"
         /\ db' = [db EXCEPT !.counter = IF n >= 0 THEN n ELSE 0]
         /\ phase' = [phase EXCEPT ![o] = IF n >= 0 THEN "granted" ELSE "refused"]
         /\ got' = IF n >= 0 THEN got \union {o} ELSE got
         /\ Answer(d, [then |-> Request(d).then, ord |-> o, val |-> n])
  /\ UNCHANGED <<queue, setTo, gone>>

\* A missing counter is created and counts from 0.
ServeDecr(d) ==
  /\ Execute(d, "DECR")
  /\ LET o == Request(d).ord
         n == OrZero(db.counter) - 1
     IN  /\ phase[o] # "astray"
         /\ db' = [db EXCEPT !.counter = n]
         /\ phase' = [phase EXCEPT ![o] = IF n >= 0 THEN "granted" ELSE "refused"]
         /\ got' = IF n >= 0 THEN got \union {o} ELSE got
         /\ Answer(d, [then |-> Request(d).then, ord |-> o, val |-> n])
  /\ UNCHANGED <<queue, setTo, gone>>

ServeIncr(d) ==
  /\ Execute(d, "INCR")
  /\ LET o == Request(d).ord
     IN  /\ phase[o] # "astray"
         /\ db' = [db EXCEPT !.counter = OrZero(@) + 1]
         /\ phase' = [phase EXCEPT ![o] = IF @ = "stale" THEN "late" ELSE "restored"]
  /\ UNCHANGED <<queue, setTo, got, gone, rep>>

\* The counter of no sale: below 0 after any decrement.
ServeAstray(d) ==
  /\ \E cmd \in {"DECR", "INCR"} : Execute(d, cmd)
  /\ phase[Request(d).ord] = "astray"
  /\ IF Request(d).cmd = "INCR" THEN UNCHANGED rep
     ELSE Answer(d, [then |-> Request(d).then, ord |-> Request(d).ord, val |-> -1])
  /\ UNCHANGED store

ServeLpush(d) ==
  /\ Execute(d, "LPUSH")
  /\ queue' = <<Request(d).item>> \o queue
  /\ UNCHANGED <<db, phase, setTo, got, gone, rep>>

ServeLpop(d) ==
  /\ Execute(d, "LPOP")
  /\ queue' = IF queue = <<>> THEN queue ELSE Tail(queue)
  /\ UNCHANGED <<db, phase, setTo, got, gone, rep>>

ServePing(d) ==
  /\ Execute(d, "PING")
  /\ Answer(d, [then |-> Request(d).then, n |-> 0, val |-> 0])
  /\ UNCHANGED store

-----------------------------------------------------------------------------
Callback(d) ==
  \/ OnSeed(d) \/ OnSeeded(d) \/ OnAdjust(d) \/ OnAdd(d) \/ OnAdjusted(d) \/ OnSync(d)
  \/ OnEnable(d) \/ OnSales(d) \/ OnTitle(d) \/ OnList(d) \/ OnDetail(d) \/ OnPrice(d)
  \/ OnEnsure(d) \/ OnStock(d) \/ OnCapacity(d) \/ OnOrder(d) \/ OnTest(d)

EventLoop(d) == Callback(d) \/ KeysChanged(d) \/ EndTest(d)

Serve(d) ==
  \/ ServeRead(d) \/ ServeWrite(d) \/ ServeDecr(d) \/ ServeIncr(d) \/ ServeAstray(d)
  \/ ServeLpush(d) \/ ServeLpop(d) \/ ServePing(d)

User(d) ==
  \/ AdjustStock(d) \/ SetFlash(d) \/ SetPlain(d) \/ DeleteProduct(d) \/ AddProduct(d)
  \/ Reload(d) \/ Cancel(d) \/ ExecuteOrder(d) \/ OnBatchStressTest(d)
  \/ \E n \in Stocks : AcceptStock(d, n) \/ \E flash \in BOOLEAN : AcceptProduct(d, n, flash)

Next == \E d \in Desktops : Connect(d) \/ Lose(d) \/ User(d) \/ EventLoop(d) \/ Serve(d)

Spec == Init /\ [][Next]_vars

-----------------------------------------------------------------------------
(* Properties.                                                             *)

\* The counter is what was last written to it, less the orders that got an
\* item since and those whose rollback is due, plus the rollbacks of earlier
\* orders that came after the write.
CounterIsLedger ==
  OrZero(db.counter) =
    setTo - Cardinality(In("granted")) - Cardinality(In("refused")) + Cardinality(In("late"))

\* Since the counter was last written, by seeding, a dialog, the toggle, a load
\* or a deletion, no more orders got an item than were put there, but for one
\* more per rollback of an earlier order that came late.
OversoldByLateOnly == Cardinality(In("granted")) <= setTo + Cardinality(In("late"))

Settled(d) ==
  open[d] /\ req[d] = <<>> /\ rep[d] = <<>> /\ timer[d] = 0 /\ posted[d] = 0

AtRest == \A d \in Desktops : Settled(d)

\* However seeding, toggles, loads and adjustments of several desktops
\* interleave, once all is quiet and the sale is stored a flash product has its
\* counter: the load that follows each of them repairs what the others undid.
\* (A seeding cut short before the sale leaves loads that end at the empty list
\* of sales, and no connection seeds again: then nothing repairs.  A product
\* deleted can be brought back in part by a chain that read it before.)
FlashHasCounter ==
  AtRest /\ ~gone /\ db.sale # None =>
    (db.stock # None /\ db.price # None => db.counter # None)

\* The order queue holds one entry for each order that got an item: the
\* placeholder pushed and popped by every seeding never changes its length.
QueueCountsOrders == AtRest /\ lost = {} => Len(queue) = Cardinality(got)

\* A desktop that never lost its connection is not left with a stress test that
\* waits for nothing, nor with the field for the number of orders disabled.
StressTestSettles ==
  \A d \in Desktops : Settled(d) /\ d \notin lost => spin[d] /\ tests[d] = {}
=============================================================================
