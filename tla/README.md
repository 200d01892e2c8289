# MiniRedisDesktop in TLA+

Specifications, model-checking runs and machine-checked proofs for
MiniRedisDesktop: a Qt desktop (`src/src`, `src/include`) that manages and
plays flash sales on a small Redis server (`src/mini_redis`). Paths below are
relative to the repository root unless they begin with `src/`; line numbers are
those of the commit in `src/`.

## 1. The system

```
  KeyBrowser  ValueViewer  BusinessPanel  StatsDashboard  ConsolePanel
        \          |            |              |            /
         +---------+---- sendCommand(args, callback) ------+
                              RedisClient                       MainWindow
                      one QTcpSocket, one FIFO of callbacks        |
                                  | TCP, RESP                  ServerManager
   other desktops,                |                                | QProcess
   redis-cli ...  ------- Epoll / RespParser / Timer <-------------+
                              CommandTable
                          Database (+ SkipList)
```

The desktop is one thread, the Qt event loop; everything asynchronous in it is
a callback that RedisClient runs when a reply has been read. The server is one
thread too: `Server::start` waits for epoll events, executes every complete
command it has read, and once a second runs one expiry cycle. What makes the
system concurrent is that several connections are served in turn and that a
panel's operation is a chain of commands, with anything in between.

### Inventory

| Component | State | Operations | Hard part | What makes it correct |
|---|---|---|---|---|
| **RedisClient** `src/redis_client.cpp` | socket, `m_readBuffer`, `m_callbacks` | connectToHost, disconnectFromHost, sendCommand, the four socket slots, tryParseResponses | replies have no numbers; fragmented reads; sends from inside callbacks; delayed closes | each callback gets its own reply, once, in order; nothing waits for ever on a live connection |
| **RESP codec** `include/resp_codec.h` | none | resp_encode, resp_decode | incomplete against malformed input | complete exactly when all bytes are there |
| **BusinessPanel** `src/business_panel.cpp` | product list, button states; keys `flash:*:stock`, `orders:pending`, `stats:daily:*`, `sales:rank` | executeOrder, onBatchStressTest, loadFlashSales, loadProductsForSale, updateProductInfo | decrement, check, roll back over several connections; a callback that never comes | no oversell, no refusal while stock is left, books that balance |
| **Database** `mini_redis/src/db.cpp` | `store`, `expires`, the log file | some forty commands, active_expire_cycle, load_aof | expired objects that are still stored; a sampled cycle; restart | one view of what exists; expiry unseen; types kept |
| **SkipList** `db.cpp` 12-164 | nodes on up to 12 levels | insert, remove, get_score, get_rank, range | a member with two scores; links of a removed node | searches agree with the sorted list, no link to a freed node |
| **CommandTable** `command.cpp` | handlers | execute | errors as replies | one reply per command |
| **Epoll** `epoll.cpp` | per connection: parser, `out_buf`, `closing`, registered events | handle_events, read and write processing, close | edge-triggered events; a full socket buffer; time-outs that are only marked | every request answered in order or its connection closed |
| **Timer** `timer.cpp` | heap and index of deadlines | add, remove, refresh, tick | index against heap, order of the heap | an idle connection times out, an active one does not |
| **RespParser** `resp_parser.cpp` | buffer, parsed command | feed, try_parse, consume_command | fragments | same commands whatever the fragments |
| **BusinessData** `src/business_data.cpp` | none; some sixty keys | initIfEmpty, seedAll | two desktops seeding at once, orders meanwhile | no sale or queued order undone |
| **KeyBrowser** `src/key_browser.cpp` | tree items, `m_loadedKeys` | refresh, stock adjustment, flash toggle, rename, delete, TTL, new product | replies to a tree that was rebuilt; adjustments racing with orders | items of the latest refresh; stock that agrees with what was set |
| **ValueViewer** `src/value_viewer.cpp` | current key, editors | loadKey, saves, delete | reply of another key; delete then write | what is saved is what was shown |
| **ServerManager** `src/server_manager.cpp` | process, port, `m_startedEmitted` | start, stop, fallback timer, output, exit | a stale timer; a stop inside a slot | `started` once per start |
| **MainWindow** `src/mainwindow.cpp` | running and connected flags, enabled actions | slots for the signals above | failed starts | some action is always available |
| **StatsDashboard, ConsolePanel, logging, queue.h** | display only | | | |

The hazards this code is exposed to are listed line by line under `hazards` in
`PROJECT.json`, with the properties that cover them. Where the hazard does strike,
or a property covers part of it, a note says what is left out.

## 2. The modules

| Module | What it is |
|---|---|
| `RedisClient` | the client of the desktop, with the socket and a peer that answers in order as its environment |
| `RedisClient_proofs` | four theorems about it |
| `StockLedger` | the promise of a flash sale, in two actions: sell an item, or refuse when none is left |
| `FlashSale` | executeOrder and onBatchStressTest on several connections against the server; implements `StockLedger` |
| `MCFlashSale` | the instance TLC checks: who places which order |
| `FlashSale_proofs` | seven theorems about it, the implementation and the books among them |
| `FlashAdmin` | one product of a running sale while several desktops seed, load, adjust, toggle, add, delete and order it |
| `MCFlashAdmin` | the instance TLC checks: which menu entries each desktop uses |
| `FlashAdmin_proofs` | five theorems about it |
| `Panels` | the tree of keys and the editor of one desktop, over its connection, while other clients write |
| `MCPanels` | the instance TLC checks: a product and the order queue |
| `Panels_proofs` | four theorems about it |
| `Keyspace` | the server's keys, their types and deadlines, the expiry cycle and the restart |
| `SkipList` | the sorted set of the server, level by level |
| `Database_proofs` | six theorems about `Keyspace` and three about `SkipList` |
| `ReplyPipe` | the promise of a connection: requests executed in order, one response each, delivered in order |
| `EventLoop` | one connection of the server under its epoll loop; implements `ReplyPipe` |
| `EventLoop_proofs` | four theorems about it, the implementation among them |
| `IdleTimer` | the timer of the connections, its heap and its index, with the calls made by epoll.cpp and server.cpp |
| `IdleTimer_proofs` | four theorems about it |
| `MainWindow` | the window's slots for the server and the client, as functions of the window |
| `ServerManager` | the server's process and its signals, composed with the window |
| `ServerManager_proofs` | four theorems about the two |

Definitions named as mutants in their comment (`OnDecrOffByOne`,
`EraseKeepsDeadline`, ...) are the plausible bugs each property is known to
catch; they are used by no specification.

### RedisClient

A command is a number, given in the order of the calls of `sendCommand`; a
response is two fragments, so that a read can end inside it. `callbacks` is
`m_callbacks`, with FALSE for a `nullptr`. `parsing` says that control is
inside the loop of `tryParseResponses`: the loop takes one action per turn
(`Deliver`, `LeaveParser`), and `SendCommand` stays enabled in between because
callbacks send commands; no other slot runs there. `Undecodable` is the case
in which resp_decode reports an error; the loop then returns with the bytes
still in the buffer, as the code does.

External: `QAbstractSocket` (its states, a close that waits for unsent bytes or
for a connection attempt) and the peer.

### FlashSale

A client is one connection, with a FIFO of requests and a FIFO of the replies
that have a callback; that these replies reach their callback is what
`RedisClient` shows. `ExecuteOrder` and `OnBatchStressTest` send decrements,
`OnDecr` and `OnZscore` are the callbacks with everything they send, `Serve...`
is the server executing the oldest request of some connection. `Disconnect`
ends a connection at any moment: the callbacks are gone and the server has
executed some prefix of what was sent. `phase` is a history variable: placed,
granted or refused by the server, restored once the rollback is executed.
`score` is what SkipList::get_score finds, which is the lowest score the member
was ever given, since insert leaves the old node.

The stock's refresh after every order (`updateProductInfo`) is in `FlashAdmin`.

### FlashAdmin

`FlashSale` has a counter that only orders touch. Here the rest of the desktop
writes it: seeding on connect, the stock dialog, the flash toggle, adding and
deleting the product, and the panel's load, which creates a missing counter.
Each is a chain, one action per callback; a request carries the name of the
callback that gets its reply and the number that callback has captured, so a
chain can act on what another desktop has changed since. `db` is one product:
whether its sale `flash:sale:1` is there, the field `stock`, the flash entry's
`flash_price` and `flash_stock`, and the counter. A load asks for the sales first
and ends when there is none (`OnSales`, business_panel.cpp:212); otherwise it
clears the panel's list of sales, asks for the title, and with the answer,
whatever it is, goes on to the products (`OnTitle`). The other early returns of
these callbacks are for replies that are no array, which the commands never get.
`listed` says that the sale is in the panel's list. The list names the counter: an
order placed while it is empty decrements `flash::product:P:stock`, a counter
that nothing sets, so that the reply is always negative (`phase` is then
`astray`, `ServeAstray`), and a stock read then finds nothing to sell (`Field`).
`dialogs` are the modal dialogs of the key browser, which keep their event loop
running; `timer` the 100 ms timers before a refresh. `shown`,
`enabled`, `spin`, `tests` and `posted` are the panel: the kind of product it
shows, the buttons, the field for the number of orders, the counters shared by
the callbacks of each stress test, and the queued call that ends one.

`setTo` is the last value written to the counter, and `phase` follows each order
past such a write: one granted before it is `past`, one refused before it is
`stale` until its rollback arrives, `late`.

Seeding writes the product, which a later connection takes as the sign that the
data is there (business_data.cpp:22 and 39), before it writes the sale (116). A
connection lost in between leaves a database that no connection seeds again and
whose sale no load finds: every load ends at once, shows nothing and repairs
nothing. `Init` has this state too (`"cut"`), next to the empty server and the
middle of a sale, so that the operations of a run are free for what follows it.

### Panels

A refresh clears the tree and starts a chain per key. The callbacks hold
pointers to items and categories, here the number of the refresh that made them
(`gen`); `stale` means that one was used after a later refresh had freed it,
which ends the behaviour. A refresh that comes while one is under way, or that
leaves a context menu open over items it has freed, sets `overlapped`; the
refresh that an entry of the menu itself starts, after the menu has closed, does
not. Every order starts one
(mainwindow.cpp:166), so this is ordinary use.

A value is a type and a set of rows; the three ways of writing one are kept: a
single SET, a DEL and one push of all rows, a DEL and one write per row. `want` is
what the keys should hold if the operations took effect when they were asked
for. `hasType` says that the server has the command TYPE: the bundled one has
not, and the panel can be connected to another. A read of a key of another type
is taken to find nothing, as in `Database`.

### Keyspace

`store` gives each key its object, a type and a size, and `left` the seconds to
its deadline, -1 once `time(nullptr) > expires[key]`. The helpers are those of
`Database`: `Found` is what get_value returns after it has expired the key,
`Usable` is get_or_create, which does not look at the deadline, `Erase` is
_del_nolock. `told` is what the last reply said of each key, so that properties
can speak of what a client sees. `ActiveExpire` runs only after the clock has advanced and looks at at
most `MaxSamples` deadlines, any that the hash table may yield first. RENAME of
a key to itself goes on with an iterator to an erased element: the model lets
the key be lost or the process end. `Stop` and `Start` are the end of the
process and `load_aof`.

### SkipList

`node` and `next` are the nodes and their links on every level; the height
random_level gives is a choice. `remove` looks for the member level by level,
although the levels are ordered by score: on a level that does not have it the
walk goes to the end, past the node, and the levels below start from there. Their
links to the node then stay while it is freed. After that a walk may read freed
memory, and the model stops (`Dangling`). Its specification is `ListSpec`, so that
`Database_proofs` can extend this module and `Keyspace` at once.

### EventLoop

A request and a reply are two fragments each, the unit of a read or a write, so
that either can be cut; a malformed line is one. The kernel keeps the receive
buffer, the send buffer with the network behind it (`Cap` fragments), the
registered events and whether the descriptor is on the ready list. Being
edge-triggered means that `EpollWait` takes the descriptor off that list, and
that only a new event, or `epoll_ctl` with an event already there (`Mod`), puts it
back. A handler is cut where it calls `mod`, since the kernel may change in
between; its other steps are one action each. `pc` is where the thread is. After
a malformed line the parser stands inside an array (`confused`): it is not reset
(epoll.cpp:213-223), so what follows is read as items of that array, to an
error or to some command, with the choice left open (`ParseGarbled`). The malformed
lines are those the parser answers with an error. A count or a length that is no
number is not among them: std::stoi throws (resp_parser.cpp:102 and 116), nothing
catches it, and the whole server ends. `answers`
is a history variable: the request each response answers, 0 for the others.

External: the client, which may stop, close or reset at any moment, and the
kernel. A write error loses the reply in hand, as in the code.

### IdleTimer

`heap` and `index` are the vector and the map, with the positions counted from
1. `SiftUp`, `SiftDown` and `SwapNodes` are the private operations, on a record of
the two. A loop is a turn (`UpTurn`, `DownTurn`, `TickTurn`) that changes nothing
once the loop is over, taken often enough: `i` times going up from position `i`,
once per node otherwise. The interesting part is what happens after a time-out: `tick` erases
the descriptor from the index and then calls `swap_nodes`, which enters it
again. When its connection is closed later, `remove` takes whatever node stands
at that position; when the vector has become shorter than that, or empty, it
accesses memory outside it, `damaged` becomes true and the model stops. One idle
connection that times out and hangs up is enough. `due` and `expired` are
history variables. accept gives out the lowest free descriptor, so that
descriptors are reused.

### ServerManager and MainWindow

Signals call their slots at once, so a step of the manager changes the window in
the same action, through the functions of `MainWindow`. A server is known by the
number of its start, which is also its port. `process` keeps the difference
between a process that is dead and one whose end the desktop has handled: after
`onProcessFinished` the object stays (`reaped`), and the next start stops it first,
which enables Start again. `unread` is the line "started on" in the pipe;
`timers` counts the single-shot timers no stop cancels. The lines read by
`waitForFinished` are in `AfterStop`: started may be emitted there, and stopped
after it.

`announced` and `failed` are history variables. External: the process, the
outcome of connection attempts, and the user, who can connect to any server at
any time.

## 3. The runs

| Run | Specification and bounds | Result |
|---|---|---|
| `redis_client` | `FairSpec`, 3 commands, 2 connection attempts, 1 malformed response | holds, 17 238 states |
| `flash_sale` | `FairSpec`, 2 connections, 2 single orders on one and a stress test of 2 on the other, 2 items, 1 connection lost | holds, 12 985 states |
| `stock_negative` | the same, without fairness | `NeverNegativeAtRest` is violated |
| `flash_admin` | `Spec`, 2 desktops with a menu each, from an empty server, the middle of a sale or a seeding cut short, 3 orders in stress tests of 2 or alone, 3 operations in all | holds, 2 292 829 states |
| `panels` | `Spec`, 2 keys, values of at most 2 rows, a server with TYPE or without, 4 operations of the user, the network and other clients in all | holds, 4 592 815 states |
| `editor_type` | the same with 2 operations and no other client | `SaveKeepsType` is violated |
| `keyspace` | `FairSpec`, 2 keys, deadlines up to 1 second, collections of at most 1 element, 2 samples per cycle | holds, 13 452 states |
| `restart` | the same, without fairness | `RestartRecovers` is violated |
| `skip_list` | `ListSpec`, 3 members, 2 scores, 3 levels, at most 4 nodes at a time | holds, 72 331 states |
| `event_loop` | `FairSpec`, 3 requests, 1 malformed line, a send buffer of 2 fragments | holds, 176 359 states |
| `idle_timer` | 3 descriptors, idle time 2, clock up to 5 | holds, 51 219 states |
| `server_manager` | `FairSpec`, 3 starts | holds, 7 253 states |

What they show:

- **redis_client**: `OwnResponse` and `IssueOrder` say that the FIFO never slips:
  a callback gets the whole reply to its own command, or the synthetic NIL of a
  command that was not sent, once and in order. `CallbackResolved`: a callback is called, or its connection ends, or it waits
  behind an undecodable reply. The last case is real: one such reply wedges the
  client until it disconnects.
- **flash_sale**: `NoOversell`, `CounterIsLedger` and `SoldOutBeforeRefusal` are
  about the moment between a negative decrement and its rollback;
  `StatsTrailOrders` and `BooksBalance` relate the order queue, the daily
  figures and the counter; `OrderSettled` is the liveness of an order;
  `ImplementsLedger` is the refinement of `StockLedger`.
- **flash_admin**: the equation of the counter still holds when everybody writes
  it (`CounterIsLedger`), with one term more: rollbacks of orders refused before
  the counter was set and executed after it. `OversoldByLateOnly` says that these
  late rollbacks are the only way to sell more than was set, which they are: each
  one adds an item that does not exist. Both count from the last write: when a
  second seeding, or a load that found no counter, sets it back, the sales undone
  are charged to nobody. README.md:75 and 88 promise that nothing is ever oversold.
  That holds as long as nobody else writes the counter (`flash_sale`); with late
  rollbacks and second writes it does not. `FlashHasCounter`: a
  toggle or a load of one desktop may delete or recreate what another has just
  written, but once all is quiet and the sale is stored a flash product has a
  counter, unless it was deleted in the course of it. Without the sale it need not:
  loads end at the empty list (section 2), so after a toggle of one desktop
  between the commands of another a price without a counter remains, and TLC finds
  that within these bounds when the condition is dropped.
  `QueueCountsOrders`: the placeholder that seeding pushes and pops may take
  an order with it and stay in its place, but the length of the queue is the
  number of orders that got an item. `StressTestSettles`: overlapping stress
  tests, which the panel allows because a refresh of the stock re-enables the
  buttons, all end, unless the connection is lost: then the field for the number
  of orders stays disabled.
- **panels**: `TreeIsListed` is about refreshes that follow each other over
  disconnects; it has to leave out overlapping ones, where callbacks use items
  that were freed. `ShownIsOwn`: whatever is clicked while loads are in flight,
  the page of the current type ends with the current key's value.
  Before it has settled, while a load is in flight, a Save writes what stands on
  the page at that moment under the current key; no property speaks of that.
  `SavedIsStored`: saves, deletes and renames take effect in the order they were
  asked for, and a row removed in the editor is removed; a connection lost after
  the DEL is the exception.
- **skip_list**: `SearchSound` compares searches and ranges with a sorted
  reference after any insertions and removals, members with two scores included.
  `CleanRemoval` says exactly when a removal leaves a link to the freed node:
  when the next taller node on some level is of another member
  (`TallerBehind`), which is common: three nodes in four have one level only.
- **keyspace**: `DeadlineHasKey` (a deadline never outlives its key, so a new
  object does not die of an old deadline), `QueriesAgree` (GET, EXISTS, KEYS,
  TTL and the reads of collections never contradict each other),
  `CollectionUnseen` (removing expired keys is invisible), `NoResurrection` (the
  ways an expired key can be visible again: EXPIRE, a write that found it gone,
  RENAME), `TypeKept`, and `ExpiredCollected`, which needs the samples of a
  cycle to cover the deadlines: the run gives it 2 of 2, and the hazard list
  says what happens otherwise.

- **event_loop**: `NoReplyLost` and `NoLostWakeup` are the two invariants the
  code keeps by hand, over partial writes and edge-triggered events;
  `ImplementsPipe` is the refinement of `ReplyPipe`; `ReplyArrives`,
  `ConnectionReleased` and `RequestServed` are the liveness of replies, closes and
  requests. The last has one exception, `Stalled`: a reply that does not fit in
  the socket ends the loop over the parsed commands, and sending the rest later
  does not resume it, against epoll.cpp:196 and README.md:248.
- **idle_timer**: `NoEarlyTimeout` holds whatever became of the positions;
  `PositionsKept` and `ExactUntilTimeout` say how far the index can be trusted:
  always for a node that is there, entirely until the first time-out. `TypeOK`
  includes that a mark never outlives its connection, which would close the
  next one with that descriptor. The order of the heap is not a property:
  timer.h:16 calls it a min-heap, the comparison is inverted once too often, and
  `refresh` sifts the wrong way for either order.

- **server_manager**: `StartedOnce` and `RunningHasProcess` hold against old timers,
  late lines and nested stops. `ButtonsUsable` has one exception: after a failed
  start, Start stays disabled until a connection opens or closes. `AutoConnects`
  holds for a server that listens before it is announced; one that needs more
  than a second, or is announced by the timer of an earlier start, is connected
  to too early, refused, and not tried again.

The three violations are disagreements of the code with its own documentation:

- README.md:75 promises that the stock is never negative. The rollback is a
  separate command from a callback, and a lost connection loses it.
- README.md:197 calls the viewer an editor of values of several types. A key
  whose TYPE is not answered is opened as a string (key_browser.cpp:323); the
  bundled server has no TYPE, so that every key is. A hash or a list then shows
  as an empty text, and Save replaces it with a string.
- README.md:125 promises the replay of the log. `load_aof` counts its lines.

Three more were met and are part of the models, without a run of their own:
`Stalled` and the order of the heap, above; business_panel.cpp:535 takes ZSCORE
and ZADD for ZINCRBY, although adding a member again leaves its old node and the
score read back never rises (`OnZscore` in `FlashSale`); and SET keeps a deadline
already past, so that the value it has acknowledged is removed by the next GET
(`Set` in `Keyspace`), where README.md:126 promises expiry on access.

### Why the bounds are enough

Three commands and two connections let a reply be in flight, in the buffer and
in the parser at once, and let a reconnect meet callbacks and bytes of the
first connection. Four orders for two items let two decrements be negative
before the first rollback, in a stress test and beside one, with the rollback
lost or not. Three requests with room for one reply
let one be sent, one be cut and one wait in the parser. Three descriptors are a
parent with two children in the heap; a clock of 5 lets a descriptor time out
and be used again. Two keys are what RENAME relates, and one more than an expiry cycle
of a smaller sample would reach; a deadline of one second passes through not
yet due, due this second and past. Sizes 0 and 1 tell an empty collection, which
stays stored, from a full one.

In `flash_admin` three operations relate any two chains of two desktops and an
order or a connection between them; one stress test of two orders for one item
has a refusal whose rollback can be late, and the behaviours that begin in the
middle of a sale, or after a seeding was cut short, spend no operation on
connecting or on losing a connection. In `panels` a load, an edit and
a save leave one operation for a reconnection, another client or a second key.
Four nodes on three levels have a node with a taller one on either side, and a
member twice.

`CHECK_DEADLOCK FALSE` is given where the bounds end a run: commands, orders and
connection attempts are finite. `keyspace` and `server_manager` check deadlock.

### Fairness

- `RedisClient`: the event loop delivers readyRead, the loop of
  tryParseResponses comes to its end, the peer answers what it has received.
  Nothing is assumed of the user, the network or connection attempts.
- `FlashSale`: each desktop handles the replies it has, the server comes round to
  each connection that has requests. Nothing makes anybody order.
- `EventLoop`: the server's thread takes its next step, and the client reads what
  has reached it. `ServerStep` is one action at a time, so weak fairness of the
  disjunction is what a running thread gives. The client never has to send.
- `ServerManager`: the event loop delivers output, the end of the process and the
  outcome of a connection attempt. No timer and no user is fair.
- `FlashAdmin`, `Panels` and `SkipList` assume none: what they say of the end of
  a chain is said of the states in which nothing is in flight.
- `Keyspace`: time passes, and the loop of server.cpp, which wakes every 10 ms,
  comes to its expiry cycle. No command is fair.

## 4. The proofs

All theorems hold for every value of the constants under the named assumptions
(`BoundsAssumption`, `ConstantsAssumption`), which ask only that the bounds are
naturals (the send buffer holds at least one fragment, a skip list has a level), that
members and scores are naturals, which stand for their order, that orders, keys and the
rows of a value are finite sets, that the marks for what is missing are no values
of their own, and that a stress test belongs to one connection and holds no order
twice.

**RedisClient_proofs.** The inductive invariant relates three queues. Read one
after the other, the whole replies in the buffer and on the wire and then the
commands at the peer name the same commands, in the same order, as the FIFO of
callbacks, whenever the FIFO belongs to this connection; where it was cleared it
is empty until the socket is gone, and nothing can join it then, because `sendCommand` refuses unless the socket is connected. Numbers
increase along it and are larger than every number already in the log. From it
follow `TypeCorrect`, `ResponsesRouted`, `CallbacksInOrder` and, as an action
property, `BroadcastSafe`.

**FlashSale_proofs.** `NoOversell` is not inductive. The invariant is
`TypeOK /\ Flow /\ Ledgers`. `Flow` follows each order through the system: at
any time at most one of its decrement, its rollback, its record or the reply to
its decrement is in flight or it stands in the queue, and its phase says which.
`Ledgers` is the counter's equation with the orders granted and refused
(`CounterIsLedger`), the bound on the granted and `SoldOutBeforeRefusal`. The
equation shows that a decrement is negative exactly when all items are granted,
however many rollbacks are due. `LedgerImplemented` then maps the server's
decrement to `Sell` or `Refuse` and every other step to a stutter.

Its second half is about the books. They are two numbers and a list, written by three
commands per order, so the numbers alone are not inductive: nothing says that the
next increment is about an order that is listed and not yet counted. `Books` says
that there are two sets, the orders counted and those whose revenue is booked,
whose cardinalities are the two figures, the second within the first and the
first within the list. `Staged` says of each queue that an increment is about an
order not yet in its set, which is in the set before or has its own earlier
command further ahead, and that no two are about the same order; a connection
lost leaves a prefix, which keeps this. `Located` says the converse for a
connection that is up: nothing that is still to be done for an order is missing
from the queue. `FiguresTrail` (`StatsTrailOrders`) needs only the first half;
`BooksAreBalanced` (`BooksBalance`) needs the second, and the ledger.

**FlashAdmin_proofs.** Here the counter is written while orders are in flight, so
the ledger counts from the last write, and an order belongs to whichever desktop
placed it. The invariant is `TypeStore /\ TypeQueues /\ Flow` and the two
properties. A debt is a decrement, a negative reply or a rollback under way;
`Flow` says that some assignment of orders to desktops puts each debt in a queue
of its order's desktop, that no order has two, and that the order's phase fits
it: placed for a decrement, refused or stale for the others. The assignment is
existential because the model keeps no owner; it is extended when an order is
placed, which is possible because an idle order has no debt. Every step has one
of eight shapes (`StepShape`), and most of the thirty actions only move messages
that are no debt (`Quiet`). A written counter empties the three sets the ledger
counts. The bound needs the ledger: an order is granted when the counter was
positive, so when fewer were granted than `setTo` and the late rollbacks allow.

The other three theorems are about quiet states, and nothing about a quiet state
is inductive: each needs an invariant that says what is under way until then.

- `StressTestsSettled` (`StressTestSettles`): `Watch` says that on a connection
  never lost each order a running test waits for has its decrement or its reply
  in a queue, that no test waits for no order, and that the field for the number of
  orders is disabled only while a test runs or the end of one is posted. Two
  overlapping tests wait for different orders, since orders are numbered by those
  placed.
- `QueueCounted` (`QueueCountsOrders`): `Books` is an equation, the length of the
  order queue and the orders still to be recorded against the orders that got an
  item and the placeholders still to be popped. It needs that each order has at
  most one credit (a favourable reply, then the record) in all queues together,
  and that in every request queue each placeholder has the pop right behind it.
  The pop that follows a placeholder may find the record of another order on top
  and remove that, and the placeholder stays: the equation counts entries, not
  whose they are.
- `CounterRestored` (`FlashHasCounter`): `Repairs` says that while the sale is
  stored and a flash product has no counter some desktop is covering it: it is
  disconnected, has a refresh due, or has a link of a loading chain, or a write of
  the counter, in one of its queues. The links are the requests (`Probes`), from
  the list of sales on, and the replies whose content carries the chain on
  (`Hints`): a sale, a title, a list that is not empty, a flash entry that is
  there, a counter that is not. What keeps it true while others write is that every
  desktop is `Armed`: in its queue a write that stores the sale or puts the product
  on sale is followed by one that sets the counter (`Exposes`), a write that drops
  the counter is followed by a load or has a refresh due, and as long as nothing
  was ever seeded the desktop is about to seed. Nothing removes a sale: a load
  that found none read before there was one, and what stores it later sets the
  counter after it. `Tends` is the
  one shape of what a step of a desktop sends. The theorem says nothing of a
  database without the sale, which a seeding cut short leaves for good.

**Database_proofs, the keyspace.** `DeadlineHasKey` and `TypeOK` are inductive together;
every command is an instance of five shapes of change (put, erase, move, settle
or nothing), and a lemma per shape carries the proof. `QueriesAgree` follows
from what a query leaves behind. Three action properties follow from the type
invariant and, for the first, from the consistency of the pair:
`CollectionUnseen`, `NoResurrection` and `TypeKept`. For the last two the steps
are those of one key (`ExpiredWrite`, `VisibleWrite`), RENAME, and deletions,
which leave what is not gone as it was.

**Database_proofs, the sorted sets.** The invariant is `Built`: unless a link leads to a freed node,
the list is well made (`Struct`). On every level the header and the nodes that
reach it (`Tall`) are linked so that each leads to the next in the order by score
and member, and no two nodes agree in both; that a repeated insertion of both is
noticed is part of the proof. The walks, the update and the list are recursive functions over
the links. That they exist is shown by giving their values, and that they have no
others by the last node, or the lowest level, where they would differ. `Halts` says
where a walk comes to a halt whichever nodes it goes over, and so serves both the
insertion, whose nodes are the first ones (`Predecessors`), and the removal, whose
nodes are those of other members wherever they stand.

`Pos` counts the nodes up to one; it numbers them in their order, and the lowest
links follow it, so that the list and the sorted reference are the same sequence
(`ChainIsRow`, `SortedIsRow`). `SearchesFind` (`SearchSound`) is then arithmetic of
positions. For `RemovalsDangle` (`CleanRemoval`), a link is left exactly when on
some level the update is not the node before the target (`DanglesWhen`). If the
target is overtaken on a level it does not reach, the walk stands behind it from
there down to the lowest level, where it cannot be the node before; otherwise the
walk stands before it on every level, and next to it wherever it is linked.

**EventLoop_proofs.** `NoLostWakeup` is strengthened to `Wakeful`, which says for
every place of the thread, not only where it sleeps, that the next event is on
the ready list, in the events reported, or about to be seen by a `mod` that is
still to come. `NothingLost` is `NoReplyLost` with what is known once the peer
has reset. For the refinement, `SentInOrder` and `InputOrdered` say that the
requests in the parser and in the receive buffer carry increasing numbers, each
head followed by its tail, all above those executed. `PipeImplemented` maps
`Execute` to `Execute`, errors to `Reject`, the second fragment of a reply to
`Reply` and everything else to a stutter.

**Panels_proofs.** The three properties need three invariants over the same two
queues. `Shown`: the last load of the current type under way is for the current
key, and with none under way the page is that key's, so that an answer that
arrives late is followed by the right one. `Saved`: executing the requests one
after the other leads from what is stored to what is wanted, by a course of stores
with one request between two of them (`Leads`); a save adds to the end of the
course, an execution drops its beginning. As a value is written row by row, the
effect of a whole save is a lemma about the sequence of its requests
(`SetToSeq` lists each row of a finite set). The third, `Fresh`, is about the tree: the
messages of chains under way are those of the last refresh; while its KEYS or the
answer is under way there is no other and the tree is empty; after that the keys
asked for are those listed, and each is in the tree or has its EXISTS under way.

**ServerManager_proofs.** `StartedOnce` needs to know which servers were
announced, hence `Fresh`: there is a port exactly while the end of the process has
not been handled, and its server was not announced unless `emitted` says so. The
slots of the window are lemmas, and stop and the end of the process share one
(`StopEffect`).

**IdleTimer_proofs.** The loops need induction on the number of turns. The library's
induction rule has an operator parameter; `NaturalSteps` says the same of a set
and is derived from the well-foundedness of inclusion on finite sets. With it
`Iterates` and `Loop` show that the function a loop is written as exists, and that
it stays in a set that its turn does not leave. Those sets are `Orders`, the timers
with the same nodes, the same map domain and every node at its indexed position,
which both sift loops keep, and `Ticks`, which the loop of `tick` keeps although it
swaps a node whose descriptor it has just erased. `RemoveDoes` and `RefreshDoes`
then speak of whatever node stands at the position. The invariant adds two facts
to the properties: each node runs out no earlier than its connection is due
(`Deadlines`), which survives a refresh of another connection's node because no
connection is due later than the idle time from now; and until the first time-out
the nodes are those of the open connections (`Exact`).

Only model-checked: the liveness properties
(`CallbackResolved`, `OrderSettled`, `ReplyArrives`, `ConnectionReleased`,
`RequestServed`, `AutoConnects`, `ExpiredCollected`), which are beyond the prover,
and the violations.

## 5. What is not modelled

- The display: layout, texts, logging, the console's history and completion, and
  the statistics dashboard, a timer that asks for INFO. The unused queue template.
- The two parsers, `resp_decode` and `RespParser`, inside one value: they are
  loops over characters. What their callers can tell apart, complete, incomplete
  or malformed, and what is left in the buffer, is in `RedisClient` and
  `EventLoop`.
- `FlashAdmin` has one product and at most one sale. Of the counter of no sale
  (business_panel.cpp:222) it keeps only that it is never positive; that an order
  which names it is refused although items are left is in the model and goes
  against no property, since `SoldOutBeforeRefusal` is stated of `FlashSale`.
- The end of the server by a count or a length that is no number (resp_parser.cpp:102
  and 116), as an event of `EventLoop`; `Keyspace` has the end of the process, of
  whatever cause.
- In `KeyBrowser` the filter, which hides items, and Set TTL, a single EXPIRE,
  whose effect is in `Keyspace`. The CSV import of README.md:106 is not in the
  sources.
- In `Database` the contents of values, the 32 bits of the replies to INCRBY
  against the 64 stored, and writing the log, which nothing reads back.
- Arity errors and the formatting of replies.

What would add most next: several products and sales in `FlashAdmin`, and a property of the
sales rank, whose read, increment and write by the desktop (business_panel.cpp:535)
are in `FlashSale` without one.
