------------------------------- MODULE Panels -------------------------------
(***************************************************************************)
(* The tree of keys (src/src/key_browser.cpp) and the editor of one key    *)
(* (value_viewer.cpp) of one desktop, over its connection, while other     *)
(* clients change the keys.                                                *)
(*                                                                         *)
(* A refresh clears the tree and starts a chain of commands per key: KEYS, *)
(* EXISTS for a product, TYPE, and one or two reads for the text of the    *)
(* item.  The callbacks hold pointers to the categories and to the item;   *)
(* here an item or category is known by the refresh that made it.  One     *)
(* made by an earlier refresh is freed memory: using it makes stale TRUE   *)
(* and ends the behaviour.                                                 *)
(*                                                                         *)
(* A value is a type and a set of rows.  The editors and saves come in     *)
(* three kinds: a string, written by one SET; a list, or a set, written by *)
(* DEL and one push of all rows; a hash, or a sorted set, written by DEL   *)
(* and one write per row.  SELECT, TTL and the texts have no effect here.  *)
(*                                                                         *)
(* The bundled server has no TYPE and answers it with an error.  The panel *)
(* may be connected to a server that has it (MainWindow::onConnect), taken *)
(* to answer all else as the bundled one does.                             *)
(***************************************************************************)
EXTENDS Integers, FiniteSets, SequencesExt

CONSTANTS Keys,
          Products,  \* the keys product:P
          Rows,      \* what a value is made of
          Initial,   \* the values at first
          Others,    \* the values other clients write, None to delete
          MaxJobs,   \* bound: what the user and other clients do, connections lost
          None       \* no key, no value

Types == {"string", "list", "hash"}

Values == [type : Types, rows : SUBSET Rows]

ASSUME ConstantsAssumption ==
  /\ IsFiniteSet(Keys) /\ IsFiniteSet(Rows) /\ Products \subseteq Keys
  /\ None \notin Keys /\ None \notin Values
  /\ Initial \in [Keys -> Values \union {None}]
  /\ Others \subseteq Values \union {None}
  /\ MaxJobs \in Nat

VARIABLES
  hasType,  \* the server has the command TYPE
  store,    \* the keys of the server
  open,     \* the connection is up
  req, rep, \* requests not yet executed, replies not yet handled
  gen,      \* refreshes so far: the tree's items belong to the last
  tree,     \* the type each key's item has, "unknown" without an answer to
            \* TYPE; "absent" without an item
  loaded,   \* m_loadedKeys
  menu,     \* the context menu open: its key and its item's refresh, or None
  cur, curType, \* m_currentKey, m_currentType
  pages,    \* for each kind of editor the key it was filled for, and its rows
  stale,    \* freed memory was used
  listed, overlapped, want, raced, lost, jobs
            \* history: the keys the last KEYS found; a refresh while one was
            \* under way or a menu was left open; what the keys should hold; another
            \* client wrote while writes were in flight; a connection was lost;
            \* the operations asked for

network == <<open, req, rep>>
browser == <<gen, tree, loaded, menu, stale, overlapped>>
viewer == <<cur, curType, pages>>
history == <<listed, want, raced, lost>>
vars == <<hasType, store, network, browser, viewer, history, jobs>>

Existing == {k \in Keys : store[k] # None}

\* What a key holds once it was written so: an empty collection is not written.
Stored(type, rows) == IF rows = {} /\ type # "string" THEN None ELSE [type |-> type, rows |-> rows]

Init ==
  /\ hasType \in BOOLEAN
  /\ store = Initial /\ want = Initial
  /\ open = FALSE /\ req = <<>> /\ rep = <<>>
  /\ gen = 0 /\ tree = [k \in Keys |-> "absent"] /\ loaded = {} /\ menu = None
  /\ cur = None /\ curType = "string"
  /\ pages = [t \in Types |-> [of |-> None, rows |-> {}]]
  /\ stale = FALSE /\ overlapped = FALSE
  /\ listed = {} /\ raced = FALSE /\ lost = FALSE /\ jobs = 0

Job == jobs < MaxJobs /\ jobs' = jobs + 1

-----------------------------------------------------------------------------
(* The connection.                                                         *)

\* What is sent while disconnected is gone.
Send(msgs) == req' = IF open THEN req \o msgs ELSE req

\* MainWindow::onClientConnected asks first whether the data are there.
Connect ==
  /\ ~open /\ req = <<>>
  /\ open' = TRUE
  /\ req' = <<[cmd |-> "SENTINEL"]>>
  /\ UNCHANGED <<store, rep, browser, viewer, history, jobs>>

\* Mutant: the viewer goes on showing the key.
LoseKeepsKey ==
  /\ open
  /\ Job
  /\ open' = FALSE /\ lost' = TRUE
  /\ rep' = <<>>
  /\ \E n \in 0..Len(req) : req' = SubSeq(req, 1, n)
  /\ UNCHANGED <<store, browser, viewer, listed, want, raced>>

\* The callbacks are dropped and the viewer cleared, but for its pages; the
\* server executes what it has read, if anything.
Lose ==
  /\ open
  /\ Job
  /\ open' = FALSE /\ lost' = TRUE
  /\ rep' = <<>>
  /\ \E n \in 0..Len(req) : req' = SubSeq(req, 1, n)
  /\ cur' = None
  /\ UNCHANGED <<store, browser, curType, pages, listed, want, raced>>

Handle(cmd) ==
  /\ rep # <<>>
  /\ Head(rep).cmd = cmd
  /\ rep' = Tail(rep)
  /\ UNCHANGED <<store, open, history, jobs>>

-----------------------------------------------------------------------------
(* The tree.                                                               *)

Chain == {"KEYS", "EXISTS", "TYPE", "TEXT"}

InFlight(cmds) == \E q \in {req, rep} : \E i \in DOMAIN q : q[i].cmd \in cmds

\* Mutant: the keys met before are not forgotten.
RefreshKeepsLoaded ==
  /\ gen' = gen + 1
  /\ tree' = [k \in Keys |-> "absent"]
  /\ loaded' = loaded
  /\ overlapped' = (overlapped \/ (open /\ InFlight(Chain)) \/ menu' # None)
  /\ UNCHANGED stale

\* KeyBrowser::refresh: everything is cleared; SELECT and KEYS * follow.
Refresh ==
  /\ gen' = gen + 1
  /\ tree' = [k \in Keys |-> "absent"]
  /\ loaded' = {}
  /\ overlapped' = (overlapped \/ (open /\ InFlight(Chain)) \/ menu' # None)
  /\ UNCHANGED stale

AskKeys == <<[cmd |-> "KEYS", gen |-> gen + 1]>>

\* The button, F5, or BusinessPanel's dataChanged after an order.
RefreshAsked ==
  /\ Job
  /\ UNCHANGED <<store, open, rep, menu, viewer, history>>
  /\ Refresh
  /\ Send(AskKeys)

OnSentinel ==
  /\ Handle("SENTINEL")
  /\ UNCHANGED <<menu, viewer>>
  /\ Refresh
  /\ Send(AskKeys)

Ask(cmd, k, g) == [cmd |-> cmd, key |-> k, gen |-> g, more |-> k \in Products]

\* A key not met since the tree was cleared gets an item, a product after EXISTS.
OnKeys ==
  /\ Handle("KEYS")
  /\ LET g == Head(rep).gen
         new == Head(rep).keys \ loaded
         plain == new \ Products
     IN  /\ loaded' = loaded \union new
         /\ stale' = (g # gen /\ plain # {})
         /\ tree' = [k \in Keys |-> IF k \in plain THEN "unknown" ELSE tree[k]]
         /\ Send([i \in 1..Cardinality(new) |->
                    LET k == SetToSeq(new)[i]
                    IN  Ask(IF k \in Products THEN "EXISTS" ELSE "TYPE", k, g)])
  /\ UNCHANGED <<gen, menu, overlapped, viewer>>

\* The rest of a chain uses what the refresh has made.
Use(item) ==
  /\ stale' = (Head(rep).gen # gen)
  /\ tree' = [tree EXCEPT ![Head(rep).key] = item]
  /\ UNCHANGED <<gen, loaded, menu, overlapped, viewer>>

OnExists ==
  /\ Handle("EXISTS")
  /\ Use("unknown")
  /\ Send(<<Ask("TYPE", Head(rep).key, Head(rep).gen)>>)

\* An error leaves the item as it is.
OnType ==
  /\ Handle("TYPE")
  /\ Use(Head(rep).type)
  /\ Send(<<Ask("TEXT", Head(rep).key, Head(rep).gen)>>)

\* The name of a product first, which goes into the text with the stock.
OnText ==
  /\ Handle("TEXT")
  /\ IF Head(rep).more
     THEN /\ Send(<<[Head(rep) EXCEPT !.more = FALSE]>>)
          /\ UNCHANGED <<browser, viewer>>
     ELSE /\ Use(tree[Head(rep).key])
          /\ UNCHANGED req

-----------------------------------------------------------------------------
(* The viewer.                                                             *)

\* ValueViewer::loadKey; a key that is gone has no editor.
LoadKey(k, type) ==
  /\ IF open
     THEN /\ cur' = k /\ curType' = type
          /\ Send(IF type \in Types THEN <<[cmd |-> "LOAD", key |-> k, type |-> type]>> ELSE <<>>)
     ELSE UNCHANGED <<cur, curType, req>>
  /\ UNCHANGED pages

\* An item without a type is taken for a string.
ItemType(k) == IF tree[k] = "unknown" THEN "string" ELSE tree[k]

OnItemClicked(k) ==
  /\ open /\ menu = None
  /\ tree[k] # "absent"
  /\ Job
  /\ LoadKey(k, ItemType(k))
  /\ UNCHANGED <<store, open, rep, browser, history>>

ReloadKey ==
  /\ cur # None /\ menu = None
  /\ Job
  /\ LoadKey(cur, curType)
  /\ UNCHANGED <<store, open, rep, browser, history>>

\* The editor of that kind is filled, whatever is the current key by now.
OnLoad ==
  /\ Handle("LOAD")
  /\ pages' = [pages EXCEPT ![Head(rep).type] = [of |-> Head(rep).key, rows |-> Head(rep).rows]]
  /\ UNCHANGED <<req, browser, cur, curType>>

Edit(rows) ==
  /\ cur # None /\ curType \in Types /\ menu = None
  /\ rows # pages[curType].rows
  /\ Job
  /\ pages' = [pages EXCEPT ![curType].rows = rows]
  /\ UNCHANGED <<store, network, browser, cur, curType, history>>

Write(cmd, k, type, rows) == [cmd |-> cmd, key |-> k, type |-> type, rows |-> rows]

\* Mutant: the old rows are not deleted first.
SavingAdds(k, type, rows) ==
  CASE type = "string" -> <<Write("SET", k, type, rows)>>
    [] type = "list" -> IF rows = {} THEN <<>> ELSE <<Write("ADD", k, type, rows)>>
    [] type = "hash" -> [i \in 1..Cardinality(rows) |-> Write("ADD", k, type, {SetToSeq(rows)[i]})]

Saving(k, type, rows) ==
  CASE type = "string" -> <<Write("SET", k, type, rows)>>
    [] type = "list" -> <<Write("DEL", k, type, {})>> \o
                        IF rows = {} THEN <<>> ELSE <<Write("ADD", k, type, rows)>>
    [] type = "hash" -> <<Write("DEL", k, type, {})>> \o
                        [i \in 1..Cardinality(rows) |->
                           Write("ADD", k, type, {SetToSeq(rows)[i]})]

Save ==
  /\ open /\ cur # None /\ curType \in Types /\ menu = None
  /\ Job
  /\ LET rows == pages[curType].rows
     IN  /\ Send(Saving(cur, curType, rows))
         /\ want' = [want EXCEPT ![cur] = Stored(curType, rows)]
  /\ UNCHANGED <<store, open, rep, browser, viewer, listed, raced, lost>>

OnDeleteKey ==
  /\ open /\ cur # None /\ menu = None
  /\ Job
  /\ Send(<<Write("DEL", cur, "string", {})>>)
  /\ want' = [want EXCEPT ![cur] = None]
  /\ cur' = None
  /\ UNCHANGED <<store, open, rep, browser, curType, pages, listed, raced, lost>>

-----------------------------------------------------------------------------
(* The context menu: the event loop runs on while it is open.              *)

OnContextMenu(k) ==
  /\ open /\ menu = None
  /\ tree[k] # "absent"
  /\ Job
  /\ menu' = [key |-> k, gen |-> gen]
  /\ UNCHANGED <<store, network, gen, tree, loaded, stale, overlapped, viewer, history>>

\* Open goes back to the item.
MenuOpen ==
  /\ menu # None
  /\ menu' = None
  /\ stale' = (menu.gen # gen)
  /\ LoadKey(menu.key, ItemType(menu.key))
  /\ UNCHANGED <<store, open, rep, gen, tree, loaded, overlapped, history, jobs>>

MenuDelete ==
  /\ menu # None
  /\ menu' = None
  /\ Refresh
  /\ Send(<<Write("DEL", menu.key, "string", {})>> \o AskKeys)
  /\ want' = IF open THEN [want EXCEPT ![menu.key] = None] ELSE want
  /\ UNCHANGED <<store, open, rep, viewer, listed, raced, lost, jobs>>

\* The server refuses to rename a key that does not exist.
Renamed(values, k, to) ==
  IF values[k] = None THEN values ELSE [values EXCEPT ![k] = None, ![to] = values[k]]

MenuRename(to) ==
  /\ menu # None /\ to # menu.key
  /\ menu' = None
  /\ Refresh
  /\ Send(<<[cmd |-> "RENAME", key |-> menu.key, to |-> to]>> \o AskKeys)
  /\ want' = IF open THEN Renamed(want, menu.key, to) ELSE want
  /\ UNCHANGED <<store, open, rep, viewer, listed, raced, lost, jobs>>

MenuClosed ==
  /\ menu # None
  /\ menu' = None
  /\ UNCHANGED <<store, network, gen, tree, loaded, stale, overlapped, viewer, history, jobs>>

-----------------------------------------------------------------------------
(* The server, and the other clients.                                      *)

Writes == {"SET", "DEL", "ADD", "RENAME"}

Query(cmd) ==
  /\ req # <<>>
  /\ Head(req).cmd = cmd
  /\ req' = Tail(req)
  /\ UNCHANGED <<store, open, browser, viewer, want, raced, lost, jobs>>

Answer(reply) == rep' = IF open THEN Append(rep, reply) ELSE rep

ServeSame ==
  /\ \E cmd \in {"SENTINEL", "EXISTS", "TEXT"} : Query(cmd)
  /\ Answer(Head(req))
  /\ UNCHANGED listed

ServeKeys ==
  /\ Query("KEYS")
  /\ Answer([cmd |-> "KEYS", gen |-> Head(req).gen, keys |-> Existing])
  /\ listed' = Existing

ServeType ==
  /\ Query("TYPE")
  /\ LET k == Head(req).key
     IN  Answer([cmd |-> "TYPE", key |-> k, gen |-> Head(req).gen,
                 type |-> IF ~hasType THEN "unknown"
                          ELSE IF store[k] = None THEN "none" ELSE store[k].type])
  /\ UNCHANGED listed

\* The read of a missing key, or of one of another type, finds nothing.
ServeLoad ==
  /\ Query("LOAD")
  /\ LET v == store[Head(req).key]
     IN  Answer([cmd |-> "LOAD", key |-> Head(req).key, type |-> Head(req).type,
                 rows |-> IF v # None /\ v.type = Head(req).type THEN v.rows ELSE {}])
  /\ UNCHANGED listed

\* A row added to a key of another type is refused.
Executed(m) ==
  CASE m.cmd = "SET" -> [store EXCEPT ![m.key] = [type |-> "string", rows |-> m.rows]]
    [] m.cmd = "DEL" -> [store EXCEPT ![m.key] = None]
    [] m.cmd = "RENAME" -> Renamed(store, m.key, m.to)
    [] m.cmd = "ADD" ->
         LET v == store[m.key]
         IN  IF v = None THEN [store EXCEPT ![m.key] = [type |-> m.type, rows |-> m.rows]]
             ELSE IF v.type = m.type THEN [store EXCEPT ![m.key].rows = @ \union m.rows]
             ELSE store

ServeWrite ==
  /\ req # <<>>
  /\ Head(req).cmd \in Writes
  /\ req' = Tail(req)
  /\ store' = Executed(Head(req))
  /\ UNCHANGED <<open, rep, browser, viewer, history, jobs>>

OtherClient(k, v) ==
  /\ v # store[k]
  /\ Job
  /\ store' = [store EXCEPT ![k] = v]
  /\ want' = [want EXCEPT ![k] = v]
  /\ raced' = (raced \/ InFlight(Writes))
  /\ UNCHANGED <<network, browser, viewer, listed, lost>>

-----------------------------------------------------------------------------
Callback == OnSentinel \/ OnKeys \/ OnExists \/ OnType \/ OnText \/ OnLoad

Serve == ServeSame \/ ServeKeys \/ ServeType \/ ServeLoad \/ ServeWrite

User ==
  \/ RefreshAsked \/ ReloadKey \/ Save \/ OnDeleteKey
  \/ \E k \in Keys : OnItemClicked(k) \/ OnContextMenu(k) \/ MenuRename(k)
  \/ \E rows \in SUBSET Rows : Edit(rows)
  \/ MenuOpen \/ MenuDelete \/ MenuClosed

Next ==
  /\ ~stale /\ UNCHANGED hasType
  /\ \/ Connect \/ Lose \/ User \/ Callback \/ Serve
     \/ \E k \in Keys, v \in Others : OtherClient(k, v)

Spec == Init /\ [][Next]_vars

-----------------------------------------------------------------------------
(* Properties.                                                             *)

Settled == open /\ req = <<>> /\ rep = <<>>

\* Unless a refresh came while an earlier one was under way or left a menu open,
\* no callback uses an item that was freed, and when all is answered the tree
\* has the keys the last KEYS found, no more and no less, over disconnects and
\* reconnects.
TreeIsListed ==
  ~overlapped =>
    /\ ~stale
    /\ Settled /\ gen > 0 => {k \in Keys : tree[k] # "absent"} = listed

\* Once every load is answered the page of the current type is that of the
\* current key: a save then writes under a key what was read from it.
ShownIsOwn ==
  cur # None /\ curType \in Types /\ ~InFlight({"LOAD"}) => pages[curType].of = cur

\* When nothing is in flight the keys hold what the editor showed when it was
\* saved: the rows removed are gone and the others there.  A lost connection may
\* lose the writes after the DEL.
SavedIsStored == Settled /\ ~lost /\ ~raced => store = want

\* As README.md:197 has it, the viewer edits values of several types: what it
\* saves under a key that exists has the type of the value that was there.
SaveKeepsType ==
  [][ServeWrite /\ Head(req).cmd = "SET"
       => LET old == store[Head(req).key] IN old = None \/ old.type = "string"]_vars
=============================================================================
