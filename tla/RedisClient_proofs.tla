------------------------ MODULE RedisClient_proofs ------------------------
(***************************************************************************)
(* Proofs about RedisClient for every bound: the type invariant, the       *)
(* routing of responses to callbacks, and their order.                     *)
(***************************************************************************)
EXTENDS RedisClient, SequenceTheorems, TLAPS

\* Without a connection every queue is empty; no leftover of an earlier
\* connection can be taken for something of the next one.
Clean ==
  sock \in {"unconnected", "connecting"}
    => toServer = <<>> /\ toClient = <<>> /\ buffer = <<>> /\ callbacks = <<>>

\* Every registered callback has its response, two fragments long, in the
\* buffer, on the way or still to be produced; and nothing else is there.
Counted ==
  sock = "connected" \/ callbacks # <<>>
    => 2 * Len(callbacks) = Len(buffer) + Len(toClient) + 2 * Len(toServer)

\* The queues are the same numbers in the same order: the callbacks are
\* consecutive, the unanswered requests are those of the newest callbacks, and
\* a fragment's position in the stream is 2 * no + part.
Aligned ==
  callbacks # <<>> =>
    LET first == callbacks[1].no
    IN  /\ \A i \in 1..Len(callbacks) : callbacks[i].no = first + i - 1
        /\ \A i \in 1..Len(toServer) :
             toServer[i] = first + Len(callbacks) - Len(toServer) + i - 1
        /\ \A i \in 1..Len(buffer) : 2 * buffer[i].no + buffer[i].part = 2 * first + i
        /\ \A i \in 1..Len(toClient) :
             2 * toClient[i].no + toClient[i].part = 2 * first + Len(buffer) + i

\* The newest callback is that of the newest command while more can be sent.
Newest ==
  /\ \A i \in 1..Len(callbacks) : callbacks[i].no <= sent
  /\ sock = "connected" /\ callbacks # <<>> => callbacks[Len(callbacks)].no = sent

\* A command whose callback ran is no longer waiting, and the ones answered
\* are older than the ones waiting.
Past ==
  \A i \in 1..Len(log) :
    /\ log[i].no <= sent
    /\ \A j \in 1..Len(callbacks) :
         /\ log[i].no # callbacks[j].no
         /\ log[i].head # NIL => log[i].no < callbacks[j].no

IInv == TypeOK /\ Clean /\ Counted /\ Aligned /\ Newest /\ Past /\ OwnResponse /\ IssueOrder

-----------------------------------------------------------------------------
USE DEF NIL

\* A queue keeps its type when one element joins it, or none.
LEMMA AppendCase ==
  ASSUME NEW S, NEW s \in Seq(S), NEW e \in S, NEW t, t = s \/ t = Append(s, e)
  PROVE  t \in Seq(S)
  BY AppendProperties

LEMMA InitIInv == Init => IInv
<1> SUFFICES ASSUME Init PROVE IInv
  OBVIOUS
<1> USE BoundsAssumption DEF Init
<1>1. pendingClose \in BOOLEAN /\ parsing \in BOOLEAN
  OBVIOUS
<1>2. /\ sock \in SocketStates /\ toServer \in Seq(Numbers)
      /\ toClient \in Seq(Fragments) /\ buffer \in Seq(Fragments)
      /\ callbacks \in Seq(Callbacks) /\ log \in Seq(Calls)
      /\ sent \in 0..MaxCommands /\ connects \in 0..MaxConnects /\ bad \in 0..MaxBad
      /\ shown \in SUBSET Numbers
  BY DEF SocketStates
<1>3. Clean /\ Counted /\ Aligned /\ Newest
  BY DEF Clean, Counted, Aligned, Newest
<1>4. Past /\ OwnResponse /\ IssueOrder
  BY DEF Past, OwnResponse, IssueOrder
<1> QED
  BY <1>1, <1>2, <1>3, <1>4 DEF IInv, TypeOK

\* The type invariant is inductive by itself; its flags and its data need
\* different provers.
TypeFlags == pendingClose \in BOOLEAN /\ parsing \in BOOLEAN

TypeData ==
  /\ sock \in SocketStates
  /\ toServer \in Seq(Numbers)
  /\ toClient \in Seq(Fragments)
  /\ buffer \in Seq(Fragments)
  /\ callbacks \in Seq(Callbacks)
  /\ sent \in 0..MaxCommands
  /\ connects \in 0..MaxConnects
  /\ bad \in 0..MaxBad
  /\ log \in Seq(Calls)
  /\ shown \in SUBSET Numbers

LEMMA TypeSplit == TypeOK <=> TypeFlags /\ TypeData
  BY Zenon DEF TypeOK, TypeFlags, TypeData

LEMMA FlagsStep == TypeFlags /\ [Next]_vars => TypeFlags'
  BY Zenon DEF TypeFlags, Next, vars, ConnectToHost, DisconnectFromHost, SendCommand,
     OnConnected, ConnectFailed, DelayedClose, OnDisconnected, OnReadyRead, Deliver,
     LeaveParser, Serve

LEMMA DataStep == TypeData /\ [Next]_vars => TypeData'
<1> SUFFICES ASSUME TypeData, [Next]_vars PROVE TypeData'
  OBVIOUS
<1> USE BoundsAssumption DEF TypeData, wire, bounds
<1>1. ASSUME ConnectToHost PROVE TypeData'
  BY <1>1 DEF ConnectToHost, SocketStates
<1>2. ASSUME DisconnectFromHost PROVE TypeData'
  <2>1. sock' \in SocketStates
    BY <1>2 DEF DisconnectFromHost, SocketStates
  <2>2. /\ toServer' = toServer \/ toServer' = <<>>
        /\ toClient' = toClient \/ toClient' = <<>>
        /\ buffer' = buffer \/ buffer' = <<>>
        /\ callbacks' = <<>>
        /\ UNCHANGED <<sent, connects, bad, log, shown>>
    BY <1>2, Zenon DEF DisconnectFromHost
  <2> QED
    BY <2>1, <2>2, EmptySeq
<1>3. ASSUME NEW cb \in BOOLEAN, SendCommand(cb) PROVE TypeData'
  <2>1. sent' \in Numbers /\ sent' \in 0..MaxCommands
    BY <1>3 DEF SendCommand, Numbers
  <2>2. toServer' \in Seq(Numbers)
    <3>1. toServer' = toServer \/ toServer' = Append(toServer, sent')
      BY <1>3, Zenon DEF SendCommand
    <3> QED
      BY <2>1, <3>1, AppendCase
  <2> DEFINE entry == [no |-> sent', cb |-> cb]
             nil == [no |-> sent', head |-> NIL, tail |-> NIL]
  <2>3. entry \in Callbacks
    BY <2>1 DEF Callbacks
  <2>4. callbacks' \in Seq(Callbacks)
    <3>1. callbacks' = callbacks \/ callbacks' = Append(callbacks, entry)
      BY <1>3, Zenon DEF SendCommand
    <3> HIDE DEF entry
    <3> QED
      BY <2>3, <3>1, AppendCase
  <2>5. log' \in Seq(Calls)
    <3>1. log' = log \/ log' = Append(log, nil)
      BY <1>3, Zenon DEF SendCommand
    <3>2. nil \in Calls
      BY <2>1 DEF Calls
    <3> HIDE DEF nil
    <3> QED
      BY <3>1, <3>2, AppendCase
  <2> QED
    BY <1>3, <2>1, <2>2, <2>4, <2>5 DEF SendCommand
<1>4. ASSUME OnConnected PROVE TypeData'
  BY <1>4 DEF OnConnected, SocketStates
<1>5. ASSUME ConnectFailed PROVE TypeData'
  BY <1>5 DEF ConnectFailed, SocketStates
<1>6. ASSUME DelayedClose PROVE TypeData'
  BY <1>6 DEF DelayedClose, SocketStates
<1>7. ASSUME OnDisconnected PROVE TypeData'
  BY <1>7 DEF OnDisconnected, SocketStates
<1>8. ASSUME OnReadyRead PROVE TypeData'
  BY <1>8 DEF OnReadyRead
<1>9. ASSUME Deliver PROVE TypeData'
  <2>1. buffer[1] \in Fragments /\ buffer[2] \in Fragments
    BY <1>9 DEF Deliver, Decodable
  <2>2. buffer[1].no \in Numbers /\ buffer[2].no \in Numbers
    BY <2>1 DEF Fragments
  <2>3. buffer' \in Seq(Fragments)
    BY <1>9 DEF Deliver, Decodable
  <2>4. callbacks' \in Seq(Callbacks)
    BY <1>9 DEF Deliver
  <2>5. CASE callbacks # <<>> /\ callbacks[1].cb
    <3> DEFINE call == [no |-> callbacks[1].no, head |-> buffer[1].no, tail |-> buffer[2].no]
    <3>1. callbacks[1] \in Callbacks
      BY <2>5
    <3>2. callbacks[1].no \in Numbers
      BY <3>1 DEF Callbacks
    <3>3. call \in Calls
      BY <2>2, <3>2 DEF Calls, Numbers
    <3>4. log' = Append(log, call) /\ shown' = shown
      BY <1>9, <2>5, Zenon DEF Deliver
    <3> HIDE DEF call
    <3> QED
      BY <1>9, <2>3, <2>4, <3>3, <3>4, AppendProperties DEF Deliver
  <2>6. CASE ~(callbacks # <<>> /\ callbacks[1].cb)
    <3>1. log' = log /\ shown' = shown \union {buffer[1].no}
      BY <1>9, <2>6, Zenon DEF Deliver
    <3> QED
      BY <1>9, <2>2, <2>3, <2>4, <3>1 DEF Deliver
  <2> QED
    BY <2>5, <2>6
<1>10. ASSUME LeaveParser PROVE TypeData'
  BY <1>10 DEF LeaveParser
<1>11. ASSUME NEW ok \in BOOLEAN, Serve(ok) PROVE TypeData'
  <2>1. toServer[1] \in Numbers /\ toServer' \in Seq(Numbers)
    BY <1>11 DEF Serve
  <2>2. Answer(toServer[1], ok) \in Seq(Fragments)
    BY <2>1 DEF Answer, Fragments
  <2>3. toClient' \in Seq(Fragments)
    BY <1>11, <2>2 DEF Serve
  <2>4. bad' \in 0..MaxBad
    BY <1>11 DEF Serve
  <2> QED
    BY <1>11, <2>1, <2>3, <2>4 DEF Serve
<1>12. CASE UNCHANGED vars
  BY <1>12 DEF vars
<1> QED
  BY <1>1, <1>2, <1>3, <1>4, <1>5, <1>6, <1>7, <1>8, <1>9, <1>10, <1>11, <1>12 DEF Next

LEMMA TypeStep == TypeOK /\ [Next]_vars => TypeOK'
<1>1. TypeOK' <=> TypeFlags' /\ TypeData'
  BY Zenon DEF TypeOK, TypeFlags, TypeData
<1> QED
  BY <1>1, TypeSplit, FlagsStep, DataStep

\* TypeOK holds throughout, for every value of the bounds.
THEOREM TypeCorrect == Spec => []TypeOK
<1>1. Init => TypeOK
  BY InitIInv DEF IInv
<1> QED
  BY <1>1, TypeStep, PTL DEF Spec

-----------------------------------------------------------------------------
\* The numbers inside the queues, for arithmetic.
LEMMA Elements ==
  ASSUME TypeOK
  PROVE  /\ Len(callbacks) \in Nat /\ Len(toServer) \in Nat /\ Len(buffer) \in Nat
         /\ Len(toClient) \in Nat /\ Len(log) \in Nat /\ sent \in Nat
         /\ \A i \in 1..Len(callbacks) : callbacks[i].no \in Nat
         /\ \A i \in 1..Len(log) : log[i].no \in Nat /\ log[i].head \in Nat
         /\ \A i \in 1..Len(toServer) : toServer[i] \in Nat
         /\ \A i \in 1..Len(buffer) :
              buffer[i].no \in Nat /\ buffer[i].part \in {1, 2}
         /\ \A i \in 1..Len(toClient) :
              toClient[i].no \in Nat /\ toClient[i].part \in {1, 2}
<1>1. /\ Len(callbacks) \in Nat /\ Len(toServer) \in Nat /\ Len(buffer) \in Nat
      /\ Len(toClient) \in Nat /\ Len(log) \in Nat /\ sent \in Nat
  BY DEF TypeOK
<1>2. \A i \in 1..Len(callbacks) : callbacks[i] \in Callbacks
  BY ElementOfSeq DEF TypeOK
<1>3. \A i \in 1..Len(log) : log[i] \in Calls
  BY ElementOfSeq DEF TypeOK
<1>4. \A i \in 1..Len(toServer) : toServer[i] \in Numbers
  BY ElementOfSeq DEF TypeOK
<1>5. \A i \in 1..Len(buffer) : buffer[i] \in Fragments
  BY ElementOfSeq DEF TypeOK
<1>6. \A i \in 1..Len(toClient) : toClient[i] \in Fragments
  BY ElementOfSeq DEF TypeOK
<1>7. /\ \A c \in Callbacks : c.no \in Nat
      /\ \A c \in Calls : c.no \in Nat /\ c.head \in Nat
      /\ \A f \in Fragments : f.no \in Nat /\ f.part \in {1, 2}
      /\ \A n \in Numbers : n \in Nat
  BY DEF Callbacks, Calls, Fragments, Numbers
<1> QED
  BY <1>1, <1>2, <1>3, <1>4, <1>5, <1>6, <1>7

\* What the steps that empty the FIFO have in common.
LEMMA EmptiedFifo ==
  ASSUME IInv, callbacks' = <<>>, sock' # "connected", UNCHANGED <<sent, log>>
  PROVE  Counted' /\ Aligned' /\ Newest' /\ Past' /\ OwnResponse' /\ IssueOrder'
  BY DEF IInv, TypeOK, Counted, Aligned, Newest, Past, OwnResponse, IssueOrder

\* What the steps have in common that touch no queue, do not connect, and do
\* not close with the queues occupied.
LEMMA QueuesKept ==
  ASSUME IInv, UNCHANGED <<toServer, toClient, buffer, callbacks, sent, log>>,
         sock' = "connected" => sock = "connected" \/ callbacks = <<>>,
         sock' = "connected" =>
           2 * Len(callbacks) = Len(buffer) + Len(toClient) + 2 * Len(toServer)
  PROVE  Counted' /\ Aligned' /\ Newest' /\ Past' /\ OwnResponse' /\ IssueOrder'
  BY DEF IInv, TypeOK, Counted, Aligned, Newest, Past, OwnResponse, IssueOrder

LEMMA ConnectToHostStep == IInv /\ ConnectToHost => IInv'
<1> SUFFICES ASSUME IInv, ConnectToHost PROVE IInv'
  OBVIOUS
<1>1. TypeOK'
  BY TypeStep DEF IInv, Next
<1>2. Clean'
  BY DEF IInv, TypeOK, SocketStates, Clean, ConnectToHost, wire
<1>3. Counted' /\ Aligned' /\ Newest' /\ Past' /\ OwnResponse' /\ IssueOrder'
  BY EmptiedFifo DEF ConnectToHost
<1> QED
  BY <1>1, <1>2, <1>3 DEF IInv

LEMMA DisconnectFromHostStep == IInv /\ DisconnectFromHost => IInv'
<1> SUFFICES ASSUME IInv, DisconnectFromHost PROVE IInv'
  OBVIOUS
<1>1. TypeOK'
  BY TypeStep DEF IInv, Next
<1>2. Clean'
  BY DEF IInv, TypeOK, SocketStates, Clean, DisconnectFromHost, wire
<1>3. Counted' /\ Aligned' /\ Newest' /\ Past' /\ OwnResponse' /\ IssueOrder'
  BY EmptiedFifo DEF DisconnectFromHost
<1> QED
  BY <1>1, <1>2, <1>3 DEF IInv

LEMMA OnDisconnectedStep == IInv /\ OnDisconnected => IInv'
<1> SUFFICES ASSUME IInv, OnDisconnected PROVE IInv'
  OBVIOUS
<1>1. TypeOK'
  BY TypeStep DEF IInv, Next
<1>2. Clean'
  BY DEF Clean, OnDisconnected
<1>3. Counted' /\ Aligned' /\ Newest' /\ Past' /\ OwnResponse' /\ IssueOrder'
  BY EmptiedFifo DEF OnDisconnected
<1> QED
  BY <1>1, <1>2, <1>3 DEF IInv

\* The steps that change the connection's state only.
LEMMA SocketStep ==
  IInv /\ (OnConnected \/ ConnectFailed \/ DelayedClose \/ LeaveParser) => IInv'
<1> SUFFICES ASSUME IInv, OnConnected \/ ConnectFailed \/ DelayedClose \/ LeaveParser
             PROVE  IInv'
  OBVIOUS
<1>1. TypeOK'
  BY TypeStep DEF IInv, Next
<1>2. Clean'
  BY DEF IInv, TypeOK, SocketStates, Clean, OnConnected, ConnectFailed, DelayedClose,
         LeaveParser, wire
<1>3. UNCHANGED <<toServer, toClient, buffer, callbacks, sent, log>>
  BY DEF OnConnected, ConnectFailed, DelayedClose, LeaveParser, wire
<1>4. sock' = "connected" => sock = "connected" \/ callbacks = <<>>
  BY DEF IInv, Clean, OnConnected, ConnectFailed, DelayedClose, LeaveParser
<1>5. sock' = "connected" =>
        2 * Len(callbacks) = Len(buffer) + Len(toClient) + 2 * Len(toServer)
  BY DEF IInv, Clean, Counted, OnConnected, ConnectFailed, DelayedClose, LeaveParser
<1>6. Counted' /\ Aligned' /\ Newest' /\ Past' /\ OwnResponse' /\ IssueOrder'
  BY <1>3, <1>4, <1>5, QueuesKept
<1> QED
  BY <1>1, <1>2, <1>6 DEF IInv

LEMMA SendCommandStep ==
  ASSUME IInv, NEW cb \in BOOLEAN, SendCommand(cb)
  PROVE  IInv'
<1>1. TypeOK'
  BY TypeStep DEF IInv, Next
<1>2. Clean'
  BY DEF IInv, Clean, SendCommand
<1>3. CASE sock = "connected"
  <2> DEFINE entry == [no |-> sent + 1, cb |-> cb]
  <2>1. /\ toServer' = Append(toServer, sent + 1) /\ callbacks' = Append(callbacks, entry)
        /\ sent' = sent + 1
        /\ UNCHANGED <<log, sock, toClient, buffer>>
    BY <1>3 DEF SendCommand
  <2>2. entry \in Callbacks /\ entry.no = sent + 1 /\ sent + 1 \in Numbers
    BY DEF IInv, TypeOK, Callbacks, Numbers
  <2> HIDE DEF entry
  <2>3. /\ Len(callbacks') = Len(callbacks) + 1
        /\ \A i \in 1..Len(callbacks) : callbacks'[i] = callbacks[i]
        /\ callbacks'[Len(callbacks) + 1] = entry
    BY <2>1, <2>2, AppendProperties DEF IInv, TypeOK
  <2>4. /\ Len(toServer') = Len(toServer) + 1
        /\ \A i \in 1..Len(toServer) : toServer'[i] = toServer[i]
        /\ toServer'[Len(toServer) + 1] = sent + 1
    BY <2>1, <2>2, AppendProperties DEF IInv, TypeOK
  <2>5. /\ Len(callbacks) \in Nat /\ Len(toServer) \in Nat
        /\ Len(buffer) \in Nat /\ Len(toClient) \in Nat /\ sent \in Nat
    BY DEF IInv, TypeOK
  <2>6. /\ \A i \in 1..Len(callbacks) : callbacks[i].no \in Nat
        /\ \A i \in 1..Len(log) : log[i].no \in Nat /\ log[i].head \in Nat
    BY Elements DEF IInv
  <2>7. Counted'
    BY <1>3, <2>1, <2>3, <2>4, <2>5 DEF IInv, Counted
  <2>8. Newest'
    BY <2>1, <2>2, <2>3, <2>5, <2>6 DEF IInv, Newest
  <2>9. 2 * Len(callbacks) = Len(buffer) + Len(toClient) + 2 * Len(toServer)
    BY <1>3 DEF IInv, Counted
  <2>10. Aligned'
    <3>1. CASE callbacks = <<>>
      <4>1. /\ Len(callbacks) = 0 /\ Len(buffer) = 0 /\ Len(toClient) = 0
            /\ Len(toServer) = 0
        BY <2>5, <2>9, <3>1
      <4> QED
        BY <2>1, <2>2, <2>3, <2>4, <2>5, <4>1 DEF Aligned
    <3>2. CASE callbacks # <<>>
      <4>1. Len(callbacks) > 0 /\ callbacks[Len(callbacks)].no = sent
        BY <1>3, <2>5, <3>2 DEF IInv, Newest, TypeOK
      <4>2. /\ \A i \in 1..Len(callbacks) : callbacks[i].no = callbacks[1].no + i - 1
            /\ \A i \in 1..Len(toServer) :
                 toServer[i] = callbacks[1].no + Len(callbacks) - Len(toServer) + i - 1
        BY <3>2 DEF IInv, Aligned
      <4>3. callbacks'[1] = callbacks[1] /\ callbacks[1].no \in Nat
        BY <2>3, <2>5, <2>6, <4>1
      <4>4. sent = callbacks[1].no + Len(callbacks) - 1
        BY <2>5, <4>1, <4>2
      <4>5. \A i \in 1..Len(callbacks') : callbacks'[i].no = callbacks[1].no + i - 1
        <5> TAKE i \in 1..Len(callbacks')
        <5>1. CASE i \in 1..Len(callbacks)
          BY <2>3, <4>2, <5>1
        <5>2. CASE i = Len(callbacks) + 1
          <6>1. callbacks'[i].no = sent + 1
            BY <2>2, <2>3, <5>2
          <6>2. sent + 1 = callbacks[1].no + i - 1
            BY <2>5, <4>3, <4>4, <5>2
          <6> QED
            BY <6>1, <6>2
        <5> QED
          BY <2>3, <2>5, <5>1, <5>2
      <4>6. \A i \in 1..Len(toServer') :
              toServer'[i] = callbacks[1].no + Len(callbacks') - Len(toServer') + i - 1
        <5> TAKE i \in 1..Len(toServer')
        <5>0. Len(callbacks') - Len(toServer') = Len(callbacks) - Len(toServer)
          BY <2>3, <2>4, <2>5
        <5>1. CASE i \in 1..Len(toServer)
          BY <2>3, <2>4, <2>5, <4>2, <4>3, <5>1
        <5>2. CASE i = Len(toServer) + 1
          <6>1. toServer'[i] = sent + 1
            BY <2>4, <5>2
          <6>2. sent + 1 = callbacks[1].no + Len(callbacks') - Len(toServer') + i - 1
            BY <2>3, <2>4, <2>5, <4>3, <4>4, <5>2
          <6> QED
            BY <6>1, <6>2
        <5> QED
          BY <2>4, <2>5, <5>1, <5>2
      <4> QED
        BY <2>1, <3>2, <4>3, <4>5, <4>6, SMTT(30) DEF IInv, Aligned
    <3> QED
      BY <3>1, <3>2
  <2>11. Past'
    BY <2>1, <2>2, <2>3, <2>5, <2>6 DEF IInv, Past
  <2>12. OwnResponse' /\ IssueOrder'
    BY <2>1 DEF IInv, OwnResponse, IssueOrder
  <2> QED
    BY <1>1, <1>2, <2>7, <2>8, <2>10, <2>11, <2>12 DEF IInv
<1>4. CASE sock # "connected"
  <2> DEFINE nil == [no |-> sent + 1, head |-> NIL, tail |-> NIL]
  <2>1. /\ log' = log \/ log' = Append(log, nil)
        /\ sent' = sent + 1
        /\ UNCHANGED <<sock, toServer, toClient, buffer, callbacks>>
    BY <1>4, Zenon DEF SendCommand
  <2>2. nil \in Calls /\ nil.no = sent + 1 /\ nil.head = NIL /\ nil.tail = NIL
    BY DEF IInv, TypeOK, Calls, Numbers
  <2> HIDE DEF nil
  <2>3. \A i \in 1..Len(log') : \/ i \in 1..Len(log) /\ log'[i] = log[i]
                                \/ i > Len(log) /\ i = Len(log') /\ log'[i] = nil
    <3>1. log \in Seq(Calls) /\ Len(log) \in Nat
      BY DEF IInv, TypeOK
    <3>2. CASE log' = log
      BY <3>2
    <3>3. CASE log' = Append(log, nil)
      <4>1. /\ Len(log') = Len(log) + 1 /\ log'[Len(log) + 1] = nil
            /\ \A i \in 1..Len(log) : log'[i] = log[i]
        BY <2>2, <3>1, <3>3, AppendProperties
      <4> QED
        BY <3>1, <4>1
    <3> QED
      BY <2>1, <3>2, <3>3
  <2>4. /\ sent \in Nat
        /\ \A i \in 1..Len(callbacks) : callbacks[i].no \in Nat
        /\ \A i \in 1..Len(log) : log[i].no \in Nat /\ log[i].head \in Nat
        /\ Len(log) \in Nat /\ Len(log') \in Nat
    BY <1>1, Elements, SMTT(30) DEF IInv, TypeOK
  <2>5. Counted' /\ Aligned'
    BY <1>4, <2>1 DEF IInv, Counted, Aligned
  <2>6. Newest'
    BY <1>4, <2>1, <2>4 DEF IInv, Newest
  <2>7. Past'
    BY <2>1, <2>2, <2>3, <2>4 DEF IInv, Past, Newest
  <2>8. OwnResponse'
    BY <2>2, <2>3 DEF IInv, OwnResponse
  <2>9. IssueOrder'
    BY <2>2, <2>3, <2>4, SMTT(30) DEF IInv, IssueOrder, Past
  <2> QED
    BY <1>1, <1>2, <2>5, <2>6, <2>7, <2>8, <2>9 DEF IInv
<1> QED
  BY <1>3, <1>4

LEMMA OnReadyReadStep == IInv /\ OnReadyRead => IInv'
<1> SUFFICES ASSUME IInv, OnReadyRead PROVE IInv'
  OBVIOUS
<1>1. TypeOK'
  BY TypeStep DEF IInv, Next
<1>2. PICK n \in 1..Len(toClient) :
         /\ buffer' = buffer \o SubSeq(toClient, 1, n)
         /\ toClient' = SubSeq(toClient, n + 1, Len(toClient))
  BY DEF OnReadyRead
<1>3. UNCHANGED <<sock, toServer, callbacks, sent, log>>
  BY DEF OnReadyRead
<1>4. /\ buffer \in Seq(Fragments) /\ toClient \in Seq(Fragments)
      /\ Len(buffer) \in Nat /\ Len(toClient) \in Nat
      /\ Len(toServer) \in Nat /\ Len(callbacks) \in Nat /\ n \in Nat
  BY DEF IInv, TypeOK
<1>5. /\ SubSeq(toClient, 1, n) \in Seq(Fragments)
      /\ Len(SubSeq(toClient, 1, n)) = n
      /\ \A i \in 1..n : SubSeq(toClient, 1, n)[i] = toClient[i]
  BY <1>4
<1>6. /\ Len(toClient') = Len(toClient) - n
      /\ \A i \in 1..Len(toClient') : toClient'[i] = toClient[n + i]
  BY <1>2, <1>4
<1>7. /\ Len(buffer') = Len(buffer) + n
      /\ \A i \in 1..Len(buffer') :
           buffer'[i] = IF i <= Len(buffer) THEN buffer[i] ELSE toClient[i - Len(buffer)]
  BY <1>2, <1>4, <1>5, ConcatProperties
<1>8. Clean'
  BY DEF Clean, OnReadyRead
<1>9. Counted'
  <2>1. Len(buffer') + Len(toClient') = Len(buffer) + Len(toClient)
    BY <1>4, <1>6, <1>7
  <2>2. /\ sock' = sock /\ callbacks' = callbacks /\ toServer' = toServer
        /\ Len(buffer') \in Nat /\ Len(toClient') \in Nat
    BY <1>1, <1>3 DEF TypeOK
  <2> QED
    BY <1>4, <2>1, <2>2 DEF IInv, Counted
<1>10. Aligned'
  <2>1. /\ \A i \in 1..Len(toClient) : toClient[i].no \in Nat /\ toClient[i].part \in Nat
        /\ \A i \in 1..Len(buffer) : buffer[i].no \in Nat /\ buffer[i].part \in Nat
        /\ \A i \in 1..Len(callbacks) : callbacks[i].no \in Nat
    BY Elements, \A p \in {1, 2} : p \in Nat DEF IInv
  <2> SUFFICES ASSUME callbacks # <<>>
               PROVE  Aligned'
    BY <1>3 DEF Aligned
  <2>2. callbacks[1].no \in Nat
    BY <1>4, <2>1 DEF IInv, TypeOK
  <2>3. \A i \in 1..Len(buffer') :
          2 * buffer'[i].no + buffer'[i].part = 2 * callbacks[1].no + i
    <3>1. /\ \A i \in 1..Len(buffer) :
               2 * buffer[i].no + buffer[i].part = 2 * callbacks[1].no + i
          /\ \A i \in 1..Len(toClient) :
               2 * toClient[i].no + toClient[i].part = 2 * callbacks[1].no + Len(buffer) + i
      BY DEF IInv, Aligned
    <3> TAKE i \in 1..Len(buffer')
    <3>2. CASE i <= Len(buffer)
      BY <1>4, <1>7, <3>1, <3>2
    <3>3. CASE i > Len(buffer)
      <4> DEFINE k == i - Len(buffer)
      <4>1. k \in 1..Len(toClient) /\ buffer'[i] = toClient[k]
        BY <1>4, <1>7, <3>3
      <4>2. i = Len(buffer) + k
        BY <1>4, <1>7
      <4> HIDE DEF k
      <4>3. 2 * toClient[k].no + toClient[k].part = 2 * callbacks[1].no + Len(buffer) + k
        BY <3>1, <4>1
      <4>4. k \in Nat /\ Len(buffer) \in Nat
        BY <1>4, <4>1
      <4>5. 2 * callbacks[1].no + Len(buffer) + k = 2 * callbacks[1].no + i
        BY <2>2, <4>4, <4>2
      <4> QED
        BY <4>1, <4>3, <4>5
    <3> QED
      BY <1>4, <1>7, <3>2, <3>3
  <2>4. \A i \in 1..Len(toClient') :
          2 * toClient'[i].no + toClient'[i].part = 2 * callbacks[1].no + Len(buffer') + i
    <3>1. \A i \in 1..Len(toClient) :
            2 * toClient[i].no + toClient[i].part = 2 * callbacks[1].no + Len(buffer) + i
      BY DEF IInv, Aligned
    <3> TAKE i \in 1..Len(toClient')
    <3>2. n + i \in 1..Len(toClient) /\ toClient'[i] = toClient[n + i]
      BY <1>4, <1>6
    <3> QED
      BY <1>4, <1>7, <2>2, <3>1, <3>2
  <2>5. \A i \in 1..Len(toServer) :
          toServer[i] = callbacks[1].no + Len(callbacks) - Len(toServer) + i - 1
    BY DEF IInv, Aligned
  <2> QED
    BY <1>3, <2>3, <2>4, <2>5 DEF IInv, Aligned
<1>11. Newest' /\ Past' /\ OwnResponse' /\ IssueOrder'
  BY <1>3 DEF IInv, Newest, Past, OwnResponse, IssueOrder
<1> QED
  BY <1>1, <1>8, <1>9, <1>10, <1>11 DEF IInv

LEMMA ServeStep ==
  ASSUME IInv, NEW ok \in BOOLEAN, Serve(ok)
  PROVE  IInv'
<1> DEFINE answer == Answer(toServer[1], ok)
<1>1. TypeOK'
  BY TypeStep DEF IInv, Next
<1>2. /\ toServer # <<>> /\ toServer' = Tail(toServer) /\ toClient' = toClient \o answer
      /\ UNCHANGED <<sock, buffer, callbacks, sent, log>>
  BY DEF Serve
<1>3. /\ toServer \in Seq(Numbers) /\ toClient \in Seq(Fragments) /\ toServer[1] \in Numbers
  BY <1>2 DEF IInv, TypeOK
<1>4. /\ Len(answer) = 2 /\ answer \in Seq(Fragments)
      /\ answer[1].no = toServer[1] /\ answer[1].part = 1
      /\ answer[2].no = toServer[1] /\ answer[2].part = 2
  BY <1>3 DEF Answer, Fragments
<1> HIDE DEF answer
<1>5. /\ Len(callbacks) \in Nat /\ Len(toServer) \in Nat /\ Len(buffer) \in Nat
      /\ Len(toClient) \in Nat /\ Len(toServer) > 0
  BY <1>2, Elements, EmptySeq DEF IInv, TypeOK
<1>6. /\ Len(toServer') = Len(toServer) - 1
      /\ \A i \in 1..Len(toServer') : toServer'[i] = toServer[i + 1]
  BY <1>2, <1>3, HeadTailProperties
<1>7. /\ Len(toClient') = Len(toClient) + 2
      /\ \A i \in 1..Len(toClient') :
           toClient'[i] = IF i <= Len(toClient) THEN toClient[i] ELSE answer[i - Len(toClient)]
  <2>1. /\ Len(toClient \o answer) = Len(toClient) + Len(answer)
        /\ \A i \in 1..(Len(toClient) + Len(answer)) :
             (toClient \o answer)[i] = IF i <= Len(toClient) THEN toClient[i]
                                                            ELSE answer[i - Len(toClient)]
    BY <1>3, <1>4, ConcatProperties
  <2> QED
    BY <1>2, <1>4, <2>1
<1>8. Clean'
  BY <1>2 DEF IInv, Clean
<1>9. Counted'
  <2>1. Len(toClient') + 2 * Len(toServer') = Len(toClient) + 2 * Len(toServer)
    BY <1>5, <1>6, <1>7
  <2>2. sock' = sock /\ callbacks' = callbacks /\ buffer' = buffer
    BY <1>2
  <2>3. Len(toClient') \in Nat /\ Len(toServer') \in Nat
    BY <1>5, <1>6, <1>7
  <2> QED
    BY <1>5, <2>1, <2>2, <2>3 DEF IInv, Counted
<1>10. Aligned'
  <2> SUFFICES ASSUME callbacks # <<>> PROVE Aligned'
    BY <1>2 DEF Aligned
  <2> DEFINE first == callbacks[1].no
  <2>1. first \in Nat
    BY <1>5, Elements, EmptySeq DEF IInv, TypeOK
  <2>2. /\ \A i \in 1..Len(callbacks) : callbacks[i].no = first + i - 1
        /\ \A i \in 1..Len(toServer) :
             toServer[i] = first + Len(callbacks) - Len(toServer) + i - 1
        /\ \A i \in 1..Len(buffer) : 2 * buffer[i].no + buffer[i].part = 2 * first + i
        /\ \A i \in 1..Len(toClient) :
             2 * toClient[i].no + toClient[i].part = 2 * first + Len(buffer) + i
    BY DEF IInv, Aligned
  <2> HIDE DEF first
  <2>3. \A i \in 1..Len(toServer') :
          toServer'[i] = first + Len(callbacks) - Len(toServer') + i - 1
    BY <1>5, <1>6, <2>1, <2>2
  <2>4. toServer[1] = first + Len(callbacks) - Len(toServer)
    BY <1>5, <2>1, <2>2
  <2>5. 2 * Len(callbacks) = Len(buffer) + Len(toClient) + 2 * Len(toServer)
    BY DEF IInv, Counted
  <2>6. 2 * toServer[1] = 2 * first + Len(buffer) + Len(toClient)
    BY <1>5, <2>1, <2>4, <2>5
  <2>7. \A i \in 1..Len(toClient') :
          2 * toClient'[i].no + toClient'[i].part = 2 * first + Len(buffer) + i
    <3> TAKE i \in 1..Len(toClient')
    <3>1. CASE i \in 1..Len(toClient)
      BY <1>7, <2>2, <3>1
    <3>2. CASE i = Len(toClient) + 1
      <4>1. toClient'[i] = answer[1]
        BY <1>5, <1>7, <3>2
      <4> QED
        BY <1>4, <1>5, <2>1, <2>6, <3>2, <4>1
    <3>3. CASE i = Len(toClient) + 2
      <4>1. toClient'[i] = answer[2]
        BY <1>5, <1>7, <3>3
      <4> QED
        BY <1>4, <1>5, <2>1, <2>6, <3>3, <4>1
    <3> QED
      BY <1>5, <1>7, <3>1, <3>2, <3>3
  <2> QED
    BY <1>2, <2>2, <2>3, <2>7 DEF Aligned, first
<1>11. Newest' /\ Past' /\ OwnResponse' /\ IssueOrder'
  BY <1>2 DEF IInv, Newest, Past, OwnResponse, IssueOrder
<1> QED
  BY <1>1, <1>8, <1>9, <1>10, <1>11 DEF IInv

\* A fragment's position in the stream determines its number.
LEMMA Position ==
  ASSUME NEW x \in Nat, NEW y \in Nat, NEW p \in {1, 2}, NEW q \in {1, 2},
         2 * x + p = 2 * y + q
  PROVE  x = y
<1>1. CASE p = 1 /\ q = 1
  BY <1>1
<1>2. CASE p = 2 /\ q = 2
  BY <1>2
<1>3. CASE p = 1 /\ q = 2
  BY <1>3
<1>4. CASE p = 2 /\ q = 1
  BY <1>4
<1> QED
  BY <1>1, <1>2, <1>3, <1>4

\* What the parser finds at the front is the response the front callback waits
\* for, and while connected a response is always some callback's.
LEMMA FrontMatches ==
  ASSUME IInv, Decodable
  PROVE  /\ sock = "connected" => callbacks # <<>>
         /\ callbacks # <<>> => /\ buffer[1].no = callbacks[1].no
                                /\ buffer[2].no = callbacks[1].no
<1>1. /\ Len(callbacks) \in Nat /\ Len(toServer) \in Nat /\ Len(buffer) \in Nat
      /\ Len(toClient) \in Nat /\ Len(buffer) >= 2
  BY Elements DEF IInv, Decodable
<1>2. sock = "connected" => callbacks # <<>>
  BY <1>1, EmptySeq DEF IInv, Counted
<1>3. ASSUME callbacks # <<>>
      PROVE  buffer[1].no = callbacks[1].no /\ buffer[2].no = callbacks[1].no
  <2>1. callbacks[1].no \in Nat
    BY <1>1, <1>3, Elements, EmptySeq DEF IInv, TypeOK
  <2>2. /\ buffer[1].no \in Nat /\ buffer[1].part \in {1, 2}
        /\ buffer[2].no \in Nat /\ buffer[2].part \in {1, 2}
    BY <1>1, Elements DEF IInv
  <2>3. /\ 2 * buffer[1].no + buffer[1].part = 2 * callbacks[1].no + 1
        /\ 2 * buffer[2].no + buffer[2].part = 2 * callbacks[1].no + 2
    BY <1>1, <1>3 DEF IInv, Aligned
  <2>4. 1 \in {1, 2} /\ 2 \in {1, 2}
    OBVIOUS
  <2> QED
    BY <2>1, <2>2, <2>3, <2>4, Position, Zenon
<1> QED
  BY <1>2, <1>3

LEMMA DeliverStep == IInv /\ Deliver => IInv'
<1> SUFFICES ASSUME IInv, Deliver PROVE IInv'
  OBVIOUS
<1>1. TypeOK'
  BY TypeStep DEF IInv, Next
<1>2. /\ Decodable
      /\ buffer' = SubSeq(buffer, 3, Len(buffer))
      /\ callbacks' = IF callbacks = <<>> THEN callbacks ELSE Tail(callbacks)
      /\ UNCHANGED <<sock, toServer, toClient, sent>>
  BY DEF Deliver, wire
<1>3. Clean'
  <2>1. buffer # <<>>
    BY <1>2 DEF IInv, TypeOK, Decodable
  <2> QED
    BY <1>2, <2>1 DEF IInv, Clean
<1>4. CASE callbacks = <<>>
  <2>1. sock # "connected" /\ callbacks' = <<>> /\ sock' = sock /\ UNCHANGED <<sent, log>>
    BY <1>2, <1>4, FrontMatches DEF Deliver
  <2>2. sock' # "connected"
    BY <2>1
  <2> QED
    BY <1>1, <1>3, <2>1, <2>2, EmptiedFifo DEF IInv
<1>5. CASE callbacks # <<>>
  <2> DEFINE first == callbacks[1].no
  <2>1. /\ Len(callbacks) \in Nat /\ Len(toServer) \in Nat /\ Len(buffer) \in Nat
        /\ Len(toClient) \in Nat /\ Len(log) \in Nat /\ sent \in Nat
    BY Elements DEF IInv
  <2>2. Len(callbacks) > 0 /\ Len(buffer) >= 2
    BY <1>2, <1>5, <2>1 DEF IInv, TypeOK, Decodable
  <2>3. /\ Len(callbacks') = Len(callbacks) - 1
        /\ \A i \in 1..Len(callbacks') : callbacks'[i] = callbacks[i + 1]
    BY <1>2, <1>5, HeadTailProperties DEF IInv, TypeOK
  <2>4. /\ Len(buffer') = Len(buffer) - 2
        /\ \A i \in 1..Len(buffer') : buffer'[i] = buffer[i + 2]
    <3>1. buffer \in Seq(Fragments)
      BY DEF IInv, TypeOK
    <3>2. Len(SubSeq(buffer, 3, Len(buffer))) = Len(buffer) - 2
      <4>1. CASE Len(buffer) = 2
        BY <3>1, <4>1
      <4>2. CASE Len(buffer) > 2
        BY <2>1, <3>1, <4>2
      <4>3. Len(buffer) = 2 \/ Len(buffer) > 2
        <5>1. \A n \in Nat : n >= 2 => n = 2 \/ n > 2
          OBVIOUS
        <5> QED
          BY <2>1, <2>2, <5>1, Zenon
      <4> QED
        BY <4>1, <4>2, <4>3, Zenon
    <3>3. \A i \in 1..(Len(buffer) - 2) : SubSeq(buffer, 3, Len(buffer))[i] = buffer[i + 2]
      BY <2>1, <2>2, <3>1
    <3> QED
      BY <1>2, <3>2, <3>3
  <2>5. first \in Nat
    BY <2>1, <2>2, Elements DEF IInv
  <2>6. \A i \in 1..Len(callbacks) : callbacks[i].no = first + i - 1
    BY <1>5 DEF IInv, Aligned
  <2>7. buffer[1].no = first /\ buffer[2].no = first
    BY <1>2, <1>5, FrontMatches
  <2>8. Counted'
    <3>1. 2 * Len(callbacks) = Len(buffer) + Len(toClient) + 2 * Len(toServer)
      BY <1>5 DEF IInv, Counted
    <3>2. 2 * Len(callbacks') = Len(buffer') + Len(toClient) + 2 * Len(toServer)
      BY <2>1, <2>3, <2>4, <3>1
    <3> QED
      BY <1>2, <3>2 DEF Counted
  <2>9. Newest'
    <3>1. \A i \in 1..Len(callbacks) : callbacks[i].no \in Nat
      BY Elements DEF IInv
    <3>2. \A i \in 1..Len(callbacks') : callbacks'[i].no <= sent'
      BY <1>2, <2>1, <2>3 DEF IInv, Newest
    <3>3. ASSUME sock' = "connected", callbacks' # <<>>
          PROVE  callbacks'[Len(callbacks')].no = sent'
      <4>1. Len(callbacks') \in 1..Len(callbacks')
        BY <1>1, <2>1, <2>3, <3>3 DEF TypeOK
      <4>2. callbacks[Len(callbacks)].no = sent
        BY <1>2, <1>5, <3>3 DEF IInv, Newest
      <4> QED
        BY <1>2, <2>1, <2>3, <4>1, <4>2
    <3> QED
      BY <3>2, <3>3 DEF Newest
  <2>10. Aligned'
    <3> SUFFICES ASSUME callbacks' # <<>> PROVE Aligned'
      BY DEF Aligned
    <3>1. Len(callbacks') > 0
      BY <1>1, <2>1, <2>3 DEF TypeOK
    <3>2. callbacks'[1].no = first + 1
      BY <2>1, <2>3, <2>5, <2>6, <3>1
    <3>3. /\ \A i \in 1..Len(toServer) :
               toServer[i] = first + Len(callbacks) - Len(toServer) + i - 1
          /\ \A i \in 1..Len(buffer) : 2 * buffer[i].no + buffer[i].part = 2 * first + i
          /\ \A i \in 1..Len(toClient) :
               2 * toClient[i].no + toClient[i].part = 2 * first + Len(buffer) + i
      BY <1>5 DEF IInv, Aligned
    <3> HIDE DEF first
    <3>4. \A i \in 1..Len(callbacks') : callbacks'[i].no = (first + 1) + i - 1
      BY <2>1, <2>3, <2>5, <2>6
    <3>5. \A i \in 1..Len(toServer') :
            toServer'[i] = (first + 1) + Len(callbacks') - Len(toServer') + i - 1
      <4>1. (first + 1) + (Len(callbacks') - Len(toServer))
              = first + (Len(callbacks) - Len(toServer))
        BY <2>1, <2>3, <2>5
      <4>2. toServer' = toServer
        BY <1>2
      <4>3. \A i \in 1..Len(toServer) :
              toServer[i] = (first + 1) + Len(callbacks') - Len(toServer) + i - 1
        BY <3>3, <4>1, Zenon
      <4> QED
        BY <4>2, <4>3
    <3>6. \A i \in 1..Len(buffer') :
            2 * buffer'[i].no + buffer'[i].part = 2 * (first + 1) + i
      <4> TAKE i \in 1..Len(buffer')
      <4>1. i + 2 \in 1..Len(buffer) /\ buffer'[i] = buffer[i + 2]
        BY <2>1, <2>2, <2>4
      <4>2. 2 * buffer'[i].no + buffer'[i].part = 2 * first + (i + 2)
        BY <3>3, <4>1
      <4>3. 2 * first + (i + 2) = 2 * (first + 1) + i
        BY <2>1, <2>4, <2>5
      <4> QED
        BY <4>2, <4>3
    <3>7. \A i \in 1..Len(toClient') :
            2 * toClient'[i].no + toClient'[i].part = 2 * (first + 1) + Len(buffer') + i
      <4> TAKE i \in 1..Len(toClient')
      <4>1. i \in 1..Len(toClient) /\ toClient'[i] = toClient[i] /\ i \in Nat
        BY <1>2, <2>1
      <4>2. 2 * toClient'[i].no + toClient'[i].part = 2 * first + Len(buffer) + i
        BY <3>3, <4>1
      <4>3. 2 * first + Len(buffer) + i = 2 * (first + 1) + Len(buffer') + i
        BY <2>1, <2>4, <2>5, <4>1
      <4> QED
        BY <4>2, <4>3
    <3> QED
      BY <3>2, <3>4, <3>5, <3>6, <3>7 DEF Aligned
  <2>11. \A j \in 1..Len(callbacks') :
           /\ j + 1 \in 1..Len(callbacks) /\ callbacks'[j] = callbacks[j + 1]
           /\ callbacks'[j].no = first + j /\ first < callbacks'[j].no
    <3> TAKE j \in 1..Len(callbacks')
    <3>1. j + 1 \in 1..Len(callbacks) /\ callbacks'[j] = callbacks[j + 1] /\ j \in Nat /\ j > 0
      <4>1. j \in Nat /\ j > 0 /\ j <= Len(callbacks) - 1
        BY <2>1, <2>3
      <4> QED
        BY <2>1, <2>3, <4>1
    <3>2. callbacks[j + 1].no = first + (j + 1) - 1
      BY <2>6, <3>1
    <3> HIDE DEF first
    <3>3. first + (j + 1) - 1 = first + j /\ first < first + j
      BY <2>5, <3>1
    <3> QED
      BY <3>1, <3>2, <3>3
  <2>12. first <= sent
    BY <2>1, <2>2 DEF IInv, Newest
  <2>13. CASE log' = log
    <3>1. Past'
      <4> HIDE DEF first
      <4> QED
        BY <1>2, <2>11, <2>13 DEF IInv, Past
    <3> QED
      BY <1>1, <1>3, <2>8, <2>9, <2>10, <2>13, <3>1 DEF IInv, OwnResponse, IssueOrder
  <2> DEFINE call == [no |-> first, head |-> first, tail |-> first]
  <2>14. CASE log' = Append(log, call)
    <3>1. call \in Calls /\ call.no = first /\ call.head = first /\ call.tail = first
      <4>1. callbacks[1] \in Callbacks
        BY <1>5 DEF IInv, TypeOK
      <4>2. first \in Numbers
        BY <4>1 DEF Callbacks
      <4> QED
        BY <4>2 DEF Calls, Numbers
    <3> HIDE DEF call
    <3>2. /\ Len(log') = Len(log) + 1
          /\ \A i \in 1..Len(log) : log'[i] = log[i]
          /\ log'[Len(log) + 1] = call
      BY <2>14, <3>1, AppendProperties DEF IInv, TypeOK
    <3>3. \A i \in 1..Len(log) :
            /\ log[i].no \in Nat /\ log[i].no <= sent /\ log[i].no # first
            /\ log[i].head \in Nat
            /\ log[i].head # NIL => log[i].no < first
      BY <2>1, <2>2, Elements DEF IInv, Past
    <3> HIDE DEF first
    <3>4. \A i \in 1..Len(log') :
            \/ i \in 1..Len(log) /\ log'[i] = log[i]
            \/ i = Len(log) + 1 /\ log'[i] = call
      BY <2>1, <3>2
    <3>5. Past'
      <4>1. \A i \in 1..Len(log) :
              /\ log[i].no <= sent
              /\ \A j \in 1..Len(callbacks') :
                   /\ log[i].no # callbacks'[j].no
                   /\ log[i].head # NIL => log[i].no < callbacks'[j].no
        BY <2>11 DEF IInv, Past
      <4>2. /\ call.no <= sent
            /\ \A j \in 1..Len(callbacks') :
                 call.no # callbacks'[j].no /\ call.no < callbacks'[j].no
        <5>1. \A j \in 1..Len(callbacks') : callbacks'[j].no \in Nat
          <6>1. \A j \in 1..Len(callbacks) : callbacks[j].no \in Nat
            BY Elements DEF IInv
          <6> QED
            BY <2>11, <6>1
        <5> QED
          BY <2>5, <2>11, <2>12, <3>1
      <4>3. \A i \in 1..Len(log') :
              /\ log'[i].no <= sent
              /\ \A j \in 1..Len(callbacks') :
                   /\ log'[i].no # callbacks'[j].no
                   /\ log'[i].head # NIL => log'[i].no < callbacks'[j].no
        BY <3>4, <4>1, <4>2, Zenon
      <4> QED
        BY <1>2, <4>3 DEF Past
    <3>6. OwnResponse'
      BY <3>1, <3>4 DEF IInv, OwnResponse
    <3>7. IssueOrder'
      <4> SUFFICES ASSUME NEW i \in 1..Len(log'), NEW j \in 1..Len(log'), i < j
                   PROVE  /\ log'[i].no # log'[j].no
                          /\ log'[i].head # NIL /\ log'[j].head # NIL
                               => log'[i].no < log'[j].no
        BY DEF IssueOrder
      <4>1. i \in 1..Len(log) /\ log'[i] = log[i]
        BY <2>1, <3>2
      <4>2. CASE j \in 1..Len(log) /\ log'[j] = log[j]
        BY <4>1, <4>2 DEF IInv, IssueOrder
      <4>3. CASE log'[j] = call
        BY <3>1, <3>3, <4>1, <4>3
      <4> QED
        BY <3>4, <4>2, <4>3
    <3> QED
      BY <1>1, <1>3, <2>8, <2>9, <2>10, <3>5, <3>6, <3>7 DEF IInv
  <2>15. log' = log \/ log' = Append(log, call)
    <3>1. \/ log' = log
          \/ log' = Append(log, [no |-> callbacks[1].no,
                                 head |-> buffer[1].no, tail |-> buffer[2].no])
      BY Zenon DEF Deliver
    <3> QED
      BY <2>7, <3>1
  <2> QED
    BY <2>13, <2>14, <2>15
<1> QED
  BY <1>4, <1>5

LEMMA Step == IInv /\ [Next]_vars => IInv'
<1> SUFFICES ASSUME IInv, [Next]_vars PROVE IInv'
  OBVIOUS
<1>1. CASE UNCHANGED vars
  BY <1>1 DEF IInv, TypeOK, Clean, Counted, Aligned, Newest, Past, OwnResponse, IssueOrder,
              vars
<1>2. CASE Next
  BY <1>2, ConnectToHostStep, DisconnectFromHostStep, OnDisconnectedStep, SocketStep,
     SendCommandStep, OnReadyReadStep, ServeStep, DeliverStep, Zenon DEF Next
<1> QED
  BY <1>1, <1>2

LEMMA Invariance == Spec => []IInv
  BY InitIInv, Step, PTL DEF Spec

\* Responses reach their own callbacks, whole, for every number of commands,
\* connections and malformed responses (tryParseResponses).
THEOREM ResponsesRouted == Spec => []OwnResponse
<1>1. IInv => OwnResponse
  BY DEF IInv
<1> QED
  BY <1>1, Invariance, PTL

\* Callbacks run at most once, and in the order of their commands.
THEOREM CallbacksInOrder == Spec => []IssueOrder
<1>1. IInv => IssueOrder
  BY DEF IInv
<1> QED
  BY <1>1, Invariance, PTL

\* While connected, only a response nobody asked for with a callback reaches
\* the console's broadcast.
THEOREM BroadcastSafe == Spec => BroadcastOnlyUnclaimed
<1> DEFINE A == sock = "connected" /\ shown' # shown
                  => /\ callbacks # <<>> /\ ~callbacks[1].cb
                     /\ shown' = shown \union {callbacks[1].no}
<1>1. IInv /\ [Next]_vars => A
  <2> SUFFICES ASSUME IInv, [Next]_vars, sock = "connected", shown' # shown
               PROVE  /\ callbacks # <<>> /\ ~callbacks[1].cb
                      /\ shown' = shown \union {callbacks[1].no}
    OBVIOUS
  <2>1. Deliver
    BY Zenon DEF Next, vars, ConnectToHost, DisconnectFromHost, SendCommand, OnConnected,
       ConnectFailed, DelayedClose, OnDisconnected, OnReadyRead, LeaveParser, Serve
  <2>2. Decodable
    BY <2>1 DEF Deliver
  <2>3. callbacks # <<>> /\ buffer[1].no = callbacks[1].no
    BY <2>2, FrontMatches
  <2>4. ~(callbacks # <<>> /\ callbacks[1].cb) /\ shown' = shown \union {buffer[1].no}
    BY <2>1, Zenon DEF Deliver
  <2> QED
    BY <2>3, <2>4, Zenon
<1>2. IInv /\ [Next]_vars => [A]_vars
  BY <1>1
<1> QED
  BY <1>2, Invariance, PTL DEF Spec, BroadcastOnlyUnclaimed

=============================================================================
