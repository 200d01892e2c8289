---------------------------- MODULE RedisClient ----------------------------
(***************************************************************************)
(* The desktop's RESP client (src/src/redis_client.cpp): one QTcpSocket, a *)
(* read buffer and a FIFO of callbacks.  The k-th response read from the   *)
(* socket is handed to the callback at the front of the FIFO; RESP carries *)
(* no request identifiers, so the whole application rests on the two       *)
(* queues staying in step over fragmentation, disconnects and reconnects.  *)
(*                                                                         *)
(* Commands are numbered in the order sendCommand is called.  A response   *)
(* crosses the network as two fragments, so that a read can end inside it. *)
(* The socket and the server's side of the stream are external: the        *)
(* QAbstractSocket states and signals the client relies on, and a server   *)
(* that answers every request once and in order.                           *)
(***************************************************************************)
EXTENDS Integers, Sequences

CONSTANTS MaxCommands,   \* bound: calls of sendCommand
          MaxConnects,   \* bound: effective calls of connectToHost
          MaxBad         \* bound: malformed responses the peer sends

ASSUME BoundsAssumption ==
  /\ MaxCommands \in Nat
  /\ MaxConnects \in Nat
  /\ MaxBad \in Nat

VARIABLES
  sock,          \* QAbstractSocket::state()
  pendingClose,  \* the socket was closed while still connecting
  toServer,      \* commands written and not yet answered, oldest first
  toClient,      \* response fragments in flight, oldest first
  buffer,        \* m_readBuffer
  callbacks,     \* m_callbacks
  parsing,       \* control is inside the loop of tryParseResponses
  sent,          \* number of calls of sendCommand
  connects,      \* number of connection attempts
  bad,           \* number of malformed responses
  log,           \* callbacks invoked so far, with what each was given
  shown          \* responses broadcast through responseReceived

vars == <<sock, pendingClose, toServer, toClient, buffer, callbacks,
          parsing, sent, connects, bad, log, shown>>
wire == <<toServer, toClient>>
bounds == <<connects, bad>>

NIL == 0         \* the synthetic RespValue::NIL; commands are numbered from 1
Numbers == Nat \ {0}
SocketStates == {"unconnected", "connecting", "connected", "closing"}
Fragments == [no : Numbers, part : {1, 2}, ok : BOOLEAN]
Callbacks == [no : Numbers, cb : BOOLEAN]
Calls == [no : Numbers, head : Nat, tail : Nat]

Init ==
  /\ sock = "unconnected" /\ pendingClose = FALSE
  /\ toServer = <<>> /\ toClient = <<>>
  /\ buffer = <<>> /\ callbacks = <<>> /\ parsing = FALSE
  /\ sent = 0 /\ connects = 0 /\ bad = 0
  /\ log = <<>> /\ shown = {}

-----------------------------------------------------------------------------
(* Calls made by the panels and the main window.                           *)

\* Ignored while connecting or connected.  While the old socket is still
\* closing the call clears both queues and Qt then rejects the attempt.
ConnectToHost ==
  /\ ~parsing
  /\ sock \notin {"connecting", "connected"}
  /\ connects < MaxConnects
  /\ connects' = connects + 1
  /\ buffer' = <<>>
  /\ callbacks' = <<>>
  /\ sock' = IF sock = "unconnected" THEN "connecting" ELSE sock
  /\ UNCHANGED <<pendingClose, wire, parsing, sent, bad, log, shown>>

\* The callbacks go at once.  The socket goes at once, emitting disconnected,
\* unless bytes are still unsent (closing) or the connection attempt is not
\* over yet (pendingClose).
DisconnectFromHost ==
  /\ ~parsing
  /\ sock # "unconnected"
  /\ callbacks' = <<>>
  /\ \/ /\ sock = "connecting"
        /\ pendingClose' = TRUE
        /\ UNCHANGED <<sock, wire, buffer>>
     \/ /\ sock \in {"connected", "closing"}
        /\ sock' = "closing"
        /\ UNCHANGED <<pendingClose, wire, buffer>>
     \/ /\ sock = "connected"
        /\ sock' = "unconnected"
        /\ buffer' = <<>>
        /\ toServer' = <<>> /\ toClient' = <<>>
        /\ UNCHANGED pendingClose
  /\ UNCHANGED <<parsing, sent, bounds, log, shown>>

\* Mutant: only commands with a callback join the FIFO.
SendCommandForgetsNullptr(cb) ==
  /\ sent < MaxCommands
  /\ sent' = sent + 1
  /\ IF sock = "connected"
     THEN /\ toServer' = Append(toServer, sent')
          /\ callbacks' = IF cb THEN Append(callbacks, [no |-> sent', cb |-> cb])
                                ELSE callbacks
          /\ UNCHANGED log
     ELSE /\ log' = IF cb THEN Append(log, [no |-> sent', head |-> NIL, tail |-> NIL])
                          ELSE log
          /\ UNCHANGED <<toServer, callbacks>>
  /\ UNCHANGED <<sock, pendingClose, toClient, buffer, parsing, bounds, shown>>

\* sendCommand, with a callback or with nullptr.  Panels call it from user
\* events and from inside other callbacks, so it is enabled while parsing.
SendCommand(cb) ==
  /\ sent < MaxCommands
  /\ sent' = sent + 1
  /\ IF sock = "connected"
     THEN /\ toServer' = Append(toServer, sent')
          /\ callbacks' = Append(callbacks, [no |-> sent', cb |-> cb])
          /\ UNCHANGED log
     ELSE /\ log' = IF cb THEN Append(log, [no |-> sent', head |-> NIL, tail |-> NIL])
                          ELSE log
          /\ UNCHANGED <<toServer, callbacks>>
  /\ UNCHANGED <<sock, pendingClose, toClient, buffer, parsing, bounds, shown>>

-----------------------------------------------------------------------------
(* Socket signals.                                                         *)

OnConnected ==
  /\ sock = "connecting"
  /\ sock' = "connected"
  /\ UNCHANGED <<pendingClose, wire, buffer, callbacks, parsing, sent, bounds, log, shown>>

ConnectFailed ==
  /\ sock = "connecting"
  /\ sock' = "unconnected"
  /\ pendingClose' = FALSE
  /\ UNCHANGED <<wire, buffer, callbacks, parsing, sent, bounds, log, shown>>

\* Qt carries out a close requested while connecting.
DelayedClose ==
  /\ ~parsing
  /\ sock = "connected" /\ pendingClose
  /\ sock' = "closing"
  /\ pendingClose' = FALSE
  /\ UNCHANGED <<wire, buffer, callbacks, parsing, sent, bounds, log, shown>>

\* The connection is over, for whatever reason.
OnDisconnected ==
  /\ ~parsing
  /\ sock \in {"connected", "closing"}
  /\ sock' = "unconnected"
  /\ pendingClose' = FALSE
  /\ buffer' = <<>>
  /\ callbacks' = <<>>
  /\ toServer' = <<>> /\ toClient' = <<>>
  /\ UNCHANGED <<parsing, sent, bounds, log, shown>>

\* readAll returns what has arrived so far: any non-empty prefix.
OnReadyRead ==
  /\ ~parsing
  /\ sock \in {"connected", "closing"}
  /\ \E n \in 1..Len(toClient) :
       /\ buffer' = buffer \o SubSeq(toClient, 1, n)
       /\ toClient' = SubSeq(toClient, n + 1, Len(toClient))
  /\ parsing' = TRUE
  /\ UNCHANGED <<sock, pendingClose, toServer, callbacks, sent, bounds, log, shown>>

-----------------------------------------------------------------------------
(* tryParseResponses: one action per turn of its loop.                     *)

Undecodable == buffer # <<>> /\ (buffer[1].part = 2 \/ ~buffer[1].ok)
Decodable == Len(buffer) >= 2 /\ ~Undecodable

\* Mutant: a callback stays at the front of the FIFO after it was called.
DeliverKeepsCallback ==
  /\ parsing
  /\ Decodable
  /\ buffer' = SubSeq(buffer, 3, Len(buffer))
  /\ IF callbacks # <<>> /\ callbacks[1].cb
     THEN /\ log' = Append(log, [no |-> callbacks[1].no,
                                 head |-> buffer[1].no, tail |-> buffer[2].no])
          /\ UNCHANGED <<shown, callbacks>>
     ELSE /\ shown' = shown \union {buffer[1].no}
          /\ callbacks' = IF callbacks = <<>> THEN callbacks ELSE Tail(callbacks)
          /\ UNCHANGED log
  /\ UNCHANGED <<sock, pendingClose, wire, parsing, sent, bounds>>

\* Mutant: one response per readyRead, an "if" where the code has a "while".
DeliverOnePerRead ==
  /\ parsing
  /\ Decodable
  /\ buffer' = SubSeq(buffer, 3, Len(buffer))
  /\ IF callbacks # <<>> /\ callbacks[1].cb
     THEN /\ log' = Append(log, [no |-> callbacks[1].no,
                                 head |-> buffer[1].no, tail |-> buffer[2].no])
          /\ UNCHANGED shown
     ELSE /\ shown' = shown \union {buffer[1].no}
          /\ UNCHANGED log
  /\ callbacks' = IF callbacks = <<>> THEN callbacks ELSE Tail(callbacks)
  /\ parsing' = FALSE
  /\ UNCHANGED <<sock, pendingClose, wire, sent, bounds>>

Deliver ==
  /\ parsing
  /\ Decodable
  /\ buffer' = SubSeq(buffer, 3, Len(buffer))
  /\ IF callbacks # <<>> /\ callbacks[1].cb
     THEN /\ log' = Append(log, [no |-> callbacks[1].no,
                                 head |-> buffer[1].no, tail |-> buffer[2].no])
          /\ UNCHANGED shown
     ELSE /\ shown' = shown \union {buffer[1].no}
          /\ UNCHANGED log
  /\ callbacks' = IF callbacks = <<>> THEN callbacks ELSE Tail(callbacks)
  /\ UNCHANGED <<sock, pendingClose, wire, parsing, sent, bounds>>

\* Out of complete responses, or an undecodable one: the loop is left, and in
\* the second case the offending bytes stay at the front of the buffer.
LeaveParser ==
  /\ parsing
  /\ ~Decodable
  /\ parsing' = FALSE
  /\ UNCHANGED <<sock, pendingClose, wire, buffer, callbacks, sent, bounds, log, shown>>

-----------------------------------------------------------------------------
(* The peer: one response per request, in order.                           *)

Answer(n, ok) == <<[no |-> n, part |-> 1, ok |-> ok], [no |-> n, part |-> 2, ok |-> TRUE]>>

Serve(ok) ==
  /\ toServer # <<>>
  /\ ok \/ bad < MaxBad
  /\ bad' = IF ok THEN bad ELSE bad + 1
  /\ toClient' = toClient \o Answer(toServer[1], ok)
  /\ toServer' = Tail(toServer)
  /\ UNCHANGED <<sock, pendingClose, buffer, callbacks, parsing, sent, connects, log, shown>>

-----------------------------------------------------------------------------
Next ==
  \/ ConnectToHost \/ DisconnectFromHost
  \/ \E cb \in BOOLEAN : SendCommand(cb)
  \/ OnConnected \/ ConnectFailed \/ DelayedClose \/ OnDisconnected
  \/ OnReadyRead \/ Deliver \/ LeaveParser
  \/ \E ok \in BOOLEAN : Serve(ok)

Spec == Init /\ [][Next]_vars

\* The Qt event loop keeps delivering readyRead, its slot runs to completion,
\* and the server's loop answers what it has read.  Nothing is assumed of the
\* user, of the network staying up, or of connection attempts.
Fairness ==
  /\ WF_vars(OnReadyRead)
  /\ WF_vars(Deliver)
  /\ WF_vars(LeaveParser)
  /\ WF_vars(\E ok \in BOOLEAN : Serve(ok))

FairSpec == Spec /\ Fairness

-----------------------------------------------------------------------------
(* Properties.                                                             *)

\* Every variable stays in its domain.
TypeOK ==
  /\ sock \in SocketStates
  /\ pendingClose \in BOOLEAN
  /\ toServer \in Seq(Numbers)
  /\ toClient \in Seq(Fragments)
  /\ buffer \in Seq(Fragments)
  /\ callbacks \in Seq(Callbacks)
  /\ parsing \in BOOLEAN
  /\ sent \in 0..MaxCommands
  /\ connects \in 0..MaxConnects
  /\ bad \in 0..MaxBad
  /\ log \in Seq(Calls)
  /\ shown \in SUBSET Numbers

\* A callback is only ever given the response to the command it was registered
\* with, whole, or the synthetic NIL of a command that was never sent: the
\* FIFO routing of tryParseResponses never slips by one, over fragmented
\* reads, disconnects with commands in flight, and reconnects.
OwnResponse ==
  \A i \in 1..Len(log) : log[i].head = log[i].tail /\ log[i].head \in {NIL, log[i].no}

\* A callback runs at most once, and those that get a response run in the
\* order their commands were issued.  (A synchronous NIL may overtake: once a
\* delayed close is under way sendCommand fails at once, while the responses
\* to earlier commands are still being read.)
IssueOrder ==
  \A i, j \in 1..Len(log) :
    i < j => /\ log[i].no # log[j].no
             /\ log[i].head # NIL /\ log[j].head # NIL => log[i].no < log[j].no

\* While connected, only the response to a command sent without a callback is
\* broadcast to the console (redis_client.cpp, tryParseResponses).
BroadcastOnlyUnclaimed ==
  [][sock = "connected" /\ shown' # shown
       => callbacks # <<>> /\ ~callbacks[1].cb /\ shown' = shown \union {callbacks[1].no}]_vars

\* A registered callback does not wait for ever: it is called, or the
\* connection it belongs to is given up, or the peer sent an undecodable
\* response, which wedges the buffer until the next disconnect.
Waiting(n) == \E i \in 1..Len(callbacks) : callbacks[i].no = n
CallbackResolved == \A n \in 1..MaxCommands : Waiting(n) ~> (~Waiting(n) \/ Undecodable)
=============================================================================
