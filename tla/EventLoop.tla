------------------------------- MODULE EventLoop ------------------------------
(***************************************************************************)
(* One connection of the server (src/mini_redis/src/epoll.cpp and the loop *)
(* of server.cpp): edge-triggered events, a parser that keeps what is not  *)
(* a whole command yet, an output buffer for what the socket does not      *)
(* take, a flag for connections to be closed and a mark for idle ones.     *)
(*                                                                         *)
(* Requests are numbered; a request arrives in two fragments and its reply *)
(* leaves in two, so that a read can end inside the one and a write inside *)
(* the other.  Number 0 is no request: a malformed line, and any reply     *)
(* that answers none.  The client and the kernel are external: the two     *)
(* socket buffers and the ready list of epoll, on which the descriptor is  *)
(* put when something happens to it that it is registered for, and from    *)
(* which epoll_wait takes it.                                              *)
(***************************************************************************)
EXTENDS Integers, Sequences

CONSTANTS MaxRequests,  \* bound: well-formed requests of the client
          MaxBad,       \* bound: malformed lines it sends
          Cap           \* fragments of replies the socket buffers hold

ASSUME BoundsAssumption ==
  /\ MaxRequests \in Nat
  /\ MaxBad \in Nat
  /\ Cap \in Nat \ {0}

VARIABLES
  \* the client and the network
  peer,      \* up, closed (end of stream) or reset
  asked,     \* number of requests begun
  half,      \* the second fragment of the last one is still to come
  bad,       \* number of malformed lines
  inbound,   \* the socket's receive buffer
  outbound,  \* the socket's send buffer and the network behind it
  received,  \* the fragments of replies the client has read
  \* the kernel's epoll
  interest,  \* the events registered for the descriptor
  ready,     \* the descriptor is on the ready list
  \* the server
  pc,        \* where its thread is
  events,    \* events reported and not handled yet
  parser,    \* the buffer of RespParser
  confused,  \* the parser stopped at an error inside a command
  outBuf,    \* ConnState::out_buf from out_offset on
  closing,   \* ConnState::closing
  timedOut,  \* the descriptor is in timed_out_fds
  answers    \* what each response answers, in order: a request, or 0

client == <<peer, asked, half, bad, inbound, outbound, received>>
epoll == <<interest, ready>>
conn == <<parser, confused, outBuf, closing, timedOut, answers>>
vars == <<client, epoll, pc, events, conn>>

Fragments == [no : Nat, part : {0, 1, 2}]
BadLine == [no |-> 0, part |-> 0]
Places == {"wait", "handle", "modify", "parse", "register", "closed"}

Init ==
  /\ peer = "up" /\ asked = 0 /\ half = FALSE /\ bad = 0
  /\ inbound = <<>> /\ outbound = <<>> /\ received = <<>>
  /\ interest = {"in"} /\ ready = FALSE
  /\ pc = "wait" /\ events = {}
  /\ parser = <<>> /\ confused = FALSE /\ outBuf = <<>>
  /\ closing = FALSE /\ timedOut = FALSE /\ answers = <<>>

-----------------------------------------------------------------------------
(* The client and the kernel.                                              *)

\* Bytes arrive: the descriptor becomes ready.
Arrive(fragment) ==
  /\ peer = "up" /\ pc # "closed"
  /\ inbound' = Append(inbound, fragment)
  /\ ready' = TRUE
  /\ UNCHANGED <<peer, outbound, received, interest, pc, events, conn>>

SendHead ==
  /\ ~half /\ asked < MaxRequests
  /\ asked' = asked + 1 /\ half' = TRUE
  /\ Arrive([no |-> asked', part |-> 1])
  /\ UNCHANGED bad

SendTail ==
  /\ half
  /\ half' = FALSE
  /\ Arrive([no |-> asked, part |-> 2])
  /\ UNCHANGED <<asked, bad>>

SendBadLine ==
  /\ ~half /\ bad < MaxBad
  /\ bad' = bad + 1
  /\ Arrive(BadLine)
  /\ UNCHANGED <<asked, half>>

\* The client reads; room in the send buffer is an event only while EPOLLOUT
\* is registered.
Receive ==
  /\ peer = "up" /\ outbound # <<>>
  /\ outbound' = Tail(outbound)
  /\ received' = Append(received, Head(outbound))
  /\ ready' = (ready \/ (pc # "closed" /\ "out" \in interest))
  /\ UNCHANGED <<peer, asked, half, bad, inbound, interest, pc, events, conn>>

\* The client closes its end, or the connection breaks.
Hangup ==
  /\ pc # "closed"
  /\ \/ peer = "up" /\ peer' = "closed"
     \/ peer # "reset" /\ peer' = "reset"
  /\ ready' = TRUE
  /\ UNCHANGED <<asked, half, bad, inbound, outbound, received, interest,
                 pc, events, conn>>

\* What poll reports of the socket, restricted to a registration.
Poll(registered) ==
  IF peer = "reset" THEN {"hup"}
  ELSE registered \cap ((IF inbound # <<>> \/ peer = "closed" THEN {"in"} ELSE {})
                        \cup (IF Len(outbound) < Cap THEN {"out"} ELSE {}))

\* EPOLL_CTL_MOD polls again, so an event that came before it is not lost.
Mod(registered) ==
  /\ interest' = registered
  /\ ready' = (ready \/ Poll(registered) # {})

-----------------------------------------------------------------------------
(* The server's loop: epoll_wait, Timer::tick, handle_events.              *)

EpollWait ==
  /\ pc = "wait" /\ ready
  /\ ready' = FALSE
  /\ events' = Poll(interest)
  /\ pc' = IF events' = {} THEN "wait" ELSE "handle"
  /\ UNCHANGED <<client, interest, conn>>

\* Timer::tick finds the connection idle.  It runs just after epoll_wait;
\* nothing looks at the mark before the events are handled.
MarkTimedOut ==
  /\ pc = "wait" /\ ~timedOut
  /\ timedOut' = TRUE
  /\ UNCHANGED <<client, epoll, pc, events, parser, confused, outBuf,
                 closing, answers>>

\* close_connection: the descriptor, the parser and the buffers go.
CloseConnection ==
  /\ pc' = "closed"
  /\ events' = {}
  /\ ready' = FALSE
  /\ parser' = <<>> /\ confused' = FALSE /\ outBuf' = <<>>
  /\ closing' = FALSE /\ timedOut' = FALSE
  /\ UNCHANGED <<client, interest, answers>>

\* After a close by the write half nothing is left for the read half to do.
OnHangup ==
  /\ pc = "handle" /\ "hup" \in events
  /\ CloseConnection

OnTimedOut ==
  /\ pc = "handle" /\ "hup" \notin events
  /\ timedOut
  /\ CloseConnection

\* write until everything is sent, the socket is full or the peer is gone:
\* what is sent of data, and what is left of it.
Written(data) ==
  IF peer = "reset" THEN <<>>
  ELSE SubSeq(data, 1, IF Len(data) <= Cap - Len(outbound) THEN Len(data)
                       ELSE Cap - Len(outbound))
Unwritten(data) == SubSeq(data, Len(Written(data)) + 1, Len(data))

\* process_client_write up to its call of mod.
OnWritable ==
  /\ pc = "handle" /\ "out" \in events
  /\ ~timedOut
  /\ IF closing /\ Unwritten(outBuf) = <<>>
     THEN /\ outbound' = outbound \o outBuf
          /\ pc' = "closed"
          /\ events' = {} /\ ready' = FALSE
          /\ parser' = <<>> /\ confused' = FALSE /\ closing' = FALSE
          /\ outBuf' = <<>>
     ELSE /\ outbound' = outbound \o Written(outBuf)
          /\ outBuf' = Unwritten(outBuf)
          /\ pc' = "modify"
          /\ events' = events \ {"out"}
          /\ UNCHANGED <<ready, parser, confused, closing>>
  /\ UNCHANGED <<peer, asked, half, bad, inbound, received, interest,
                 timedOut, answers>>

\* Mutant: one write is taken for the whole of it.
ModifyReadOnly ==
  /\ pc = "modify"
  /\ Mod({"in"})
  /\ pc' = IF "in" \in events THEN "handle" ELSE "wait"
  /\ UNCHANGED <<client, events, conn>>

\* Its call of mod: listen for writing only while something is unsent.
Modify ==
  /\ pc = "modify"
  /\ Mod(IF outBuf = <<>> THEN {"in"} ELSE {"in", "out"})
  /\ pc' = IF "in" \in events THEN "handle" ELSE "wait"
  /\ UNCHANGED <<client, events, conn>>

\* Mutant: one read per event, not until EAGAIN.
OnReadableOnce ==
  /\ pc = "handle" /\ "in" \in events /\ "out" \notin events
  /\ ~timedOut
  /\ IF peer # "up"
     THEN CloseConnection
     ELSE /\ parser' = Append(parser, Head(inbound))
          /\ inbound' = Tail(inbound)
          /\ events' = {}
          /\ pc' = "parse"
          /\ UNCHANGED <<peer, asked, half, bad, outbound, received, epoll,
                         confused, outBuf, closing, timedOut, answers>>

\* Mutant: the end of the stream ends the reading and nothing else.
OnReadableIgnoresEnd ==
  /\ pc = "handle" /\ "in" \in events /\ "out" \notin events
  /\ ~timedOut
  /\ IF peer = "reset"
     THEN CloseConnection
     ELSE /\ parser' = parser \o inbound
          /\ inbound' = <<>>
          /\ events' = {}
          /\ pc' = IF inbound = <<>> THEN "wait" ELSE "parse"
          /\ UNCHANGED <<peer, asked, half, bad, outbound, received, epoll,
                         confused, outBuf, closing, timedOut, answers>>

\* process_client_read up to its second loop.  Reading to the end of the
\* stream closes the connection with everything read.
OnReadable ==
  /\ pc = "handle" /\ "in" \in events /\ "out" \notin events
  /\ ~timedOut
  /\ IF peer # "up"
     THEN CloseConnection
     ELSE /\ parser' = parser \o inbound
          /\ inbound' = <<>>
          /\ events' = {}
          /\ pc' = IF inbound = <<>> THEN "wait" ELSE "parse"
          /\ UNCHANGED <<peer, asked, half, bad, outbound, received, epoll,
                         confused, outBuf, closing, timedOut, answers>>

-----------------------------------------------------------------------------
(* The loop over the parsed commands.                                      *)

ReplyTo(n) == <<[no |-> n, part |-> 1], [no |-> n, part |-> 2]>>

\* Mutant: the rest of this reply takes the place of what was unsent.
SendResponseReplaces(n) ==
  /\ answers' = Append(answers, n)
  /\ outbound' = outbound \o Written(ReplyTo(n))
  /\ outBuf' = Unwritten(ReplyTo(n))

\* Mutant: the socket is tried first even while older replies are unsent.
SendResponseOvertakes(n) ==
  /\ answers' = Append(answers, n)
  /\ outbound' = outbound \o Written(ReplyTo(n))
  /\ outBuf' = outBuf \o Unwritten(ReplyTo(n))

\* send_response: append to what is unsent already, write, and keep the rest.
\* EPOLLOUT is registered when the rest becomes non-empty.  A write error
\* loses a reply that was not buffered.
SendResponse(n) ==
  LET data == outBuf \o ReplyTo(n)
  IN  /\ answers' = Append(answers, n)
      /\ outbound' = outbound \o Written(data)
      /\ outBuf' = IF peer = "reset" /\ outBuf = <<>> THEN <<>> ELSE Unwritten(data)

\* Where the loop goes after a response: on only if all of it was sent.
AfterResponse(goOn) ==
  pc' = IF outBuf' # <<>> /\ outBuf = <<>> THEN "register"
        ELSE IF outBuf' = <<>> /\ peer # "reset" /\ goOn THEN "parse"
        ELSE "wait"

\* What the client's input looks like from where the parser is.  Malformed is a
\* line without the $ of an item, which is answered PARSE_ERROR.  A count or a
\* length that is no number is left out, after such a line too: std::stoi throws
\* there (resp_parser.cpp:102 and 116), nothing catches it and the process ends.
Whole == ~confused /\ Len(parser) > 1 /\ parser[1].part = 1
Malformed == ~confused /\ parser # <<>> /\ parser[1].part = 0
Garbled == parser # <<>> /\ (confused \/ parser[1].part = 2)
Incomplete == ~Whole /\ ~Malformed

\* PARSE_OK: execute, consume, respond.
Execute ==
  /\ pc = "parse" /\ Whole
  /\ parser' = SubSeq(parser, 3, Len(parser))
  /\ SendResponse(parser[1].no)
  /\ AfterResponse(TRUE)
  /\ UNCHANGED <<peer, asked, half, bad, inbound, received, epoll, events,
                 confused, closing, timedOut>>

\* PARSE_ERROR: the parser is left behind the bad line, in the middle of an
\* array.
OnError(rest) ==
  /\ parser' = rest
  /\ confused' = TRUE
  /\ closing' = TRUE
  /\ SendResponse(0)
  /\ AfterResponse(FALSE)
  /\ UNCHANGED <<peer, asked, half, bad, inbound, received, epoll, events,
                 timedOut>>

ParseError ==
  /\ pc = "parse" /\ Malformed
  /\ OnError(Tail(parser))

\* From there what follows is read as items of that array: another error, or
\* some command made of it, after which the parser may or may not be at the
\* start of a command again.
ParseGarbled ==
  /\ pc = "parse" /\ Garbled
  /\ \E k \in 1..Len(parser) :
       LET rest == SubSeq(parser, k + 1, Len(parser))
       IN  \/ OnError(rest)
           \/ /\ parser' = rest
              /\ confused' \in BOOLEAN
              /\ SendResponse(0)
              /\ AfterResponse(TRUE)
              /\ UNCHANGED <<peer, asked, half, bad, inbound, received, epoll,
                             events, closing, timedOut>>

\* PARSE_AGAIN: back to epoll_wait, closing first if that is due.
ParseAgain ==
  /\ pc = "parse" /\ Incomplete
  /\ IF closing /\ outBuf = <<>>
     THEN CloseConnection
     ELSE /\ pc' = "wait"
          /\ UNCHANGED <<client, epoll, events, conn>>

\* Mutant: the first blocked write does not ask for EPOLLOUT.
RegisterForgotten ==
  /\ pc = "register"
  /\ pc' = "wait"
  /\ UNCHANGED <<client, epoll, events, conn>>

\* The call of mod in send_response.
Register ==
  /\ pc = "register"
  /\ Mod({"in", "out"})
  /\ pc' = "wait"
  /\ UNCHANGED <<client, events, conn>>

ServerStep ==
  \/ EpollWait \/ OnHangup \/ OnTimedOut \/ OnWritable \/ Modify \/ OnReadable
  \/ Execute \/ ParseError \/ ParseGarbled \/ ParseAgain \/ Register

Next ==
  \/ SendHead \/ SendTail \/ SendBadLine \/ Receive \/ Hangup
  \/ MarkTimedOut \/ ServerStep

Spec == Init /\ [][Next]_vars

\* The server's thread goes on, and the client reads what reaches it.
FairSpec == Spec /\ WF_vars(ServerStep) /\ WF_vars(Receive)

-----------------------------------------------------------------------------
(* Properties.                                                             *)

\* The fragments of the responses that answer a, one after the other.
Stream(a) ==
  [k \in 1..2 * Len(a) |-> [no |-> a[(k + 1) \div 2], part |-> 2 - (k % 2)]]

TypeOK ==
  /\ peer \in {"up", "closed", "reset"}
  /\ asked \in 0..MaxRequests /\ half \in BOOLEAN /\ bad \in 0..MaxBad
  /\ inbound \in Seq(Fragments) /\ outbound \in Seq(Fragments)
  /\ received \in Seq(Fragments)
  /\ interest \in SUBSET {"in", "out"} /\ ready \in BOOLEAN
  /\ pc \in Places /\ events \in SUBSET {"in", "out", "hup"}
  /\ parser \in Seq(Fragments) /\ confused \in BOOLEAN
  /\ outBuf \in Seq(Fragments)
  /\ closing \in BOOLEAN /\ timedOut \in BOOLEAN
  /\ answers \in Seq(Nat)
  /\ Len(outbound) <= Cap

\* While the connection lives, every response has been read by the client, is
\* under way to it or waits in out_buf, whole and in order: no partial write,
\* event or error makes part of a reply disappear.
NoReplyLost ==
  pc # "closed" /\ peer # "reset" =>
    Stream(answers) = received \o outbound \o outBuf

\* Edge-triggered events are not reported twice, so one the loop did not use up
\* must be on the ready list when it goes to sleep: unread input, the end of
\* the connection, and room for unsent output, for which EPOLLOUT must be
\* registered.
NoLostWakeup ==
  pc = "wait" =>
    /\ inbound # <<>> \/ peer # "up" => ready
    /\ outBuf # <<>> => "out" \in interest
    /\ outBuf # <<>> /\ Len(outbound) < Cap => ready

\* The connection keeps the promise of ReplyPipe, whatever the fragments, the
\* partial writes and the malformed lines are.
Pipe == INSTANCE ReplyPipe WITH
  asked <- IF half THEN asked - 1 ELSE asked,
  done <- answers,
  replies <- [i \in 1..Len(received) \div 2 |-> received[2 * i].no]
ImplementsPipe == Pipe!Spec

Answered(n) == \E i \in DOMAIN answers : answers[i] = n

\* The reply to an executed request reaches the client unless the connection
\* ends: what does not fit is sent when there is room again.
ReplyArrives ==
  \A n \in 1..MaxRequests :
    Answered(n) ~> \/ \E i \in DOMAIN received : received[i] = [no |-> n, part |-> 2]
                   \/ pc = "closed" \/ peer # "up"

\* The server notices the end of every connection and releases it.
ConnectionReleased == (peer # "up") ~> (pc = "closed")

\* Commands are ready in the parser, and the loop sleeps with nothing to send:
\* what a reply cut short leaves behind (epoll.cpp:205).
Stalled == pc = "wait" /\ ~ready /\ outBuf = <<>> /\ Whole

\* A request that was sent in full is executed unless the connection ends, the
\* stream was malformed, or the pipeline is stalled; there is no other way to
\* be left waiting.
RequestServed ==
  \A n \in 1..MaxRequests :
    (asked > n \/ (asked = n /\ ~half)) ~>
      \/ Answered(n)
      \/ pc = "closed" \/ peer # "up" \/ bad > 0 \/ Stalled

===============================================================================
