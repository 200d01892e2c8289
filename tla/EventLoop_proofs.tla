--------------------------- MODULE EventLoop_proofs ---------------------------
(***************************************************************************)
(* Proofs about EventLoop for every bound and every size of the socket     *)
(* buffers: types, no response lost, no wake-up lost, and that a           *)
(* connection implements ReplyPipe.                                        *)
(***************************************************************************)
EXTENDS EventLoop, SequenceTheorems, TLAPS

-----------------------------------------------------------------------------
(* Types.  The flags and the data need different provers.                  *)

TypeFlags ==
  /\ half \in BOOLEAN /\ ready \in BOOLEAN /\ confused \in BOOLEAN
  /\ closing \in BOOLEAN /\ timedOut \in BOOLEAN

TypeData ==
  /\ peer \in {"up", "closed", "reset"}
  /\ asked \in 0..MaxRequests /\ bad \in 0..MaxBad
  /\ inbound \in Seq(Fragments) /\ outbound \in Seq(Fragments)
  /\ received \in Seq(Fragments)
  /\ interest \in SUBSET {"in", "out"}
  /\ pc \in Places /\ events \in SUBSET {"in", "out", "hup"}
  /\ parser \in Seq(Fragments)
  /\ outBuf \in Seq(Fragments)
  /\ answers \in Seq(Nat)
  /\ Len(outbound) <= Cap

LEMMA TypeSplit == TypeOK <=> TypeFlags /\ TypeData
  BY Zenon DEF TypeOK, TypeFlags, TypeData

LEMMA FlagsStep == TypeFlags /\ [Next]_vars => TypeFlags'
<1> SUFFICES ASSUME TypeFlags, [Next]_vars PROVE TypeFlags'
  OBVIOUS
<1> USE DEF TypeFlags, client, epoll, conn
<1>1. CASE SendHead \/ SendTail \/ SendBadLine
  BY <1>1, Zenon DEF SendHead, SendTail, SendBadLine, Arrive
<1>2. CASE Receive \/ Hangup
  BY <1>2, Zenon DEF Receive, Hangup
<1>3. CASE MarkTimedOut \/ EpollWait
  BY <1>3, Zenon DEF MarkTimedOut, EpollWait
<1>4. CASE OnHangup \/ OnTimedOut \/ OnReadable
  BY <1>4, Zenon DEF OnHangup, OnTimedOut, OnReadable, CloseConnection
<1>5. CASE OnWritable
  BY <1>5, Zenon DEF OnWritable
<1>6. CASE Modify \/ Register
  BY <1>6, Zenon DEF Modify, Register, Mod
<1>7. CASE Execute \/ ParseError \/ ParseGarbled
  BY <1>7, Zenon DEF Execute, ParseError, ParseGarbled, OnError
<1>8. CASE ParseAgain
  BY <1>8, Zenon DEF ParseAgain, CloseConnection
<1>9. CASE UNCHANGED vars
  BY <1>9, Zenon DEF vars
<1> QED
  BY <1>1, <1>2, <1>3, <1>4, <1>5, <1>6, <1>7, <1>8, <1>9, Zenon DEF Next, ServerStep

\* A sequence cut in two.
LEMMA Cut ==
  ASSUME NEW S, NEW s \in Seq(S), NEW k \in 0..Len(s)
  PROVE  /\ SubSeq(s, 1, k) \in Seq(S) /\ Len(SubSeq(s, 1, k)) = k
         /\ SubSeq(s, k + 1, Len(s)) \in Seq(S)
         /\ Len(SubSeq(s, k + 1, Len(s))) = Len(s) - k
         /\ \A i \in 1..k : SubSeq(s, 1, k)[i] = s[i]
         /\ \A i \in 1..(Len(s) - k) : SubSeq(s, k + 1, Len(s))[i] = s[k + i]
         /\ SubSeq(s, 1, k) \o SubSeq(s, k + 1, Len(s)) = s
<1> DEFINE a == SubSeq(s, 1, k)
           b == SubSeq(s, k + 1, Len(s))
<1>1. Len(s) \in Nat /\ k \in Nat /\ k <= Len(s)
  OBVIOUS
<1>2. \A i \in 1..k : s[i] \in S
  BY <1>1, ElementOfSeq
<1>3. a \in Seq(S) /\ Len(a) = k /\ \A i \in 1..k : a[i] = s[i]
  <2>1. /\ a \in Seq(S)
        /\ Len(a) = IF 1 <= k THEN k - 1 + 1 ELSE 0
        /\ \A i \in 1..(k - 1 + 1) : a[i] = s[1 + i - 1]
    BY <1>1, <1>2, SubSeqProperties
  <2> QED
    BY <1>1, <2>1
<1>4. \A i \in (k + 1)..Len(s) : s[i] \in S
  BY <1>1, ElementOfSeq
<1>5. /\ b \in Seq(S) /\ Len(b) = Len(s) - k
      /\ \A i \in 1..(Len(s) - k) : b[i] = s[k + i]
  <2>1. /\ b \in Seq(S)
        /\ Len(b) = IF k + 1 <= Len(s) THEN Len(s) - (k + 1) + 1 ELSE 0
        /\ \A i \in 1..(Len(s) - (k + 1) + 1) : b[i] = s[(k + 1) + i - 1]
    BY <1>1, <1>4, SubSeqProperties
  <2>2. \A i \in 1..(Len(s) - k) : (k + 1) + i - 1 = k + i
    BY <1>1
  <2> QED
    BY <1>1, <2>1, <2>2
<1> HIDE DEF a, b
<1>6. a \o b = s
  <2>1. /\ a \o b \in Seq(S) /\ Len(a \o b) = Len(s)
        /\ \A i \in 1..Len(s) : (a \o b)[i] = IF i <= k THEN a[i] ELSE b[i - k]
    BY <1>1, <1>3, <1>5, ConcatProperties
  <2>2. \A i \in 1..Len(s) : (a \o b)[i] = s[i]
    BY <1>1, <1>3, <1>5, <2>1
  <2> QED
    BY <2>1, <2>2, SeqEqual
<1> QED
  BY <1>3, <1>5, <1>6 DEF a, b

\* What a write sends and what it leaves are the data, and what it sends fits.
LEMMA WriteSplits ==
  ASSUME TypeData, NEW data \in Seq(Fragments)
  PROVE  /\ Written(data) \in Seq(Fragments) /\ Unwritten(data) \in Seq(Fragments)
         /\ Written(data) \o Unwritten(data) = data
         /\ outbound \o Written(data) \in Seq(Fragments)
         /\ Len(outbound \o Written(data)) = Len(outbound) + Len(Written(data))
         /\ Len(outbound \o Written(data)) <= Cap
         /\ peer # "reset" /\ Unwritten(data) # <<>>
              => Len(outbound \o Written(data)) = Cap
         /\ peer = "reset" => Written(data) = <<>> /\ Unwritten(data) = data
<1> USE BoundsAssumption DEF TypeData
<1> DEFINE fits == IF Len(data) <= Cap - Len(outbound) THEN Len(data)
                   ELSE Cap - Len(outbound)
           k == IF peer = "reset" THEN 0 ELSE fits
<1>1. Len(data) \in Nat /\ Len(outbound) \in Nat /\ k \in 0..Len(data)
  OBVIOUS
<1>2. Written(data) = SubSeq(data, 1, k)
  <2>1. SubSeq(data, 1, 0) = <<>>
    BY SubSeqEmpty
  <2> QED
    BY <2>1 DEF Written
<1>3. Len(outbound) + k <= Cap /\ (peer # "reset" /\ k # Len(data) => Len(outbound) + k = Cap)
  BY <1>1
<1>4. peer = "reset" => k = 0
  OBVIOUS
<1> HIDE DEF k
<1>5. Len(Written(data)) = k /\ Written(data) \in Seq(Fragments)
  BY <1>1, <1>2, Cut
<1>6. Unwritten(data) = SubSeq(data, k + 1, Len(data))
  BY <1>5 DEF Unwritten
<1>7. /\ Unwritten(data) \in Seq(Fragments) /\ Len(Unwritten(data)) = Len(data) - k
      /\ Written(data) \o Unwritten(data) = data
  <2>1. SubSeq(data, k + 1, Len(data)) \in Seq(Fragments)
    BY <1>1, Cut
  <2>3. Len(SubSeq(data, k + 1, Len(data))) = Len(data) - k
    BY <1>1, Cut
  <2>4. SubSeq(data, 1, k) \o SubSeq(data, k + 1, Len(data)) = data
    BY <1>1, Cut
  <2> QED
    BY <1>2, <1>6, <2>1, <2>3, <2>4, Zenon
<1>8. /\ outbound \o Written(data) \in Seq(Fragments)
      /\ Len(outbound \o Written(data)) = Len(outbound) + k
  BY <1>5, ConcatProperties
<1>9. Unwritten(data) # <<>> => k # Len(data)
  BY <1>1, <1>7, EmptySeq
<1>10. k = 0 => Written(data) = <<>> /\ Unwritten(data) = data
  <2> SUFFICES ASSUME k = 0 PROVE Written(data) = <<>> /\ Unwritten(data) = data
    OBVIOUS
  <2>1. Written(data) = <<>>
    BY <1>2, SubSeqEmpty
  <2>2. Unwritten(data) = SubSeq(data, 1, Len(data))
    BY <1>6
  <2> QED
    BY <2>1, <2>2, SubSeqFull
<1> QED
  BY <1>3, <1>4, <1>5, <1>7, <1>8, <1>9, <1>10

LEMMA ReplyType == ASSUME NEW n \in Nat PROVE ReplyTo(n) \in Seq(Fragments) /\ Len(ReplyTo(n)) = 2
  BY DEF ReplyTo, Fragments

LEMMA BadLineType == BadLine \in Fragments
  BY DEF BadLine, Fragments

LEMMA SendResponseTypes ==
  ASSUME TypeData, NEW n \in Nat, SendResponse(n)
  PROVE  /\ outbound' \in Seq(Fragments) /\ Len(outbound') <= Cap
         /\ outBuf' \in Seq(Fragments) /\ answers' \in Seq(Nat)
<1> DEFINE data == outBuf \o ReplyTo(n)
<1>1. data \in Seq(Fragments)
  BY ReplyType, ConcatProperties DEF TypeData
<1> HIDE DEF data
<1>2. /\ outbound' = outbound \o Written(data)
      /\ outBuf' = <<>> \/ outBuf' = Unwritten(data)
      /\ answers' = Append(answers, n)
  BY DEF SendResponse, data
<1>3. outbound' \in Seq(Fragments) /\ Len(outbound') <= Cap
  BY <1>1, <1>2, WriteSplits
<1>4. outBuf' \in Seq(Fragments)
  BY <1>1, <1>2, WriteSplits, EmptySeq
<1>5. answers' \in Seq(Nat)
  BY <1>2, AppendProperties DEF TypeData
<1> QED
  BY <1>3, <1>4, <1>5

LEMMA AfterResponsePlace ==
  ASSUME NEW goOn \in BOOLEAN, AfterResponse(goOn) PROVE pc' \in Places
  BY DEF AfterResponse, Places

\* What is left of the parser's buffer.
LEMMA RestType ==
  ASSUME TypeData, NEW k \in 0..Len(parser)
  PROVE  SubSeq(parser, k + 1, Len(parser)) \in Seq(Fragments)
  BY Cut DEF TypeData

LEMMA DataStep == TypeData /\ [Next]_vars => TypeData'
<1> SUFFICES ASSUME TypeData, [Next]_vars PROVE TypeData'
  OBVIOUS
<1> USE BoundsAssumption DEF TypeData, client, epoll, conn
<1>1. ASSUME NEW f \in Fragments, Arrive(f), asked' \in 0..MaxRequests, bad' \in 0..MaxBad
      PROVE TypeData'
  BY <1>1, AppendProperties DEF Arrive
<1>2. CASE SendHead
  <2>1. asked' \in 0..MaxRequests /\ [no |-> asked', part |-> 1] \in Fragments
    BY <1>2 DEF SendHead, Fragments
  <2>2. bad' = bad /\ Arrive([no |-> asked', part |-> 1])
    BY <1>2, Zenon DEF SendHead
  <2> QED
    BY <1>1, <2>1, <2>2
<1>3. CASE SendTail
  <2>1. [no |-> asked, part |-> 2] \in Fragments
    BY DEF Fragments
  <2>2. asked' = asked /\ bad' = bad /\ Arrive([no |-> asked, part |-> 2])
    BY <1>3, Zenon DEF SendTail
  <2> QED
    BY <1>1, <2>1, <2>2
<1>4. CASE SendBadLine
  BY <1>1, <1>4, BadLineType DEF SendBadLine
<1>5. CASE Receive
  BY <1>5, HeadTailProperties, AppendProperties DEF Receive
<1>6. CASE Hangup
  BY <1>6 DEF Hangup
<1>7. CASE MarkTimedOut
  BY <1>7 DEF MarkTimedOut
<1>8. CASE EpollWait
  <2>1. Poll(interest) \in SUBSET {"in", "out", "hup"}
    BY DEF Poll
  <2> QED
    BY <1>8, <2>1 DEF EpollWait, Places
<1>9. ASSUME CloseConnection PROVE TypeData'
  BY <1>9 DEF CloseConnection, Places
<1>10. CASE OnHangup \/ OnTimedOut
  BY <1>9, <1>10 DEF OnHangup, OnTimedOut
<1>11. CASE OnWritable
  <2>1. CASE closing /\ Unwritten(outBuf) = <<>>
    <3>1. outbound' = outbound \o outBuf /\ outBuf' = <<>> /\ parser' = <<>> /\ pc' = "closed"
          /\ events' = {}
      BY <1>11, <2>1 DEF OnWritable
    <3>2. Written(outBuf) = outBuf
      BY <2>1, WriteSplits, ConcatEmptySeq
    <3>3. outbound' \in Seq(Fragments) /\ Len(outbound') <= Cap
      BY <3>1, <3>2, WriteSplits
    <3>4. UNCHANGED <<peer, asked, bad, inbound, received, interest, answers>>
      BY <1>11 DEF OnWritable
    <3> QED
      BY <3>1, <3>3, <3>4 DEF Places
  <2>2. CASE ~(closing /\ Unwritten(outBuf) = <<>>)
    <3>1. /\ outbound' = outbound \o Written(outBuf)
          /\ outBuf' = Unwritten(outBuf)
          /\ pc' = "modify" /\ events' = events \ {"out"} /\ parser' = parser
      BY <1>11, <2>2 DEF OnWritable
    <3>2. UNCHANGED <<peer, asked, bad, inbound, received, interest, answers>>
      BY <1>11 DEF OnWritable
    <3>3. outbound' \in Seq(Fragments) /\ Len(outbound') <= Cap /\ outBuf' \in Seq(Fragments)
      BY <3>1, WriteSplits
    <3> QED
      BY <3>1, <3>2, <3>3 DEF Places
  <2> QED
    BY <2>1, <2>2
<1>12. CASE Modify \/ Register
  BY <1>12 DEF Modify, Register, Mod, Places
<1>13. CASE OnReadable
  <2>1. parser \o inbound \in Seq(Fragments)
    BY ConcatProperties
  <2>2. CASE peer # "up"
    BY <1>9, <1>13, <2>2 DEF OnReadable
  <2>3. CASE peer = "up"
    <3>1. /\ parser' = parser \o inbound /\ inbound' = <<>> /\ events' = {}
          /\ pc' = "wait" \/ pc' = "parse"
          /\ UNCHANGED <<peer, asked, bad, outbound, received, interest, outBuf, answers>>
      BY <1>13, <2>3 DEF OnReadable
    <3> QED
      BY <2>1, <3>1, EmptySeq DEF Places
  <2> QED
    BY <2>2, <2>3
<1>14. CASE Execute
  <2>1. parser[1].no \in Nat /\ 2 \in 0..Len(parser)
    <3>1. Len(parser) > 1
      BY <1>14 DEF Execute, Whole
    <3>2. parser[1] \in Fragments
      BY <3>1, ElementOfSeq
    <3> QED
      BY <3>1, <3>2 DEF Fragments
  <2>2. parser' \in Seq(Fragments)
    BY <1>14, <2>1, RestType DEF Execute
  <2>3. pc' \in Places
    BY <1>14, AfterResponsePlace DEF Execute
  <2> QED
    BY <1>14, <2>1, <2>2, <2>3, SendResponseTypes DEF Execute
<1>15. ASSUME NEW rest \in Seq(Fragments), OnError(rest) PROVE TypeData'
  BY <1>15, SendResponseTypes, AfterResponsePlace DEF OnError
<1>16. CASE ParseError
  <2>1. Tail(parser) \in Seq(Fragments)
    BY <1>16, HeadTailProperties DEF ParseError, Malformed
  <2> QED
    BY <1>15, <1>16, <2>1 DEF ParseError
<1>17. CASE ParseGarbled
  <2>1. PICK k \in 1..Len(parser) :
          \/ OnError(SubSeq(parser, k + 1, Len(parser)))
          \/ /\ parser' = SubSeq(parser, k + 1, Len(parser))
             /\ SendResponse(0) /\ AfterResponse(TRUE)
             /\ UNCHANGED <<peer, asked, half, bad, inbound, received, epoll,
                             events, closing, timedOut>>
    BY <1>17, Zenon DEF ParseGarbled
  <2>2. SubSeq(parser, k + 1, Len(parser)) \in Seq(Fragments)
    BY RestType
  <2>3. ASSUME SendResponse(0), AfterResponse(TRUE)
        PROVE  /\ outbound' \in Seq(Fragments) /\ Len(outbound') <= Cap
               /\ outBuf' \in Seq(Fragments) /\ answers' \in Seq(Nat) /\ pc' \in Places
    BY <2>3, SendResponseTypes, AfterResponsePlace
  <2> QED
    BY <1>15, <2>1, <2>2, <2>3
<1>18. CASE ParseAgain
  BY <1>9, <1>18 DEF ParseAgain, Places
<1>19. CASE UNCHANGED vars
  BY <1>19 DEF vars
<1> QED
  BY <1>2, <1>3, <1>4, <1>5, <1>6, <1>7, <1>8, <1>10, <1>11, <1>12, <1>13, <1>14,
     <1>16, <1>17, <1>18, <1>19 DEF Next, ServerStep

LEMMA InitTypes == Init => TypeFlags /\ TypeData
<1> SUFFICES ASSUME Init PROVE TypeFlags /\ TypeData
  OBVIOUS
<1>1. TypeFlags
  BY Zenon DEF Init, TypeFlags
<1>2. TypeData
  BY BoundsAssumption DEF Init, TypeData, Places
<1> QED
  BY <1>1, <1>2

\* Every variable keeps its type, and the socket never holds more than it can:
\* the server's buffer takes what a partial write leaves.
THEOREM TypeCorrect == Spec => []TypeOK
<1>1. TypeFlags /\ TypeData /\ [Next]_vars => (TypeFlags /\ TypeData)'
  BY FlagsStep, DataStep
<1>2. TypeFlags /\ TypeData => TypeOK
  BY TypeSplit
<1> QED
  BY <1>1, <1>2, InitTypes, PTL DEF Spec

-----------------------------------------------------------------------------
(* Wake-ups.  What the thread has not looked at yet is on the ready list or  *)
(* among the events it is handling; room for unsent output may also be       *)
(* noticed by the call of mod it is about to make.                           *)

EventsApart ==
  /\ "in" \in interest
  /\ "hup" \in events => events = {"hup"}
  /\ pc = "modify" => "hup" \notin events

InputNoticed ==
  inbound # <<>> \/ peer # "up" =>
    /\ pc \in {"wait", "parse", "register"} => ready
    /\ pc \in {"handle", "modify"} => ready \/ "in" \in events \/ "hup" \in events

WritingRegistered ==
  outBuf # <<>> /\ pc \in {"wait", "handle", "parse"} => "out" \in interest

RoomNoticed ==
  outBuf # <<>> /\ Len(outbound) < Cap =>
    /\ pc \in {"wait", "parse"} => ready
    /\ pc = "handle" /\ "out" \notin events /\ "hup" \notin events => ready

Wakeful == EventsApart /\ InputNoticed /\ WritingRegistered /\ RoomNoticed

LEMMA WakefulSuffices == Wakeful => NoLostWakeup
  BY DEF Wakeful, InputNoticed, WritingRegistered, RoomNoticed, NoLostWakeup

\* A write that leaves something has filled the socket, or found it dead.
LEMMA WriteFills ==
  ASSUME TypeData, NEW n \in Nat, SendResponse(n), outBuf' # <<>>, peer # "reset"
  PROVE  ~(Len(outbound') < Cap)
<1> DEFINE data == outBuf \o ReplyTo(n)
<1>1. data \in Seq(Fragments)
  BY ReplyType, ConcatProperties DEF TypeData
<1> HIDE DEF data
<1>2. outbound' = outbound \o Written(data) /\ outBuf' = Unwritten(data)
  BY DEF SendResponse, data
<1>3. Len(outbound') = Cap
  BY <1>1, <1>2, WriteSplits
<1> QED
  BY <1>3, BoundsAssumption

\* The three ways a command ends in the parsing loop.
LEMMA RespondWakeful ==
  ASSUME TypeData, Wakeful, pc = "parse", NEW n \in Nat, NEW goOn \in BOOLEAN,
         SendResponse(n), AfterResponse(goOn),
         UNCHANGED <<peer, inbound, interest, ready, events>>
  PROVE  Wakeful'
<1> USE DEF Wakeful
<1>1. pc' \in {"wait", "parse", "register"}
  BY DEF AfterResponse
<1>2. EventsApart'
  BY <1>1 DEF EventsApart
<1>3. InputNoticed'
  BY <1>1 DEF InputNoticed
<1>4. outBuf' # <<>> /\ pc' \in {"wait", "parse"} => outBuf # <<>>
  BY DEF AfterResponse
<1>5. WritingRegistered'
  BY <1>1, <1>4 DEF WritingRegistered
<1>6. RoomNoticed'
  <2>1. outBuf' # <<>> /\ Len(outbound') < Cap => peer = "reset"
    BY WriteFills
  <2>2. peer = "reset" => ready
    BY DEF InputNoticed
  <2> QED
    BY <1>1, <2>1, <2>2 DEF RoomNoticed
<1> QED
  BY <1>2, <1>3, <1>5, <1>6

LEMMA WakefulStep == TypeData /\ Wakeful /\ [Next]_vars => Wakeful'
<1> SUFFICES ASSUME TypeData, Wakeful, [Next]_vars PROVE Wakeful'
  OBVIOUS
<1> USE DEF client, epoll, conn
<1>1. ASSUME NEW f, Arrive(f) PROVE Wakeful'
  BY <1>1 DEF Arrive, Wakeful, EventsApart, InputNoticed, WritingRegistered, RoomNoticed
<1>2. CASE SendHead \/ SendTail \/ SendBadLine
  BY <1>1, <1>2 DEF SendHead, SendTail, SendBadLine
<1>3. CASE Receive
  <2>1. EventsApart' /\ WritingRegistered'
    BY <1>3 DEF Receive, Wakeful, EventsApart, WritingRegistered
  <2>2. InputNoticed'
    BY <1>3 DEF Receive, Wakeful, InputNoticed
  <2>3. outBuf # <<>> /\ pc \in {"wait", "handle", "parse"} => ready'
    BY <1>3 DEF Receive, Wakeful, WritingRegistered
  <2>4. RoomNoticed'
    BY <1>3, <2>3 DEF Receive, RoomNoticed
  <2> QED
    BY <2>1, <2>2, <2>4 DEF Wakeful
<1>4. CASE Hangup
  BY <1>4 DEF Hangup, Wakeful, EventsApart, InputNoticed, WritingRegistered, RoomNoticed
<1>5. CASE MarkTimedOut
  BY <1>5 DEF MarkTimedOut, Wakeful, EventsApart, InputNoticed, WritingRegistered, RoomNoticed
<1>6. CASE EpollWait
  <2>1. /\ pc = "wait"
        /\ events' = Poll(interest)
        /\ pc' = IF events' = {} THEN "wait" ELSE "handle"
        /\ UNCHANGED <<peer, inbound, outbound, interest, outBuf>>
    BY <1>6 DEF EpollWait
  <2>2. "in" \in interest
    BY DEF Wakeful, EventsApart
  <2>3. /\ peer = "reset" => events' = {"hup"}
        /\ peer # "reset" => /\ "hup" \notin events'
                             /\ inbound # <<>> \/ peer = "closed" => "in" \in events'
                             /\ Len(outbound) < Cap /\ "out" \in interest => "out" \in events'
    BY <2>1, <2>2 DEF Poll, TypeData
  <2>4. EventsApart'
    BY <2>1, <2>2, <2>3 DEF EventsApart
  <2>5. InputNoticed'
    BY <2>1, <2>3 DEF InputNoticed, TypeData
  <2>6. WritingRegistered'
    BY <2>1 DEF Wakeful, WritingRegistered
  <2>7. RoomNoticed'
    BY <2>1, <2>3 DEF RoomNoticed, Wakeful, WritingRegistered
  <2> QED
    BY <2>4, <2>5, <2>6, <2>7 DEF Wakeful
<1>7. ASSUME CloseConnection PROVE Wakeful'
  BY <1>7 DEF CloseConnection, Wakeful, EventsApart, InputNoticed, WritingRegistered, RoomNoticed
<1>8. CASE OnHangup \/ OnTimedOut
  BY <1>7, <1>8 DEF OnHangup, OnTimedOut
<1>9. CASE OnWritable
  <2>1. /\ pc = "handle" /\ "out" \in events
        /\ \/ pc' = "closed" /\ events' = {}
           \/ pc' = "modify" /\ events' = events \ {"out"} /\ ready' = ready
        /\ UNCHANGED <<peer, inbound, interest>>
    BY <1>9 DEF OnWritable
  <2>2. "hup" \notin events
    BY <2>1 DEF Wakeful, EventsApart
  <2> QED
    BY <2>1, <2>2 DEF Wakeful, EventsApart, InputNoticed, WritingRegistered, RoomNoticed
<1>10. CASE Modify
  <2>1. /\ pc = "modify" /\ pc' = IF "in" \in events THEN "handle" ELSE "wait"
        /\ interest' = IF outBuf = <<>> THEN {"in"} ELSE {"in", "out"}
        /\ ready' <=> ready \/ Poll(interest') # {}
        /\ UNCHANGED <<peer, inbound, outbound, events, outBuf>>
    BY <1>10, Zenon DEF Modify, Mod
  <2>2. Len(outbound) < Cap /\ outBuf # <<>> => Poll(interest') # {}
    BY <2>1 DEF Poll
  <2> QED
    BY <2>1, <2>2 DEF Wakeful, EventsApart, InputNoticed, WritingRegistered, RoomNoticed
<1>11. CASE OnReadable
  <2>1. CASE peer # "up"
    BY <1>7, <1>11, <2>1 DEF OnReadable
  <2>2. CASE peer = "up"
    <3>1. /\ pc = "handle" /\ "in" \in events /\ "out" \notin events
          /\ inbound' = <<>> /\ events' = {} /\ pc' \in {"wait", "parse"}
          /\ UNCHANGED <<peer, outbound, interest, ready, outBuf>>
      BY <1>11, <2>2 DEF OnReadable
    <3>2. "hup" \notin events
      BY <3>1 DEF Wakeful, EventsApart
    <3> QED
      BY <2>2, <3>1, <3>2 DEF Wakeful, EventsApart, InputNoticed, WritingRegistered, RoomNoticed
  <2> QED
    BY <2>1, <2>2
<1>12. CASE Execute
  <2>1. parser[1].no \in Nat
    <3>1. Len(parser) > 1
      BY <1>12 DEF Execute, Whole
    <3>2. parser[1] \in Fragments
      BY <3>1, ElementOfSeq DEF TypeData
    <3> QED
      BY <3>2 DEF Fragments
  <2> QED
    BY <1>12, <2>1, RespondWakeful DEF Execute
<1>13. ASSUME NEW rest, OnError(rest), pc = "parse" PROVE Wakeful'
  BY <1>13, RespondWakeful DEF OnError
<1>14. CASE ParseError \/ ParseGarbled
  <2>1. CASE ParseError
    BY <1>13, <2>1 DEF ParseError
  <2>2. CASE ParseGarbled
    <3>1. pc = "parse"
      BY <2>2 DEF ParseGarbled
    <3>2. PICK k \in 1..Len(parser) :
            \/ OnError(SubSeq(parser, k + 1, Len(parser)))
            \/ /\ SendResponse(0) /\ AfterResponse(TRUE)
               /\ UNCHANGED <<peer, inbound, interest, ready, events>>
      BY <2>2, Zenon DEF ParseGarbled
    <3> QED
      BY <1>13, <3>1, <3>2, RespondWakeful
  <2> QED
    BY <1>14, <2>1, <2>2
<1>15. CASE ParseAgain
  BY <1>7, <1>15 DEF ParseAgain, Wakeful, EventsApart, InputNoticed, WritingRegistered, RoomNoticed
<1>16. CASE Register
  <2>1. /\ pc = "register" /\ pc' = "wait" /\ interest' = {"in", "out"}
        /\ ready' <=> ready \/ Poll({"in", "out"}) # {}
        /\ UNCHANGED <<peer, inbound, outbound, events, outBuf>>
    BY <1>16, Zenon DEF Register, Mod
  <2>2. Len(outbound) < Cap => Poll({"in", "out"}) # {}
    BY DEF Poll
  <2> QED
    BY <2>1, <2>2 DEF Wakeful, EventsApart, InputNoticed, WritingRegistered, RoomNoticed
<1>17. CASE UNCHANGED vars
  BY <1>17 DEF vars, Wakeful, EventsApart, InputNoticed, WritingRegistered, RoomNoticed
<1> QED
  BY <1>2, <1>3, <1>4, <1>5, <1>6, <1>8, <1>9, <1>10, <1>11, <1>12, <1>14, <1>15,
     <1>16, <1>17 DEF Next, ServerStep

\* Whenever the loop is about to sleep, unread input, a hang-up and room for
\* unsent output are on epoll's ready list, and EPOLLOUT is registered while
\* something is unsent.
THEOREM WakeupsKept == Spec => []NoLostWakeup
<1>1. Init => Wakeful
  BY DEF Init, Wakeful, EventsApart, InputNoticed, WritingRegistered, RoomNoticed
<1>2. TypeData /\ Wakeful /\ [Next]_vars => (TypeData /\ Wakeful)'
  BY DataStep, WakefulStep
<1> QED
  BY <1>1, <1>2, InitTypes, WakefulSuffices, PTL DEF Spec

-----------------------------------------------------------------------------
(* Replies.  What the client has read and what is in the socket is always a  *)
(* prefix of all the responses; while the connection lives, out_buf is the   *)
(* rest.                                                                     *)

Sent == received \o outbound

NothingLost ==
  pc # "closed" /\ peer # "reset" => Stream(answers) = Sent \o outBuf

SentInOrder ==
  \E rest \in Seq(Fragments) : Stream(answers) = Sent \o rest

LEMMA FunctionIsSeq ==
  ASSUME NEW S, NEW m \in Nat, NEW f \in [1..m -> S]
  PROVE  f \in Seq(S) /\ Len(f) = m
<1>1. f \in Seq(S)
  BY SeqDef
<1>2. Len(f) \in Nat /\ 1..Len(f) = 1..m
  BY <1>1, LenProperties
<1>3. \A x, y \in Nat : 1..x = 1..y => x = y
  <2> SUFFICES ASSUME NEW x \in Nat, NEW y \in Nat, 1..x = 1..y PROVE x = y
    OBVIOUS
  <2>1. \A z \in Int : z \in 1..x <=> z \in 1..y
    OBVIOUS
  <2>2. ~(x < y)
    <3> SUFFICES ASSUME x < y PROVE FALSE
      OBVIOUS
    <3> QED
      BY <2>1
  <2>3. ~(y < x)
    <3> SUFFICES ASSUME y < x PROVE FALSE
      OBVIOUS
    <3> QED
      BY <2>1
  <2> QED
    BY <2>2, <2>3
<1> QED
  BY <1>1, <1>2, <1>3

LEMMA StreamType ==
  ASSUME NEW a \in Seq(Nat)
  PROVE  /\ Stream(a) \in Seq(Fragments)
         /\ Len(Stream(a)) = 2 * Len(a)
         /\ \A k \in 1..2 * Len(a) :
              Stream(a)[k] = [no |-> a[(k + 1) \div 2], part |-> 2 - (k % 2)]
<1>1. Len(a) \in Nat /\ 2 * Len(a) \in Nat
  OBVIOUS
<1>2. ASSUME NEW k \in 1..2 * Len(a)
      PROVE  [no |-> a[(k + 1) \div 2], part |-> 2 - (k % 2)] \in Fragments
  <2>1. (k + 1) \div 2 \in 1..Len(a) /\ 2 - (k % 2) \in {1, 2}
    BY <1>1
  <2>2. a[(k + 1) \div 2] \in Nat
    BY <2>1, ElementOfSeq
  <2> QED
    BY <2>1, <2>2 DEF Fragments
<1>3. Stream(a) \in [1..2 * Len(a) -> Fragments]
  BY <1>2 DEF Stream
<1>4. Stream(a) \in Seq(Fragments) /\ Len(Stream(a)) = 2 * Len(a)
  BY <1>1, <1>3, FunctionIsSeq
<1> QED
  BY <1>4 DEF Stream

LEMMA StreamAppend ==
  ASSUME NEW a \in Seq(Nat), NEW n \in Nat
  PROVE  Stream(Append(a, n)) = Stream(a) \o ReplyTo(n)
<1> DEFINE b == Append(a, n)
           t == Stream(a) \o ReplyTo(n)
<1>1. /\ b \in Seq(Nat) /\ Len(b) = Len(a) + 1 /\ b[Len(a) + 1] = n
      /\ \A i \in 1..Len(a) : b[i] = a[i]
  BY AppendProperties
<1>2. /\ Stream(b) \in Seq(Fragments) /\ Len(Stream(b)) = 2 * Len(a) + 2
      /\ \A k \in 1..2 * Len(a) + 2 :
           Stream(b)[k] = [no |-> b[(k + 1) \div 2], part |-> 2 - (k % 2)]
  <2>1. Len(a) \in Nat /\ 2 * Len(b) = 2 * Len(a) + 2
    BY <1>1
  <2> HIDE DEF b
  <2>2. /\ Stream(b) \in Seq(Fragments) /\ Len(Stream(b)) = 2 * Len(b)
        /\ \A k \in 1..2 * Len(b) :
             Stream(b)[k] = [no |-> b[(k + 1) \div 2], part |-> 2 - (k % 2)]
    BY <1>1, StreamType
  <2> QED
    BY <2>1, <2>2
<1>3. /\ t \in Seq(Fragments) /\ Len(t) = 2 * Len(a) + 2
      /\ \A k \in 1..2 * Len(a) + 2 :
           t[k] = IF k <= 2 * Len(a) THEN Stream(a)[k] ELSE ReplyTo(n)[k - 2 * Len(a)]
  <2>1. /\ Stream(a) \in Seq(Fragments) /\ Len(Stream(a)) = 2 * Len(a)
        /\ ReplyTo(n) \in Seq(Fragments) /\ Len(ReplyTo(n)) = 2
    BY StreamType, ReplyType
  <2>2. /\ t \in Seq(Fragments) /\ Len(t) = Len(Stream(a)) + Len(ReplyTo(n))
        /\ \A k \in 1..Len(Stream(a)) + Len(ReplyTo(n)) :
             t[k] = IF k <= Len(Stream(a)) THEN Stream(a)[k]
                    ELSE ReplyTo(n)[k - Len(Stream(a))]
    BY <2>1, ConcatProperties
  <2> HIDE DEF t
  <2> QED
    BY <2>1, <2>2
<1> HIDE DEF b, t
<1>4. ASSUME NEW k \in 1..2 * Len(a) + 2 PROVE Stream(b)[k] = t[k]
  <2>1. CASE k <= 2 * Len(a)
    <3>1. (k + 1) \div 2 \in 1..Len(a)
      BY <2>1
    <3>2. Stream(a)[k] = [no |-> a[(k + 1) \div 2], part |-> 2 - (k % 2)]
      BY <2>1, StreamType
    <3> QED
      BY <1>1, <1>2, <1>3, <2>1, <3>1, <3>2
  <2>2. CASE k = 2 * Len(a) + 1
    <3>1. (k + 1) \div 2 = Len(a) + 1 /\ k % 2 = 1 /\ k - 2 * Len(a) = 1
      BY <2>2
    <3>2. t[k] = [no |-> n, part |-> 1]
      BY <1>3, <2>2, <3>1 DEF ReplyTo
    <3>3. Stream(b)[k] = [no |-> b[(k + 1) \div 2], part |-> 2 - (k % 2)]
      BY <1>2
    <3> QED
      BY <1>1, <3>1, <3>2, <3>3
  <2>3. CASE k = 2 * Len(a) + 2
    <3>1. (k + 1) \div 2 = Len(a) + 1 /\ k % 2 = 0 /\ k - 2 * Len(a) = 2
      BY <2>3
    <3>4. t[k] = ReplyTo(n)[2]
      BY <1>3, <2>3, <3>1
    <3>2. t[k] = [no |-> n, part |-> 2]
      BY <3>4 DEF ReplyTo
    <3>3. Stream(b)[k] = [no |-> b[(k + 1) \div 2], part |-> 2 - (k % 2)]
      BY <1>2
    <3> QED
      BY <1>1, <3>1, <3>2, <3>3
  <2> QED
    BY <2>1, <2>2, <2>3
<1>5. Stream(b) = t
  BY <1>2, <1>3, <1>4, SeqEqual
<1> QED
  BY <1>5 DEF b, t

LEMMA Assoc ==
  \A s, t, u \in Seq(Fragments) : (s \o t) \o u = s \o (t \o u)
  BY ConcatAssociative

\* A response joins the stream; what is not lost stays in order behind it.
LEMMA RespondInOrder ==
  ASSUME TypeData, NothingLost, SentInOrder, pc # "closed", NEW n \in Nat,
         SendResponse(n), UNCHANGED <<peer, received>>
  PROVE  NothingLost' /\ SentInOrder'
<1> DEFINE data == outBuf \o ReplyTo(n)
<1>1. data \in Seq(Fragments)
  BY ReplyType, ConcatProperties DEF TypeData
<1>2. Stream(answers') = Stream(answers) \o ReplyTo(n)
  BY StreamAppend DEF TypeData, SendResponse
<1>3. outbound' = outbound \o Written(data)
  BY DEF SendResponse
<1>4. /\ Sent \in Seq(Fragments) /\ ReplyTo(n) \in Seq(Fragments)
      /\ outBuf \in Seq(Fragments) /\ received \in Seq(Fragments)
      /\ outbound \in Seq(Fragments)
  BY ReplyType, ConcatProperties DEF TypeData, Sent
<1>5. CASE peer # "reset"
  <2>1. outBuf' = Unwritten(data)
    BY <1>5 DEF SendResponse
  <2>2. Stream(answers') = Sent \o data
    <3>1. Stream(answers) = Sent \o outBuf
      BY <1>5 DEF NothingLost
    <3>2. (Sent \o outBuf) \o ReplyTo(n) = Sent \o (outBuf \o ReplyTo(n))
      BY <1>4, Assoc, ZenonT(40)
    <3> QED
      BY <1>2, <3>1, <3>2, Zenon
  <2> HIDE DEF data
  <2>3. PICK w \in Seq(Fragments), u \in Seq(Fragments) :
          w = Written(data) /\ u = Unwritten(data) /\ w \o u = data
    BY <1>1, WriteSplits
  <2>4. Sent' = Sent \o w
    <3>1. w \in Seq(Fragments) /\ received \in Seq(Fragments)
      BY <1>4
    <3>2. outbound \in Seq(Fragments)
      BY <1>4
    <3>3. (received \o outbound) \o w = received \o (outbound \o w)
      BY <3>1, <3>2, Assoc, Zenon
    <3> QED
      BY <1>3, <2>3, <3>3, Zenon DEF Sent
  <2>5. Stream(answers') = Sent' \o outBuf'
    <3>1. Sent \in Seq(Fragments)
      BY <1>4
    <3>2. w \in Seq(Fragments) /\ u \in Seq(Fragments)
      OBVIOUS
    <3>3. (Sent \o w) \o u = Sent \o (w \o u)
      BY <3>1, <3>2, Assoc, Zenon
    <3> QED
      BY <2>1, <2>2, <2>3, <2>4, <3>3, Zenon
  <2> QED
    BY <2>1, <2>3, <2>5 DEF NothingLost, SentInOrder
<1>6. CASE peer = "reset"
  <2> HIDE DEF data
  <2>1. outbound' = outbound
    BY <1>1, <1>3, <1>4, <1>6, WriteSplits, ConcatEmptySeq
  <2>2. Sent' = Sent
    BY <2>1 DEF Sent
  <2>3. PICK rest \in Seq(Fragments) : Stream(answers) = Sent \o rest
    BY DEF SentInOrder
  <2>4. Stream(answers') = Sent' \o (rest \o ReplyTo(n))
    <3>1. (Sent \o rest) \o ReplyTo(n) = Sent \o (rest \o ReplyTo(n))
      <4>1. Sent \in Seq(Fragments) /\ ReplyTo(n) \in Seq(Fragments)
        BY <1>4
      <4>2. rest \in Seq(Fragments)
        BY <2>3
      <4> QED
        BY <4>1, <4>2, Assoc, Zenon
    <3> QED
      BY <1>2, <2>2, <2>3, <3>1, Zenon
  <2>5. rest \o ReplyTo(n) \in Seq(Fragments)
    BY <1>4, ConcatProperties
  <2> QED
    BY <1>6, <2>4, <2>5 DEF NothingLost, SentInOrder
<1> QED
  BY <1>5, <1>6

\* Reading moves a fragment from one sequence to the other.
LEMMA Move ==
  ASSUME NEW r \in Seq(Fragments), NEW o \in Seq(Fragments), o # <<>>
  PROVE  /\ Append(r, Head(o)) \o Tail(o) = r \o o
         /\ Append(r, Head(o)) \in Seq(Fragments) /\ Tail(o) \in Seq(Fragments)
<1> DEFINE a == Append(r, Head(o))
           t == Tail(o)
<1>1. /\ Head(o) = o[1] /\ Head(o) \in Fragments /\ Len(o) \in Nat \ {0}
      /\ t \in Seq(Fragments) /\ Len(t) = Len(o) - 1
      /\ \A i \in 1..Len(o) - 1 : t[i] = o[i + 1]
  BY HeadTailProperties, EmptySeq
<1>2. /\ a \in Seq(Fragments) /\ Len(a) = Len(r) + 1 /\ a[Len(r) + 1] = o[1]
      /\ \A i \in 1..Len(r) : a[i] = r[i]
  BY <1>1, AppendProperties
<1> HIDE DEF a, t
<1>3. /\ a \o t \in Seq(Fragments) /\ Len(a \o t) = Len(r) + Len(o)
      /\ \A i \in 1..Len(r) + Len(o) :
           (a \o t)[i] = IF i <= Len(r) + 1 THEN a[i] ELSE t[i - (Len(r) + 1)]
  <2>1. /\ a \o t \in Seq(Fragments) /\ Len(a \o t) = Len(a) + Len(t)
        /\ \A i \in 1..Len(a) + Len(t) :
             (a \o t)[i] = IF i <= Len(a) THEN a[i] ELSE t[i - Len(a)]
    BY <1>1, <1>2, ConcatProperties
  <2>2. Len(a) + Len(t) = Len(r) + Len(o)
    BY <1>1, <1>2
  <2> QED
    BY <1>2, <2>1, <2>2
<1>4. /\ r \o o \in Seq(Fragments) /\ Len(r \o o) = Len(r) + Len(o)
      /\ \A i \in 1..Len(r) + Len(o) :
           (r \o o)[i] = IF i <= Len(r) THEN r[i] ELSE o[i - Len(r)]
  BY ConcatProperties
<1>5. ASSUME NEW i \in 1..Len(r) + Len(o) PROVE (a \o t)[i] = (r \o o)[i]
  <2>1. CASE i <= Len(r)
    BY <1>2, <1>3, <1>4, <2>1
  <2>2. CASE i = Len(r) + 1
    BY <1>1, <1>2, <1>3, <1>4, <2>2
  <2>3. CASE i > Len(r) + 1
    <3>1. i - (Len(r) + 1) \in 1..Len(o) - 1 /\ (i - (Len(r) + 1)) + 1 = i - Len(r)
      BY <1>1, <2>3
    <3>2. t[i - (Len(r) + 1)] = o[i - Len(r)]
      BY <1>1, <3>1
    <3>3. ~(i <= Len(r)) /\ ~(i <= Len(r) + 1)
      BY <2>3
    <3> QED
      BY <1>3, <1>4, <3>2, <3>3
  <2>4. i <= Len(r) \/ i = Len(r) + 1 \/ i > Len(r) + 1
    OBVIOUS
  <2> QED
    BY <2>1, <2>2, <2>3, <2>4, Zenon
<1>6. a \o t = r \o o
  BY <1>3, <1>4, <1>5, SeqEqual
<1> QED
  BY <1>1, <1>2, <1>6 DEF a, t

LEMMA OutputKept ==
  ASSUME NothingLost, SentInOrder, UNCHANGED <<answers, received, outbound>>,
         \/ pc' = "closed"
         \/ /\ outBuf' = outBuf /\ pc # "closed"
            /\ peer' # "reset" => peer # "reset"
         \/ UNCHANGED <<pc, peer, outBuf>>
  PROVE  NothingLost' /\ SentInOrder'
  BY DEF NothingLost, SentInOrder, Sent

LEMMA OutputStep == TypeData /\ NothingLost /\ SentInOrder /\ [Next]_vars => NothingLost' /\ SentInOrder'
<1> SUFFICES ASSUME TypeData, NothingLost, SentInOrder, [Next]_vars
             PROVE  NothingLost' /\ SentInOrder'
  OBVIOUS
<1> USE DEF client, epoll, conn
<1>1. CASE SendHead \/ SendTail \/ SendBadLine
  BY <1>1, OutputKept DEF SendHead, SendTail, SendBadLine, Arrive
<1>2. CASE Receive
  <2>1. Sent' = Sent
    BY <1>2, Move DEF Receive, Sent, TypeData
  <2> QED
    BY <1>2, <2>1 DEF Receive, NothingLost, SentInOrder
<1>3. CASE Hangup
  BY <1>3, OutputKept DEF Hangup
<1>4. CASE MarkTimedOut \/ EpollWait \/ Modify \/ Register
  BY <1>4, OutputKept DEF MarkTimedOut, EpollWait, Modify, Register, Mod
<1>5. ASSUME CloseConnection PROVE NothingLost' /\ SentInOrder'
  BY <1>5, OutputKept DEF CloseConnection
<1>6. CASE OnHangup \/ OnTimedOut
  BY <1>5, <1>6 DEF OnHangup, OnTimedOut
<1>7. CASE OnWritable
  <2>1. PICK w \in Seq(Fragments), u \in Seq(Fragments) :
          /\ w = Written(outBuf) /\ u = Unwritten(outBuf) /\ w \o u = outBuf
          /\ peer = "reset" => w = <<>> /\ u = outBuf
    BY WriteSplits DEF TypeData
  <2>2. /\ outbound \in Seq(Fragments) /\ received \in Seq(Fragments)
        /\ outBuf \in Seq(Fragments) /\ Sent \in Seq(Fragments)
    BY ConcatProperties DEF TypeData, Sent
  <2>3. pc # "closed" /\ UNCHANGED <<peer, received, answers>>
    BY <1>7 DEF OnWritable
  <2>4. CASE closing /\ Unwritten(outBuf) = <<>>
    <3>1. outbound' = outbound \o w /\ outBuf' = <<>> /\ pc' = "closed"
      <4>1. outbound' = outbound \o outBuf /\ outBuf' = <<>> /\ pc' = "closed"
        BY <1>7, <2>4 DEF OnWritable
      <4>2. w = outBuf
        BY <2>1, <2>4, ConcatEmptySeq
      <4> QED
        BY <4>1, <4>2
    <3>2. Sent' = Sent \o w
      <4>1. (received \o outbound) \o w = received \o (outbound \o w)
        BY <2>2, Assoc, ZenonT(40)
      <4> QED
        BY <2>3, <3>1, <4>1, Zenon DEF Sent
    <3>3. CASE peer = "reset"
      <4>1. Sent' = Sent
        BY <2>1, <2>2, <3>2, <3>3, ConcatEmptySeq
      <4> QED
        BY <2>3, <3>1, <4>1 DEF NothingLost, SentInOrder
    <3>4. CASE peer # "reset"
      <4>1. Stream(answers) = Sent \o outBuf
        BY <2>3, <3>4 DEF NothingLost
      <4>2. w = outBuf
        BY <2>1, <2>4, ConcatEmptySeq
      <4>3. Sent' \in Seq(Fragments)
        BY <2>2, <3>2, ConcatProperties
      <4>4. Stream(answers') = Sent' \o <<>>
        BY <2>3, <3>2, <4>1, <4>2, <4>3, ConcatEmptySeq
      <4> QED
        BY <3>1, <4>4, EmptySeq DEF NothingLost, SentInOrder
    <3> QED
      BY <3>3, <3>4
  <2>5. CASE ~(closing /\ Unwritten(outBuf) = <<>>)
    <3>1. outbound' = outbound \o w /\ outBuf' = u
      BY <1>7, <2>1, <2>5 DEF OnWritable
    <3>2. Sent' = Sent \o w
      <4>1. (received \o outbound) \o w = received \o (outbound \o w)
        BY <2>2, Assoc, ZenonT(40)
      <4> QED
        BY <2>3, <3>1, <4>1, Zenon DEF Sent
    <3>3. CASE peer = "reset"
      <4>1. Sent' = Sent
        BY <2>1, <2>2, <3>2, <3>3, ConcatEmptySeq
      <4> QED
        BY <2>3, <3>3, <4>1 DEF NothingLost, SentInOrder
    <3>4. CASE peer # "reset"
      <4>1. Stream(answers) = Sent \o outBuf
        BY <2>3, <3>4 DEF NothingLost
      <4>2. (Sent \o w) \o u = Sent \o (w \o u)
        BY <2>2, Assoc, ZenonT(40)
      <4>3. Stream(answers') = Sent' \o outBuf'
        BY <2>1, <2>3, <3>1, <3>2, <4>1, <4>2, Zenon
      <4> QED
        BY <3>1, <4>3 DEF NothingLost, SentInOrder
    <3> QED
      BY <3>3, <3>4
  <2> QED
    BY <2>4, <2>5
<1>8. CASE OnReadable
  <2>1. CASE peer # "up"
    BY <1>5, <1>8, <2>1 DEF OnReadable
  <2>2. CASE peer = "up"
    <3>1. /\ UNCHANGED <<answers, received, outbound, outBuf, peer>>
          /\ pc # "closed"
      BY <1>8, <2>2 DEF OnReadable
    <3> QED
      BY <3>1, OutputKept
  <2> QED
    BY <2>1, <2>2
<1>9. CASE Execute
  <2>1. parser[1].no \in Nat
    <3>1. Len(parser) > 1
      BY <1>9 DEF Execute, Whole
    <3>2. parser[1] \in Fragments
      BY <3>1, ElementOfSeq DEF TypeData
    <3> QED
      BY <3>2 DEF Fragments
  <2> QED
    BY <1>9, <2>1, RespondInOrder DEF Execute
<1>10. ASSUME NEW rest, OnError(rest), pc = "parse" PROVE NothingLost' /\ SentInOrder'
  BY <1>10, RespondInOrder DEF OnError
<1>11. CASE ParseError
  BY <1>10, <1>11 DEF ParseError
<1>12. CASE ParseGarbled
  <2>1. pc = "parse"
    BY <1>12 DEF ParseGarbled
  <2>2. PICK k \in 1..Len(parser) :
          \/ OnError(SubSeq(parser, k + 1, Len(parser)))
          \/ SendResponse(0) /\ UNCHANGED <<peer, received>>
    BY <1>12, Zenon DEF ParseGarbled
  <2> QED
    BY <1>10, <2>1, <2>2, RespondInOrder
<1>13. CASE ParseAgain
  <2>1. CASE closing /\ outBuf = <<>>
    BY <1>5, <1>13, <2>1 DEF ParseAgain
  <2>2. CASE ~(closing /\ outBuf = <<>>)
    <3>1. UNCHANGED <<answers, received, outbound, outBuf, peer>> /\ pc # "closed"
      BY <1>13, <2>2 DEF ParseAgain
    <3> QED
      BY <3>1, OutputKept
  <2> QED
    BY <2>1, <2>2
<1>14. CASE UNCHANGED vars
  BY <1>14, OutputKept DEF vars
<1> QED
  BY <1>1, <1>2, <1>3, <1>4, <1>6, <1>7, <1>8, <1>9, <1>11, <1>12, <1>13, <1>14
     DEF Next, ServerStep

LEMMA InitOutput == Init => NothingLost /\ SentInOrder
<1> SUFFICES ASSUME Init PROVE NothingLost /\ SentInOrder
  OBVIOUS
<1>1. answers = <<>> /\ received = <<>> /\ outbound = <<>> /\ outBuf = <<>>
  BY DEF Init
<1>2. Stream(answers) = <<>>
  <2>1. answers \in Seq(Nat) /\ Len(answers) = 0
    BY <1>1, EmptySeq
  <2>3. Stream(answers) \in Seq(Fragments) /\ Len(Stream(answers)) = 2 * Len(answers)
    BY <2>1, StreamType
  <2>2. Stream(answers) \in Seq(Fragments) /\ Len(Stream(answers)) = 0
    BY <2>1, <2>3
  <2> QED
    BY <2>2, EmptySeq
<1>3. Sent \o outBuf = <<>> /\ Sent \o <<>> = <<>>
  BY <1>1, EmptySeq, ConcatEmptySeq DEF Sent
<1> QED
  BY <1>2, <1>3, EmptySeq DEF NothingLost, SentInOrder

\* As long as the connection lives, everything that was answered has been read,
\* is under way or waits in out_buf, in order and complete.
THEOREM RepliesKept == Spec => []NoReplyLost
<1>1. TypeData /\ NothingLost /\ SentInOrder /\ [Next]_vars
        => (TypeData /\ NothingLost /\ SentInOrder)'
  BY DataStep, OutputStep
<1>2. TypeData /\ NothingLost => NoReplyLost
  <2> SUFFICES ASSUME TypeData, NothingLost PROVE NoReplyLost
    OBVIOUS
  <2>1. received \in Seq(Fragments) /\ outbound \in Seq(Fragments) /\ outBuf \in Seq(Fragments)
    BY DEF TypeData
  <2>2. (received \o outbound) \o outBuf = received \o (outbound \o outBuf)
    BY <2>1, Assoc, Zenon
  <2> QED
    BY <2>2, Zenon DEF NothingLost, NoReplyLost, Sent
<1> QED
  BY <1>1, <1>2, InitTypes, InitOutput, PTL DEF Spec

-----------------------------------------------------------------------------
(* Requests.  The heads of requests still to be parsed carry increasing      *)
(* numbers, larger than all that was answered; one that was only begun is at *)
(* the very end.                                                             *)

Input == parser \o inbound

InputOrdered ==
  pc # "closed" =>
    /\ \A j \in 1..Len(Input) : Input[j].part = 1 =>
         /\ Input[j].no \in 1..asked
         /\ half /\ Input[j].no = asked => j = Len(Input)
    /\ \A i, j \in 1..Len(Input) :
         i < j /\ Input[i].part = 1 /\ Input[j].part = 1 => Input[i].no < Input[j].no
    /\ \A i \in 1..Len(answers) :
         /\ answers[i] <= asked
         /\ \A j \in 1..Len(Input) : Input[j].part = 1 => answers[i] < Input[j].no

LEMMA InputType == TypeData => Input \in Seq(Fragments)
  BY ConcatProperties DEF TypeData, Input

LEMMA InputGrows ==
  ASSUME TypeData, NEW f \in Fragments, inbound' = Append(inbound, f), parser' = parser
  PROVE  Input' = Append(Input, f)
<1>1. /\ parser \in Seq(Fragments) /\ inbound \in Seq(Fragments)
      /\ <<f>> \in Seq(Fragments)
  BY DEF TypeData
<1>2. Append(inbound, f) = inbound \o <<f>> /\ Append(Input, f) = Input \o <<f>>
  BY <1>1, InputType, AppendIsConcat
<1>3. (parser \o inbound) \o <<f>> = parser \o (inbound \o <<f>>)
  BY <1>1, Assoc, Zenon
<1> QED
  BY <1>2, <1>3, Zenon DEF Input

LEMMA InputShrinks ==
  ASSUME TypeData, NEW k \in 0..Len(parser),
         parser' = SubSeq(parser, k + 1, Len(parser)), inbound' = inbound
  PROVE  /\ Len(Input') = Len(Input) - k
         /\ \A j \in 1..Len(Input') : Input'[j] = Input[j + k]
         /\ Input' \in Seq(Fragments)
<1>1. /\ parser \in Seq(Fragments) /\ inbound \in Seq(Fragments)
      /\ Len(parser) \in Nat /\ Len(inbound) \in Nat
  BY DEF TypeData
<1>2. /\ parser' \in Seq(Fragments) /\ Len(parser') = Len(parser) - k
      /\ \A j \in 1..(Len(parser) - k) : parser'[j] = parser[k + j]
  BY <1>1, Cut
<1>3. /\ Len(Input) = Len(parser) + Len(inbound)
      /\ \A j \in 1..Len(parser) + Len(inbound) :
           Input[j] = IF j <= Len(parser) THEN parser[j] ELSE inbound[j - Len(parser)]
  BY <1>1, ConcatProperties DEF Input
<1>4. Input' = parser' \o inbound
  BY DEF Input
<1>5. /\ Input' \in Seq(Fragments)
      /\ Len(Input') = Len(parser') + Len(inbound)
      /\ \A j \in 1..Len(parser') + Len(inbound) :
           Input'[j] = IF j <= Len(parser') THEN parser'[j] ELSE inbound[j - Len(parser')]
  BY <1>1, <1>2, <1>4, ConcatProperties
<1>6. Len(Input') = Len(Input) - k
  BY <1>1, <1>2, <1>3, <1>5
<1>7. ASSUME NEW j \in 1..Len(Input') PROVE Input'[j] = Input[j + k]
  <2>1. j \in 1..Len(parser') + Len(inbound) /\ j + k \in 1..Len(parser) + Len(inbound)
    BY <1>1, <1>2, <1>3, <1>5
  <2>2. CASE j <= Len(parser) - k
    <3>1. Input'[j] = parser[k + j]
      BY <1>1, <1>2, <1>5, <2>1, <2>2
    <3>2. Input[j + k] = parser[j + k]
      BY <1>1, <1>3, <2>1, <2>2
    <3> QED
      BY <3>1, <3>2
  <2>3. CASE ~(j <= Len(parser) - k)
    <3>1. Input'[j] = inbound[j - (Len(parser) - k)]
      BY <1>1, <1>2, <1>5, <2>1, <2>3
    <3>2. Input[j + k] = inbound[(j + k) - Len(parser)]
      BY <1>1, <1>3, <2>1, <2>3
    <3>3. j - (Len(parser) - k) = (j + k) - Len(parser)
      BY <1>1
    <3> QED
      BY <3>1, <3>2, <3>3
  <2> QED
    BY <2>2, <2>3
<1> QED
  BY <1>5, <1>6, <1>7

\* Answers are added only for requests at the front, or as zeros.
LEMMA OrderedShrinks ==
  ASSUME TypeData, InputOrdered, pc # "closed", NEW k \in 1..Len(parser),
         parser' = SubSeq(parser, k + 1, Len(parser)),
         NEW n \in Nat, answers' = Append(answers, n),
         \/ n = 0
         \/ n = parser[1].no /\ parser[1].part = 1,
         UNCHANGED <<inbound, asked, half>>
  PROVE  InputOrdered'
<1>1. /\ Len(Input') = Len(Input) - k
      /\ \A j \in 1..Len(Input') : Input'[j] = Input[j + k]
  BY InputShrinks
<1>2. Len(Input) \in Nat /\ k \in Nat /\ k >= 1 /\ k <= Len(Input) /\ Input[1] = parser[1]
  BY ConcatProperties DEF TypeData, Input
<1>3. \A j \in 1..Len(Input') : j + k \in 1..Len(Input) /\ j + k > 1
  BY <1>1, <1>2
<1>4. /\ Len(answers') = Len(answers) + 1 /\ Len(answers) \in Nat
      /\ answers'[Len(answers) + 1] = n
      /\ \A i \in 1..Len(answers) : answers'[i] = answers[i]
  BY AppendProperties DEF TypeData
<1>5. asked' = asked /\ half' = half /\ asked \in Nat
  BY BoundsAssumption DEF TypeData
<1>6. \A j \in 1..Len(Input') : Input'[j].part = 1 =>
        /\ Input'[j].no \in 1..asked'
        /\ half' /\ Input'[j].no = asked' => j = Len(Input')
  <2> SUFFICES ASSUME NEW j \in 1..Len(Input'), Input'[j].part = 1
               PROVE  /\ Input'[j].no \in 1..asked'
                      /\ half' /\ Input'[j].no = asked' => j = Len(Input')
    OBVIOUS
  <2>1. j + k \in 1..Len(Input) /\ Input[j + k].part = 1 /\ Input'[j].no = Input[j + k].no
    BY <1>1, <1>3
  <2>2. /\ Input[j + k].no \in 1..asked
        /\ half /\ Input[j + k].no = asked => j + k = Len(Input)
    BY <2>1, Zenon DEF InputOrdered
  <2>3. j + k = Len(Input) => j = Len(Input')
    <3>1. Len(Input') = Len(Input) - k
      BY <1>1
    <3>2. \A x \in Int : x + k = Len(Input) => x = Len(Input) - k
      BY <1>2
    <3>3. j \in Int
      BY <1>1, <1>2
    <3> QED
      BY <3>1, <3>2, <3>3, Zenon
  <2>4. Input'[j].no \in 1..asked'
    BY <1>5, <2>1, <2>2
  <2>5. half' /\ Input'[j].no = asked' => j = Len(Input')
    <3> SUFFICES ASSUME half', Input'[j].no = asked' PROVE j = Len(Input')
      OBVIOUS
    <3>1. half /\ Input[j + k].no = asked
      BY <1>5, <2>1
    <3> QED
      BY <2>2, <2>3, <3>1, Zenon
  <2> QED
    BY <2>4, <2>5, Zenon
<1>7. \A i, j \in 1..Len(Input') :
        i < j /\ Input'[i].part = 1 /\ Input'[j].part = 1 => Input'[i].no < Input'[j].no
  <2> SUFFICES ASSUME NEW i \in 1..Len(Input'), NEW j \in 1..Len(Input'),
                      i < j, Input'[i].part = 1, Input'[j].part = 1
               PROVE  Input'[i].no < Input'[j].no
    OBVIOUS
  <2>1. i + k \in 1..Len(Input) /\ j + k \in 1..Len(Input) /\ i + k < j + k
    BY <1>2, <1>3
  <2> QED
    BY <1>1, <2>1 DEF InputOrdered
<1>8. n <= asked /\ \A j \in 1..Len(Input') : Input'[j].part = 1 => n < Input'[j].no
  <2>1. CASE n = 0
    BY <1>5, <1>6, <2>1
  <2>2. CASE n = parser[1].no /\ parser[1].part = 1
    <3>1. n = Input[1].no /\ Input[1].part = 1 /\ 1 \in 1..Len(Input)
      BY <1>2, <2>2
    <3>2. n <= asked
      BY <1>5, <3>1 DEF InputOrdered
    <3>3. ASSUME NEW j \in 1..Len(Input'), Input'[j].part = 1 PROVE n < Input'[j].no
      <4>1. j + k \in 1..Len(Input) /\ 1 < j + k /\ Input[j + k].part = 1
        BY <1>1, <1>3, <3>3
      <4>2. Input[1].no < Input[j + k].no
        BY <3>1, <4>1 DEF InputOrdered
      <4> QED
        BY <1>1, <3>1, <4>2
    <3> QED
      BY <3>2, <3>3
  <2> QED
    BY <2>1, <2>2
<1>9. \A i \in 1..Len(answers) :
        /\ answers[i] <= asked
        /\ \A j \in 1..Len(Input') : Input'[j].part = 1 => answers[i] < Input'[j].no
  BY <1>1, <1>3 DEF InputOrdered
<1>10. \A i \in 1..Len(answers') :
         /\ answers'[i] <= asked'
         /\ \A j \in 1..Len(Input') : Input'[j].part = 1 => answers'[i] < Input'[j].no
  <2> SUFFICES ASSUME NEW i \in 1..Len(answers')
               PROVE  /\ answers'[i] <= asked'
                      /\ \A j \in 1..Len(Input') : Input'[j].part = 1 => answers'[i] < Input'[j].no
    OBVIOUS
  <2>1. CASE i = Len(answers) + 1
    BY <1>4, <1>5, <1>8, <2>1
  <2>2. CASE i \in 1..Len(answers)
    BY <1>4, <1>5, <1>9, <2>2
  <2> QED
    BY <1>4, <2>1, <2>2
<1> QED
  BY <1>6, <1>7, <1>10, Zenon DEF InputOrdered

LEMMA OrderedGrows ==
  ASSUME TypeData, TypeFlags, InputOrdered, pc # "closed", NEW f \in Fragments,
         inbound' = Append(inbound, f), parser' = parser, answers' = answers,
         \/ f.part = 1 /\ f.no = asked + 1 /\ asked' = asked + 1
         \/ f.part # 1 /\ asked' = asked /\ ~half'
  PROVE  InputOrdered'
<1>1. Input \in Seq(Fragments) /\ Len(Input) \in Nat
  BY InputType
<1>2. /\ Len(Input') = Len(Input) + 1
      /\ Input'[Len(Input) + 1] = f
      /\ \A j \in 1..Len(Input) : Input'[j] = Input[j]
  BY <1>1, InputGrows, AppendProperties
<1>3. asked \in Nat /\ asked' \in Nat /\ asked <= asked'
  BY BoundsAssumption DEF TypeData
<1>4. \A j \in 1..Len(Input) : Input[j].part = 1 => Input[j].no \in 1..asked
  BY Zenon DEF InputOrdered
<1>5. \A j \in 1..Len(Input') : Input'[j].part = 1 =>
        /\ Input'[j].no \in 1..asked'
        /\ half' /\ Input'[j].no = asked' => j = Len(Input')
  <2> SUFFICES ASSUME NEW j \in 1..Len(Input'), Input'[j].part = 1
               PROVE  /\ Input'[j].no \in 1..asked'
                      /\ half' /\ Input'[j].no = asked' => j = Len(Input')
    OBVIOUS
  <2>1. CASE j = Len(Input) + 1
    BY <1>2, <1>3, <2>1
  <2>2. CASE j \in 1..Len(Input)
    <3>1. Input'[j].no \in 1..asked
      BY <1>2, <1>4, <2>2
    <3>2. asked' = asked + 1 => Input'[j].no # asked'
      BY <1>3, <3>1
    <3>3. half' => asked' = asked + 1
      BY Zenon
    <3>4. Input'[j].no \in 1..asked'
      BY <1>3, <3>1
    <3> QED
      BY <3>2, <3>3, <3>4, Zenon
  <2> QED
    BY <1>1, <1>2, <2>1, <2>2
<1>6. \A i, j \in 1..Len(Input') :
        i < j /\ Input'[i].part = 1 /\ Input'[j].part = 1 => Input'[i].no < Input'[j].no
  <2> SUFFICES ASSUME NEW i \in 1..Len(Input'), NEW j \in 1..Len(Input'),
                      i < j, Input'[i].part = 1, Input'[j].part = 1
               PROVE  Input'[i].no < Input'[j].no
    OBVIOUS
  <2>1. i \in 1..Len(Input) /\ Input[i].part = 1 /\ Input'[i].no = Input[i].no
    BY <1>1, <1>2
  <2>2. CASE j = Len(Input) + 1
    BY <1>2, <1>3, <1>4, <2>1, <2>2
  <2>3. CASE j \in 1..Len(Input)
    BY <1>2, <2>1, <2>3 DEF InputOrdered
  <2>4. j = Len(Input) + 1 \/ j \in 1..Len(Input)
    BY <1>1, <1>2
  <2> QED
    BY <2>2, <2>3, <2>4, Zenon
<1>7. \A i \in 1..Len(answers) :
        /\ answers[i] <= asked'
        /\ \A j \in 1..Len(Input') : Input'[j].part = 1 => answers[i] < Input'[j].no
  <2> SUFFICES ASSUME NEW i \in 1..Len(answers)
               PROVE  /\ answers[i] <= asked'
                      /\ \A j \in 1..Len(Input') : Input'[j].part = 1 => answers[i] < Input'[j].no
    OBVIOUS
  <2>1. answers[i] \in Nat /\ answers[i] <= asked
    BY ElementOfSeq DEF InputOrdered, TypeData
  <2>2. ASSUME NEW j \in 1..Len(Input'), Input'[j].part = 1 PROVE answers[i] < Input'[j].no
    <3>1. CASE j = Len(Input) + 1
      BY <1>2, <1>3, <2>1, <2>2, <3>1
    <3>2. CASE j \in 1..Len(Input)
      BY <1>2, <2>2, <3>2 DEF InputOrdered
    <3> QED
      BY <1>1, <1>2, <3>1, <3>2
  <2> QED
    BY <1>3, <2>1, <2>2
<1> QED
  BY <1>5, <1>6, <1>7, Zenon DEF InputOrdered

\* Nothing changes in what the numbers are about, or the connection is closed.
LEMMA OrderedKept ==
  ASSUME InputOrdered,
         \/ pc' = "closed"
         \/ pc # "closed" /\ Input' = Input /\ UNCHANGED <<asked, half, answers>>
  PROVE  InputOrdered'
  BY Zenon DEF InputOrdered

LEMMA RequestType == TypeData /\ Whole => parser[1].no \in Nat /\ 2 \in 1..Len(parser)
<1> SUFFICES ASSUME TypeData, Whole PROVE parser[1].no \in Nat /\ 2 \in 1..Len(parser)
  OBVIOUS
<1>1. Len(parser) > 1 /\ parser \in Seq(Fragments)
  BY DEF Whole, TypeData
<1>2. parser[1] \in Fragments
  BY <1>1, ElementOfSeq
<1> QED
  BY <1>1, <1>2 DEF Fragments

\* The responses the parsing loop makes, as far as the numbers go.
Responds(k, n) ==
  /\ parser' = SubSeq(parser, k + 1, Len(parser))
  /\ answers' = Append(answers, n)
  /\ UNCHANGED <<asked, half, inbound, received>>

LEMMA ExecuteResponds == TypeData /\ Execute => Whole /\ Responds(2, parser[1].no)
  BY DEF Execute, SendResponse, Responds

LEMMA ErrorResponds ==
  TypeData /\ (ParseError \/ ParseGarbled) => \E k \in 1..Len(parser) : Responds(k, 0)
<1> SUFFICES ASSUME TypeData, ParseError \/ ParseGarbled
             PROVE  \E k \in 1..Len(parser) : Responds(k, 0)
  OBVIOUS
<1>1. CASE ParseError
  <2>1. parser # <<>> /\ parser \in Seq(Fragments) /\ OnError(Tail(parser))
    BY <1>1 DEF ParseError, Malformed, TypeData
  <2>2. Tail(parser) = SubSeq(parser, 1 + 1, Len(parser)) /\ 1 \in 1..Len(parser)
    BY <2>1, TailIsSubSeq, EmptySeq
  <2>3. Responds(1, 0)
    BY <2>1, <2>2 DEF OnError, SendResponse, Responds
  <2> QED
    BY <2>2, <2>3
<1>2. CASE ParseGarbled
  <2>1. PICK k \in 1..Len(parser) :
          LET rest == SubSeq(parser, k + 1, Len(parser))
          IN  \/ OnError(rest)
              \/ /\ parser' = rest
                 /\ SendResponse(0)
                 /\ UNCHANGED <<asked, half, inbound, received>>
    BY <1>2, Zenon DEF ParseGarbled
  <2>2. Responds(k, 0)
    BY <2>1 DEF OnError, SendResponse, Responds
  <2> QED
    BY <2>2
<1> QED
  BY <1>1, <1>2

LEMMA OrderedStep ==
  TypeData /\ TypeFlags /\ InputOrdered /\ [Next]_vars => InputOrdered'
<1> SUFFICES ASSUME TypeData, TypeFlags, InputOrdered, [Next]_vars PROVE InputOrdered'
  OBVIOUS
<1> USE DEF client, epoll, conn
<1>1. CASE SendHead
  <2>1. /\ asked' = asked + 1 /\ inbound' = Append(inbound, [no |-> asked + 1, part |-> 1])
        /\ parser' = parser /\ answers' = answers /\ pc # "closed"
    BY <1>1 DEF SendHead, Arrive
  <2>2. [no |-> asked + 1, part |-> 1] \in Fragments
    BY BoundsAssumption DEF TypeData, Fragments
  <2> QED
    BY <2>1, <2>2, OrderedGrows
<1>2. CASE SendTail
  <2>1. /\ asked' = asked /\ ~half' /\ inbound' = Append(inbound, [no |-> asked, part |-> 2])
        /\ parser' = parser /\ answers' = answers /\ pc # "closed"
    BY <1>2 DEF SendTail, Arrive
  <2>2. [no |-> asked, part |-> 2] \in Fragments
    BY BoundsAssumption DEF TypeData, Fragments
  <2> QED
    BY <2>1, <2>2, OrderedGrows
<1>3. CASE SendBadLine
  <2>1. /\ asked' = asked /\ inbound' = Append(inbound, BadLine)
        /\ parser' = parser /\ answers' = answers /\ pc # "closed"
    BY <1>3 DEF SendBadLine, Arrive
  <2>2. ~half'
    BY <1>3, Zenon DEF SendBadLine
  <2>3. BadLine.part # 1
    BY DEF BadLine
  <2> QED
    BY <2>1, <2>2, <2>3, BadLineType, OrderedGrows
<1>4. CASE Receive
  <2>1. UNCHANGED <<parser, inbound, asked, half, answers, pc>>
    BY <1>4 DEF Receive
  <2> QED
    BY <2>1, OrderedKept DEF Input, InputOrdered
<1>5. CASE Hangup \/ MarkTimedOut \/ EpollWait \/ Modify \/ Register
  <2>1. UNCHANGED <<parser, inbound, asked, half, answers>> /\ pc # "closed"
    BY <1>5 DEF Hangup, MarkTimedOut, EpollWait, Modify, Register
  <2> QED
    BY <2>1, OrderedKept DEF Input
<1>6. CASE OnHangup \/ OnTimedOut
  BY <1>6, OrderedKept DEF OnHangup, OnTimedOut, CloseConnection
<1>7. CASE OnWritable
  <2>1. \/ pc' = "closed"
        \/ pc # "closed" /\ UNCHANGED <<parser, inbound, asked, half, answers>>
    BY <1>7 DEF OnWritable
  <2> QED
    BY <2>1, OrderedKept DEF Input
<1>8. CASE OnReadable
  <2>1. CASE peer # "up"
    BY <1>8, <2>1, OrderedKept DEF OnReadable, CloseConnection
  <2>2. CASE peer = "up"
    <3>1. /\ parser' = parser \o inbound /\ inbound' = <<>> /\ pc # "closed"
          /\ UNCHANGED <<asked, half, answers>>
      BY <1>8, <2>2 DEF OnReadable
    <3>2. Input' = Input
      BY <3>1, InputType, ConcatEmptySeq DEF Input
    <3> QED
      BY <3>1, <3>2, OrderedKept
  <2> QED
    BY <2>1, <2>2
<1>9. CASE Execute
  <2>1. Whole /\ Responds(2, parser[1].no) /\ pc # "closed"
    BY <1>9, ExecuteResponds DEF Execute
  <2>2. parser[1].no \in Nat /\ 2 \in 1..Len(parser) /\ parser[1].part = 1
    BY <2>1, RequestType DEF Whole
  <2> QED
    BY <2>1, <2>2, OrderedShrinks DEF Responds
<1>10. CASE ParseError \/ ParseGarbled
  <2>1. PICK k \in 1..Len(parser) : Responds(k, 0)
    BY <1>10, ErrorResponds
  <2>2. pc # "closed"
    BY <1>10 DEF ParseError, ParseGarbled
  <2> QED
    BY <2>1, <2>2, OrderedShrinks DEF Responds
<1>11. CASE ParseAgain
  <2>1. \/ pc' = "closed"
        \/ pc # "closed" /\ UNCHANGED <<parser, inbound, asked, half, answers>>
    BY <1>11 DEF ParseAgain, CloseConnection
  <2> QED
    BY <2>1, OrderedKept DEF Input
<1>12. CASE UNCHANGED vars
  BY <1>12, OrderedKept DEF vars, Input, InputOrdered
<1> QED
  BY <1>1, <1>2, <1>3, <1>4, <1>5, <1>6, <1>7, <1>8, <1>9, <1>10, <1>11, <1>12
     DEF Next, ServerStep

-----------------------------------------------------------------------------
(* The refinement of ReplyPipe.                                              *)

AskedFully == IF half THEN asked - 1 ELSE asked
Replies == [i \in 1..Len(received) \div 2 |-> received[2 * i].no]

\* Reading a fragment completes a reply, the next one in order, or does not.
LEMMA ReceiveReplies ==
  ASSUME TypeData, SentInOrder, Receive
  PROVE  \/ Replies' = Replies
         \/ Len(Replies) < Len(answers) /\ Replies' = Append(Replies, answers[Len(Replies) + 1])
<1> DEFINE m == Len(received)
<1>1. /\ received \in Seq(Fragments) /\ outbound \in Seq(Fragments) /\ outbound # <<>>
      /\ answers \in Seq(Nat) /\ received' = Append(received, Head(outbound))
  BY DEF TypeData, Receive
<1>2. m \in Nat /\ Len(outbound) \in Nat \ {0} /\ Len(answers) \in Nat
  BY <1>1, EmptySeq
<1>3. PICK rest \in Seq(Fragments) : Stream(answers) = Sent \o rest
  BY DEF SentInOrder
<1>4. Head(outbound) = Stream(answers)[m + 1] /\ m + 1 \in 1..2 * Len(answers)
  <2>1. /\ Sent \in Seq(Fragments) /\ Len(Sent) = m + Len(outbound)
        /\ \A i \in 1..m + Len(outbound) :
             Sent[i] = IF i <= m THEN received[i] ELSE outbound[i - m]
    BY <1>1, ConcatProperties DEF Sent
  <2>2. /\ Len(Sent \o rest) = Len(Sent) + Len(rest)
        /\ \A i \in 1..Len(Sent) + Len(rest) :
             (Sent \o rest)[i] = IF i <= Len(Sent) THEN Sent[i] ELSE rest[i - Len(Sent)]
    <3>1. Sent \in Seq(Fragments)
      BY <2>1
    <3> QED
      BY <3>1, ConcatProperties, Zenon
  <2>3. Len(rest) \in Nat /\ Len(Stream(answers)) = 2 * Len(answers)
    BY <1>1, StreamType
  <2>4. m + 1 \in 1..m + Len(outbound) /\ ~(m + 1 <= m) /\ (m + 1) - m = 1
    BY <1>2
  <2>5. Sent[m + 1] = outbound[1]
    BY <2>1, <2>4
  <2>6. Stream(answers)[m + 1] = Sent[m + 1]
    BY <1>2, <1>3, <2>1, <2>2, <2>3
  <2>7. m + 1 <= 2 * Len(answers)
    BY <1>2, <1>3, <2>1, <2>2, <2>3
  <2> QED
    BY <1>1, <1>2, <2>5, <2>6, <2>7, HeadTailProperties
<1>5. /\ Len(received') = m + 1 /\ received'[m + 1] = Head(outbound)
      /\ \A i \in 1..m : received'[i] = received[i]
  BY <1>1, HeadTailProperties, AppendProperties
<1>6. Replies' = [i \in 1..(m + 1) \div 2 |-> received'[2 * i].no]
  BY <1>5 DEF Replies
<1>7. \A i \in 1..m \div 2 : 2 * i \in 1..m
  BY <1>2
<1>8. \A i \in 1..m \div 2 : received'[2 * i].no = received[2 * i].no
  BY <1>5, <1>7
<1>9. CASE m % 2 = 0
  <2>1. (m + 1) \div 2 = m \div 2
    BY <1>2, <1>9
  <2> QED
    BY <1>6, <1>8, <2>1 DEF Replies
<1>10. CASE m % 2 = 1
  <2>1. /\ (m + 1) \div 2 = m \div 2 + 1 /\ 2 * (m \div 2 + 1) = m + 1
        /\ ((m + 1) + 1) \div 2 = m \div 2 + 1 /\ m \div 2 \in Nat
        /\ m \div 2 + 1 <= Len(answers)
    BY <1>2, <1>4, <1>10
  <2>2. Head(outbound).no = answers[m \div 2 + 1]
    <3>1. Stream(answers)[m + 1] =
            [no |-> answers[((m + 1) + 1) \div 2], part |-> 2 - ((m + 1) % 2)]
      BY <1>1, <1>4, StreamType
    <3> QED
      BY <1>4, <2>1, <3>1
  <2>3. Replies \in Seq(Nat) /\ Len(Replies) = m \div 2
        /\ \A i \in 1..m \div 2 : Replies[i] = received[2 * i].no
    <3>1. \A i \in 1..m \div 2 : received[2 * i].no \in Nat
      <4>1. \A j \in 1..m : received[j] \in Fragments
        BY <1>1, ElementOfSeq
      <4> QED
        BY <1>7, <4>1 DEF Fragments
    <3>2. Replies \in [1..m \div 2 -> Nat]
      BY <3>1 DEF Replies
    <3>3. Replies \in Seq(Nat) /\ Len(Replies) = m \div 2
      BY <2>1, <3>2, FunctionIsSeq
    <3> QED
      BY <3>3 DEF Replies
  <2>4. answers[m \div 2 + 1] \in Nat
    BY <1>1, <2>1, ElementOfSeq
  <2>5. /\ Append(Replies, answers[m \div 2 + 1]) \in Seq(Nat)
        /\ Len(Append(Replies, answers[m \div 2 + 1])) = m \div 2 + 1
        /\ Append(Replies, answers[m \div 2 + 1])[m \div 2 + 1] = answers[m \div 2 + 1]
        /\ \A i \in 1..m \div 2 : Append(Replies, answers[m \div 2 + 1])[i] = Replies[i]
    BY <2>3, <2>4, AppendProperties
  <2>6. \A i \in 1..m \div 2 + 1 :
          Replies'[i] = Append(Replies, answers[m \div 2 + 1])[i]
    <3> SUFFICES ASSUME NEW i \in 1..m \div 2 + 1
                 PROVE  Replies'[i] = Append(Replies, answers[m \div 2 + 1])[i]
      OBVIOUS
    <3>1. Replies'[i] = received'[2 * i].no
      BY <1>6, <2>1
    <3>2. CASE i = m \div 2 + 1
      <4>1. received'[2 * i].no = answers[m \div 2 + 1]
        BY <1>5, <2>1, <2>2, <3>2
      <4> QED
        BY <2>5, <3>1, <3>2, <4>1
    <3>3. CASE i \in 1..m \div 2
      BY <1>8, <2>3, <2>5, <3>1, <3>3
    <3>4. i = m \div 2 + 1 \/ i \in 1..m \div 2
      BY <2>1
    <3> QED
      BY <3>2, <3>3, <3>4, Zenon
  <2>7. Replies' \in Seq(Nat) /\ Len(Replies') = m \div 2 + 1
    <3>1. \A i \in 1..m \div 2 + 1 : Replies'[i] \in Nat
      BY <2>5, <2>6, ElementOfSeq
    <3>2. Replies' \in [1..m \div 2 + 1 -> Nat]
      BY <1>6, <2>1, <3>1
    <3> QED
      BY <2>1, <3>2, FunctionIsSeq
  <2>8. Replies' = Append(Replies, answers[m \div 2 + 1])
    BY <2>5, <2>6, <2>7, SeqEqual
  <2> QED
    BY <2>1, <2>3, <2>8
<1>11. m % 2 = 0 \/ m % 2 = 1
  BY <1>2
<1> QED
  BY <1>9, <1>10, <1>11

LEMMA FullCount ==
  ASSUME TypeData, TypeFlags, UNCHANGED <<asked, half>>
  PROVE  AskedFully' = AskedFully
  BY Zenon DEF AskedFully

\* The front of the parser is a request sent in full and not answered yet.
LEMMA FrontIsNext ==
  ASSUME TypeData, TypeFlags, InputOrdered, pc # "closed", Whole
  PROVE  /\ parser[1].no \in 1..AskedFully
         /\ \A i \in DOMAIN answers : answers[i] < parser[1].no
<1>1. /\ Len(Input) \in Nat /\ Len(Input) > 1 /\ Input[1] = parser[1]
      /\ parser[1].part = 1
  <2>1. Len(parser) > 1 /\ parser[1].part = 1 /\ parser \in Seq(Fragments)
        /\ inbound \in Seq(Fragments)
    BY DEF Whole, TypeData
  <2>2. Len(Input) = Len(parser) + Len(inbound) /\ Len(inbound) \in Nat /\ Len(parser) \in Nat
    BY <2>1, ConcatProperties DEF Input
  <2>3. Input[1] = parser[1]
    BY <2>1, <2>2, ConcatProperties DEF Input
  <2> QED
    BY <2>1, <2>2, <2>3
<1>2. 1 \in 1..Len(Input) /\ 1 # Len(Input)
  BY <1>1
<1>3. parser[1].no \in 1..asked /\ ~(half /\ parser[1].no = asked)
  BY <1>1, <1>2, Zenon DEF InputOrdered
<1>7. \A i \in DOMAIN answers : answers[i] < parser[1].no
  <2>1. DOMAIN answers = 1..Len(answers)
    BY LenProperties DEF TypeData
  <2> QED
    BY <1>1, <1>2, <2>1, Zenon DEF InputOrdered
<1>4. asked \in Nat
  BY BoundsAssumption DEF TypeData
<1>5. CASE half
  <2>1. AskedFully = asked - 1
    BY <1>5, Zenon DEF AskedFully
  <2>2. parser[1].no \in 1..AskedFully
    BY <1>3, <1>4, <1>5, <2>1
  <2> QED
    BY <1>7, <2>2
<1>6. CASE ~half
  <2>1. AskedFully = asked
    BY <1>6, Zenon DEF AskedFully
  <2> QED
    BY <1>3, <1>7, <2>1, Zenon
<1> QED
  BY <1>5, <1>6

LEMMA RefineStep ==
  TypeData /\ TypeFlags /\ SentInOrder /\ InputOrdered /\ [Next]_vars
    => [Pipe!Next]_<<AskedFully, answers, Replies>>
<1> SUFFICES ASSUME TypeData, TypeFlags, SentInOrder, InputOrdered, [Next]_vars
             PROVE  [Pipe!Next]_<<AskedFully, answers, Replies>>
  OBVIOUS
<1> USE DEF client, epoll, conn
<1>0. ASSUME UNCHANGED <<asked, half, answers, received>>
      PROVE  UNCHANGED <<AskedFully, answers, Replies>>
  BY <1>0, FullCount DEF Replies
<1>1. CASE SendHead
  <2>1. ~half /\ half' /\ asked' = asked + 1 /\ UNCHANGED <<answers, received>>
    BY <1>1, Zenon DEF SendHead, Arrive
  <2>2. AskedFully = asked /\ AskedFully' = asked' - 1
    BY <2>1, Zenon DEF AskedFully
  <2>3. AskedFully' = AskedFully
    BY <2>1, <2>2, BoundsAssumption DEF TypeData
  <2> QED
    BY <2>1, <2>3 DEF Replies
<1>2. CASE SendTail
  <2>1. half /\ ~half' /\ asked' = asked /\ UNCHANGED <<answers, received>>
    BY <1>2, Zenon DEF SendTail, Arrive
  <2>2. AskedFully = asked - 1 /\ AskedFully' = asked
    BY <2>1, Zenon DEF AskedFully
  <2>3. AskedFully' = AskedFully + 1
    BY <2>2, BoundsAssumption DEF TypeData
  <2> QED
    BY <2>1, <2>3 DEF Replies, Pipe!Next, Pipe!Ask, AskedFully
<1>3. CASE Receive
  <2>1. UNCHANGED <<asked, half, answers>>
    BY <1>3 DEF Receive
  <2>2. AskedFully' = AskedFully
    BY <2>1, FullCount
  <2>3. CASE Replies' = Replies
    BY <2>1, <2>2, <2>3
  <2>4. CASE /\ Len(Replies) < Len(answers)
             /\ Replies' = Append(Replies, answers[Len(Replies) + 1])
    BY <2>1, <2>2, <2>4 DEF Replies, AskedFully, Pipe!Next, Pipe!Reply
  <2> QED
    BY <1>3, <2>3, <2>4, ReceiveReplies
<1>4. CASE SendBadLine
  BY <1>0, <1>4 DEF SendBadLine, Arrive
<1>5. CASE Hangup \/ MarkTimedOut \/ EpollWait \/ Modify \/ Register
  BY <1>0, <1>5 DEF Hangup, MarkTimedOut, EpollWait, Modify, Register
<1>6. CASE OnHangup \/ OnTimedOut
  BY <1>0, <1>6 DEF OnHangup, OnTimedOut, CloseConnection
<1>7. CASE OnWritable
  BY <1>0, <1>7 DEF OnWritable
<1>8. CASE OnReadable
  <2>1. UNCHANGED <<asked, half, answers, received>>
    BY <1>8 DEF OnReadable, CloseConnection
  <2> QED
    BY <1>0, <2>1
<1>9. CASE Execute
  <2>1. Whole /\ Responds(2, parser[1].no) /\ pc # "closed"
    BY <1>9, ExecuteResponds DEF Execute
  <2>2. /\ parser[1].no \in 1..AskedFully
        /\ \A i \in DOMAIN answers : answers[i] < parser[1].no
    BY <2>1, FrontIsNext
  <2>3. AskedFully' = AskedFully /\ Replies' = Replies
    BY <2>1, FullCount DEF Responds, Replies
  <2>4. Pipe!Execute
    BY <2>1, <2>2, <2>3 DEF Responds, AskedFully, Replies, Pipe!Execute
  <2> QED
    BY <2>4 DEF Pipe!Next
<1>10. CASE ParseError \/ ParseGarbled
  <2>1. PICK k \in 1..Len(parser) : Responds(k, 0)
    BY <1>10, ErrorResponds
  <2>2. AskedFully' = AskedFully /\ Replies' = Replies
    BY <2>1, FullCount DEF Responds, Replies
  <2>3. Pipe!Reject
    BY <2>1, <2>2 DEF Responds, AskedFully, Replies, Pipe!Reject
  <2> QED
    BY <2>3 DEF Pipe!Next
<1>11. CASE ParseAgain
  <2>1. UNCHANGED <<asked, half, answers, received>>
    BY <1>11 DEF ParseAgain, CloseConnection
  <2> QED
    BY <1>0, <2>1
<1>12. CASE UNCHANGED vars
  BY <1>0, <1>12 DEF vars
<1> QED
  BY <1>1, <1>2, <1>3, <1>4, <1>5, <1>6, <1>7, <1>8, <1>9, <1>10, <1>11, <1>12
     DEF Next, ServerStep

LEMMA RefineInit == Init => Pipe!Init
<1> SUFFICES ASSUME Init PROVE Pipe!Init
  OBVIOUS
<1>1. ~half /\ asked = 0 /\ answers = <<>> /\ received = <<>>
  BY Zenon DEF Init
<1>2. Len(received) \div 2 = 0
  BY <1>1
<1>3. [i \in 1..Len(received) \div 2 |-> received[2 * i].no] = <<>>
  BY <1>2
<1> QED
  BY <1>1, <1>3, Zenon DEF Pipe!Init

\* A connection answers requests in the order they were sent, each at most once
\* and only when it is complete, and the client reads the responses whole and in
\* that order, whatever the fragments, the sizes of the buffers, the partial
\* writes and the malformed lines are.
THEOREM PipeImplemented == Spec => ImplementsPipe
<1> DEFINE Inv == TypeData /\ TypeFlags /\ NothingLost /\ SentInOrder /\ InputOrdered
<1>1. Init => Inv
  <2>1. Init => InputOrdered
    <3> SUFFICES ASSUME Init PROVE InputOrdered
      OBVIOUS
    <3>1. parser = <<>> /\ inbound = <<>> /\ answers = <<>>
      BY DEF Init
    <3>2. Len(Input) = 0 /\ Len(answers) = 0
      BY <3>1, EmptySeq, ConcatEmptySeq DEF Input
    <3> QED
      BY <3>2 DEF InputOrdered
  <2> QED
    BY <2>1, InitTypes, InitOutput
<1>2. Inv /\ [Next]_vars => Inv'
  BY DataStep, FlagsStep, OutputStep, OrderedStep
<1>3. Inv /\ [Next]_vars => [Pipe!Next]_<<AskedFully, answers, Replies>>
  BY RefineStep
<1> HIDE DEF Inv
<1> QED
  BY <1>1, <1>2, <1>3, RefineInit, PTL
     DEF Spec, ImplementsPipe, Pipe!Spec, Pipe!vars, AskedFully, Replies
===============================================================================
