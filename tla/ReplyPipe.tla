------------------------------ MODULE ReplyPipe -------------------------------
(***************************************************************************)
(* What a connection of the server promises its client: requests are       *)
(* executed in the order they were sent, each at most once and none before *)
(* it is complete; input that is no request is answered too; the responses *)
(* arrive whole, one for each of these, in the same order.  A request may  *)
(* be skipped, when the connection ends or the stream is damaged, but      *)
(* never overtaken.                                                        *)
(***************************************************************************)
EXTENDS Naturals, Sequences

VARIABLES asked,   \* requests sent in full
          done,    \* what was answered, in order: a request, or 0
          replies  \* the responses that arrived, by what they answer

vars == <<asked, done, replies>>

Init == asked = 0 /\ done = <<>> /\ replies = <<>>

Ask ==
  /\ asked' = asked + 1
  /\ UNCHANGED <<done, replies>>

Execute ==
  /\ \E n \in 1..asked :
       /\ \A i \in DOMAIN done : done[i] < n
       /\ done' = Append(done, n)
  /\ UNCHANGED <<asked, replies>>

Reject ==
  /\ done' = Append(done, 0)
  /\ UNCHANGED <<asked, replies>>

Reply ==
  /\ Len(replies) < Len(done)
  /\ replies' = Append(replies, done[Len(replies) + 1])
  /\ UNCHANGED <<asked, done>>

Next == Ask \/ Execute \/ Reject \/ Reply

Spec == Init /\ [][Next]_vars
===============================================================================
