------------------------- MODULE ServerManager_proofs --------------------------
(***************************************************************************)
(* Theorems about ServerManager, for any number of starts.  The properties *)
(* are proved together: that started is emitted once for each server needs *)
(* to know which servers were announced, and that needs to know when there *)
(* is a port.                                                              *)
(***************************************************************************)
EXTENDS ServerManager, TLAPS

Handled == {"none", "reaped"}

\* There is a port as long as the end of a process has not been handled, and
\* its server was not announced unless m_startedEmitted says so.
Fresh ==
  /\ port > 0 <=> process \notin Handled
  /\ unread => port > 0
  /\ \A n \in Servers : n > starts => announced[n] = 0
  /\ port > 0 /\ ~emitted => announced[port] = 0

IInv == TypeOK /\ RunningHasProcess /\ StartedOnce /\ ButtonsUsable /\ Fresh

\* The socket and its flag agree in window w.
Agree(w) == w.connected <=> w.sock \in {"connected", "closing"}

-----------------------------------------------------------------------------
(* The slots of the window.                                                *)

\* onServerStopped leaves the connection alone and offers Start.
LEMMA StoppedWindow ==
  ASSUME NEW w \in Windows
  PROVE  LET v == OnServerStopped(w)
         IN  /\ v \in Windows /\ ~v.running /\ v.start /\ ~v.stop
             /\ v.connected = w.connected /\ v.sock = w.sock
  BY DEF OnServerStopped, Update, Windows

\* onServerStarted leaves the actions alone.
LEMMA StartedWindow ==
  ASSUME NEW w \in Windows, NEW p \in Nat, NEW reach \in BOOLEAN
  PROVE  LET v == OnServerStarted(w, p, reach)
         IN  /\ v \in Windows /\ v.running
             /\ v.start = w.start /\ v.stop = w.stop
             /\ Agree(w) => Agree(v)
  BY DEF OnServerStarted, ConnectToHost, Windows, Agree

\* What changes the connection keeps running.
LEMMA ConnectionWindow ==
  ASSUME NEW w \in Windows, Agree(w), w.stop => w.running,
         NEW p \in Nat, NEW reach \in BOOLEAN,
         NEW v \in {ConnectToHost(w, p, reach), OnClientConnected(w),
                    OnClientDisconnected(w)}
  PROVE  /\ v \in Windows /\ Agree(v)
         /\ v.running = w.running
         /\ v.stop => v.running
         /\ w.start => v.start \/ v.running
  BY ZenonT(40) DEF ConnectToHost, OnClientConnected, OnClientDisconnected, Update,
         Windows, Agree

\* The announcements a step may make.
Counts(a) ==
  /\ a \in [Servers -> Nat]
  /\ \A n \in Servers : a[n] <= 1
  /\ \A n \in Servers : n > starts => a[n] = 0

\* One more announcement, of a server that had none.
LEMMA AnnounceOnce ==
  ASSUME IInv, port > 0, ~emitted
  PROVE  Counts([announced EXCEPT ![port] = @ + 1])
<1>1. starts \in Nat /\ port = starts /\ announced[port] = 0 /\ port \in Servers
  BY BoundsAssumption DEF IInv, TypeOK, Fresh, Servers
<1>2. announced \in [Servers -> Nat]
  BY DEF IInv, TypeOK
<1>3. \A n \in Servers : announced[n] <= 1 /\ (n > starts => announced[n] = 0)
  BY DEF IInv, StartedOnce, Fresh
<1> QED BY <1>1, <1>2, <1>3 DEF Counts, Servers

\* What stop leaves behind, whatever was emitted while it waited.
LEMMA StopEffect ==
  ASSUME IInv, NEW w \in Windows, Agree(w),
         NEW wrote \in BOOLEAN, NEW reach \in BOOLEAN, Ending(wrote, reach)
  PROVE  LET r == AfterStop(w, wrote, reach)
         IN  /\ r.window \in Windows /\ Agree(r.window)
             /\ ~r.window.running /\ r.window.start /\ ~r.window.stop
             /\ Counts(r.announced)
<1> DEFINE late == (unread \/ wrote) /\ ~emitted
           v == IF late THEN OnServerStarted(w, port, reach) ELSE w
<1>1. port \in Nat
  BY BoundsAssumption DEF IInv, TypeOK
<1>2. v \in Windows /\ Agree(v)
  BY <1>1, StartedWindow
<1>3. /\ OnServerStopped(v) \in Windows /\ Agree(OnServerStopped(v))
      /\ ~OnServerStopped(v).running /\ OnServerStopped(v).start
      /\ ~OnServerStopped(v).stop
  BY <1>2, StoppedWindow DEF Agree
<1>4. late => port > 0
  BY DEF IInv, Fresh, Ending, Handled
<1>5. Counts(announced)
  BY DEF IInv, TypeOK, StartedOnce, Fresh, Counts
<1>6. Counts(IF late THEN [announced EXCEPT ![port] = @ + 1] ELSE announced)
  BY <1>4, <1>5, AnnounceOnce
<1> QED BY <1>3, <1>6 DEF AfterStop

-----------------------------------------------------------------------------
(* The invariant.                                                          *)

LEMMA Initially == Init => IInv
<1> SUFFICES ASSUME Init PROVE IInv
  OBVIOUS
<1>1. window \in Windows /\ ~window.running /\ window.start /\ ~window.stop
      /\ ~window.connected /\ window.sock = "idle"
  BY DEF Init, NewWindow, Update, Windows
<1>2. TypeOK
  <2>1. announced \in [Servers -> Nat]
    BY DEF Init
  <2>2. starts \in 0..MaxStarts /\ port \in {0, starts} /\ timers \in 0..starts
    BY BoundsAssumption DEF Init
  <2> QED BY <1>1, <2>1, <2>2 DEF Init, TypeOK, Alive
<1>3. RunningHasProcess /\ ButtonsUsable
  BY <1>1 DEF Init, RunningHasProcess, ButtonsUsable
<1>4. StartedOnce /\ Fresh
  BY DEF Init, StartedOnce, Fresh, Servers, Handled
<1> QED BY <1>2, <1>3, <1>4 DEF IInv

LEMMA StartKeeps == ASSUME IInv, Start PROVE IInv'
<1> DEFINE w == [window EXCEPT !.start = FALSE]
<1>1. w \in Windows /\ Agree(w) /\ w.running = window.running /\ w.stop = window.stop
  BY DEF IInv, TypeOK, Windows, Agree
<1>2. PICK wrote \in BOOLEAN, reach \in BOOLEAN :
        /\ Ending(wrote, reach)
        /\ window' = Replaced(w, wrote, reach).window
        /\ announced' = Replaced(w, wrote, reach).announced
  BY DEF Start
<1>3. process = "none" => ~window.running
  BY DEF IInv, RunningHasProcess, Alive
<1>4. /\ window' \in Windows /\ Agree(window')
      /\ ~window'.running /\ ~window'.stop
      /\ Counts(announced')
  <2>1. CASE process = "none"
    <3>1. window' = w /\ announced' = announced
      BY <1>2, <2>1 DEF Replaced
    <3>2. Counts(announced)
      BY DEF IInv, TypeOK, StartedOnce, Fresh, Counts
    <3> QED BY <3>1, <3>2, <1>1, <1>3, <2>1 DEF IInv, ButtonsUsable
  <2>2. CASE process # "none"
    BY <1>1, <1>2, <2>2, StopEffect DEF Replaced
  <2> QED BY <2>1, <2>2
<1>5. starts \in Nat /\ starts' \in Nat /\ starts' = starts + 1 /\ starts' \in Servers
      /\ MaxStarts \in Nat /\ timers \in 0..starts
  BY BoundsAssumption DEF Start, IInv, TypeOK, Servers
<1>6. emitted' = FALSE /\ unread' = FALSE
      /\ \/ process' = "none" /\ port' = 0 /\ failed' = TRUE /\ timers' = timers
         \/ process' = "booting" /\ port' = starts' /\ failed' = FALSE
            /\ timers' = timers + 1
  BY DEF Start
<1>7. TypeOK'
  <2>1. starts' \in 0..MaxStarts
    BY <1>5 DEF Servers
  <2>2. port' \in {0, starts'} /\ timers' \in 0..starts'
    BY <1>5, <1>6
  <2>3. /\ process' \in Alive \cup {"none", "dead", "reaped"}
        /\ unread' \in BOOLEAN /\ emitted' \in BOOLEAN /\ failed' \in BOOLEAN
    BY <1>6 DEF Alive
  <2>4. /\ announced' \in [Servers -> Nat] /\ window' \in Windows
        /\ window'.connected <=> window'.sock \in {"connected", "closing"}
    BY <1>4 DEF Counts, Agree
  <2> QED BY <2>1, <2>2, <2>3, <2>4 DEF TypeOK, Servers
<1>8. RunningHasProcess' /\ StartedOnce' /\ ButtonsUsable'
  BY <1>4, <1>6 DEF RunningHasProcess, StartedOnce, ButtonsUsable, Counts, Servers, Alive
<1>9. Fresh'
  BY <1>4, <1>5, <1>6 DEF Fresh, Counts, Servers, Handled
<1> QED BY <1>7, <1>8, <1>9 DEF IInv

\* stop and the slot of the end of the process have the same effect but for
\* the process object.
LEMMA EndKeeps ==
  ASSUME IInv, NEW wrote \in BOOLEAN, NEW reach \in BOOLEAN, Ending(wrote, reach),
         window' = AfterStop(window, wrote, reach).window,
         announced' = AfterStop(window, wrote, reach).announced,
         process' \in Handled, port' = 0, emitted' = FALSE, unread' = FALSE,
         UNCHANGED <<timers, starts, failed>>
  PROVE  IInv'
<1>1. window \in Windows /\ Agree(window)
  BY DEF IInv, TypeOK, Agree
<1>2. /\ window' \in Windows /\ Agree(window')
      /\ ~window'.running /\ window'.start /\ ~window'.stop
      /\ Counts(announced')
  BY <1>1, StopEffect
<1>3. TypeOK'
  BY <1>2 DEF IInv, TypeOK, Agree, Counts, Servers, Handled
<1>4. RunningHasProcess' /\ StartedOnce' /\ ButtonsUsable' /\ Fresh'
  BY <1>2 DEF RunningHasProcess, StartedOnce, ButtonsUsable, Fresh, Counts, Servers, Handled
<1> QED BY <1>3, <1>4 DEF IInv

LEMMA StopKeeps == ASSUME IInv, Stop PROVE IInv'
  BY EndKeeps DEF Stop, Handled

LEMMA FinishedKeeps == ASSUME IInv, OnProcessFinished PROVE IInv'
<1>1. Ending(FALSE, FALSE)
  BY DEF Ending
<1> QED BY <1>1, EndKeeps DEF OnProcessFinished, Handled

\* A slot that may emit started.
LEMMA EmitKeeps ==
  ASSUME IInv, EmitStartedOnce, UNCHANGED <<process, port, starts, failed>>,
         unread' => unread, timers' \in 0..starts, unread' \in BOOLEAN
  PROVE  IInv'
<1>1. CASE ~emitted /\ port > 0
  <2>1. /\ emitted' = TRUE
        /\ window' = OnServerStarted(window, port, process = "listening")
        /\ announced' = [announced EXCEPT ![port] = @ + 1]
    BY <1>1 DEF EmitStartedOnce
  <2>2. window \in Windows /\ Agree(window) /\ port \in Nat
    BY BoundsAssumption DEF IInv, TypeOK, Agree
  <2>3. (process = "listening") \in BOOLEAN
    OBVIOUS
  <2>4. /\ window' \in Windows /\ Agree(window') /\ window'.running
        /\ window'.start = window.start /\ window'.stop = window.stop
    BY <2>1, <2>2, <2>3, StartedWindow
  <2>5. Counts(announced')
    BY <1>1, <2>1, AnnounceOnce
  <2>6. TypeOK'
    BY <2>1, <2>4, <2>5 DEF IInv, TypeOK, Agree, Counts, Servers
  <2>7. RunningHasProcess' /\ StartedOnce' /\ ButtonsUsable'
    BY <1>1, <2>1, <2>4, <2>5 DEF IInv, TypeOK, Fresh, Handled, Alive,
       RunningHasProcess, StartedOnce, ButtonsUsable, Counts, Servers
  <2>8. Fresh'
    BY <2>1, <2>5 DEF IInv, Fresh, Counts, Servers
  <2> QED BY <2>6, <2>7, <2>8 DEF IInv
<1>2. CASE ~(~emitted /\ port > 0)
  <2>1. UNCHANGED <<emitted, window, announced>>
    BY <1>2 DEF EmitStartedOnce
  <2> QED BY <2>1 DEF IInv, TypeOK, RunningHasProcess, StartedOnce,
             ButtonsUsable, Fresh, Servers
<1> QED BY <1>1, <1>2

\* A step of the connection.
LEMMA ConnectionKeeps ==
  ASSUME IInv, NEW v \in Windows, Connection(v), Agree(v),
         v.running = window.running, v.stop => v.running,
         window.start => v.start \/ v.running
  PROVE  IInv'
<1>1. window' = v
      /\ UNCHANGED <<process, unread, port, emitted, timers, starts, failed, announced>>
  BY DEF Connection
<1>2. TypeOK' /\ RunningHasProcess' /\ ButtonsUsable'
  BY <1>1 DEF IInv, TypeOK, RunningHasProcess, ButtonsUsable, Agree, Servers
<1>3. StartedOnce' /\ Fresh'
  BY <1>1 DEF IInv, StartedOnce, Fresh, Servers
<1> QED BY <1>2, <1>3 DEF IInv

LEMMA Inductive == IInv /\ [Next]_vars => IInv'
<1> SUFFICES ASSUME IInv, [Next]_vars PROVE IInv'
  OBVIOUS
<1>0. /\ window \in Windows /\ Agree(window) /\ port \in Nat
      /\ window.stop => window.running
  BY BoundsAssumption DEF IInv, TypeOK, Agree, ButtonsUsable
<1>1. CASE Start
  BY <1>1, StartKeeps
<1>2. CASE Stop
  BY <1>2, StopKeeps
<1>3. CASE Boot
  BY <1>3 DEF Boot, IInv, TypeOK, RunningHasProcess, StartedOnce,
     ButtonsUsable, Fresh, Servers, Alive, Handled
<1>4. CASE Die
  BY <1>4 DEF Die, IInv, TypeOK, RunningHasProcess, StartedOnce,
     ButtonsUsable, Fresh, Servers, Alive, Handled
<1>5. CASE OnReadyRead
  BY <1>5, EmitKeeps DEF OnReadyRead, IInv, TypeOK
<1>6. CASE OnFallbackTimer
  <2>1. timers' \in 0..starts
    BY <1>6, BoundsAssumption DEF OnFallbackTimer, IInv, TypeOK
  <2> QED BY <1>6, <2>1, EmitKeeps DEF OnFallbackTimer, IInv, TypeOK
<1>7. CASE OnProcessFinished
  BY <1>7, FinishedKeeps
<1>8. CASE UserConnect
  <2>1. PICK p \in {0, port}, reach \in BOOLEAN :
          Connection(ConnectToHost(window, p, reach))
    BY <1>8 DEF UserConnect
  <2> QED BY <1>0, <2>1, ConnectionWindow, ConnectionKeeps
<1>9. CASE UserDisconnect
  <2>1. CASE Connection(OnClientDisconnected(window))
    BY <1>0, <2>1, ConnectionWindow, ConnectionKeeps
  <2>2. CASE window.connected /\ Connection([window EXCEPT !.sock = "closing"])
    <3> DEFINE v == [window EXCEPT !.sock = "closing"]
    <3>1. v \in Windows /\ Agree(v) /\ v.running = window.running
          /\ v.stop = window.stop /\ v.start = window.start
      BY <1>0, <2>2 DEF Windows, Agree
    <3> QED BY <1>0, <2>2, <3>1, ConnectionKeeps
  <2> QED BY <1>9, <2>1, <2>2 DEF UserDisconnect
<1>10. CASE SocketConnected
  BY <1>0, <1>10, ConnectionWindow, ConnectionKeeps DEF SocketConnected
<1>11. CASE SocketRefused
  <2> DEFINE v == OnClientError(window)
  <2>1. v \in Windows /\ Agree(v) /\ v.running = window.running
        /\ v.stop = window.stop /\ v.start = window.start
    BY <1>0, <1>11 DEF SocketRefused, OnClientError, Windows, Agree
  <2> QED BY <1>0, <1>11, <2>1, ConnectionKeeps DEF SocketRefused
<1>12. CASE SocketDisconnected
  BY <1>0, <1>12, ConnectionWindow, ConnectionKeeps DEF SocketDisconnected
<1>13. CASE UNCHANGED vars
  BY <1>13 DEF vars, IInv, TypeOK, RunningHasProcess, StartedOnce,
     ButtonsUsable, Fresh, Servers
<1> QED BY <1>1, <1>2, <1>3, <1>4, <1>5, <1>6, <1>7, <1>8, <1>9, <1>10, <1>11,
           <1>12, <1>13 DEF Next

-----------------------------------------------------------------------------
(* The theorems.                                                           *)

LEMMA Invariant == Spec => []IInv
  BY Initially, Inductive, PTL DEF Spec

\* Every variable of the manager and the window keeps its type, and the flag
\* for the connection agrees with the socket.
THEOREM TypeCorrect == Spec => []TypeOK
<1>1. IInv => TypeOK
  BY DEF IInv
<1> QED BY <1>1, Invariant, PTL

\* The window believes that a server runs exactly while the server announced
\* last has not been seen to end.
THEOREM RunningTrue == Spec => []RunningHasProcess
<1>1. IInv => RunningHasProcess
  BY DEF IInv
<1> QED BY <1>1, Invariant, PTL

\* started is emitted at most once for each server, by its own line, its own
\* timer or a timer of an earlier start.
THEOREM AnnouncedOnce == Spec => []StartedOnce
<1>1. IInv => StartedOnce
  BY DEF IInv
<1> QED BY <1>1, Invariant, PTL

\* The Start and Stop actions are usable, except Start after a failed start.
THEOREM ButtonsFollow == Spec => []ButtonsUsable
<1>1. IInv => ButtonsUsable
  BY DEF IInv
<1> QED BY <1>1, Invariant, PTL
===============================================================================
