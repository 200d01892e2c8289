----------------------------- MODULE ServerManager -----------------------------
(***************************************************************************)
(* The desktop's server process (src/src/server_manager.cpp) with the      *)
(* window that starts and stops it.  Two sources may announce a started    *)
(* server, the line it prints and a timer of one second; every successful  *)
(* start leaves such a timer behind, which nothing cancels.  stop waits    *)
(* for the process inside a slot, so that the signals of its last output   *)
(* and of its end arrive in the middle of stop.                            *)
(***************************************************************************)
EXTENDS MainWindow

CONSTANT MaxStarts   \* bound: clicks on Start Server

ASSUME BoundsAssumption == MaxStarts \in Nat

VARIABLES
  process,   \* m_process: none, booting, listening, dead, or reaped: its end
             \* has been handled and the object is still there
  unread,    \* the line "started on" was printed and not read yet
  port,      \* m_serverPort: the number of the start, or 0
  emitted,   \* m_startedEmitted
  timers,    \* fallback timers still to fire
  starts,    \* number of starts; the current server has this number
  window,    \* the main window
  failed,    \* history: the last start failed
  announced  \* history: how often started was emitted for each server

vars == <<process, unread, port, emitted, timers, starts, window, failed, announced>>

Alive == {"booting", "listening"}
Servers == 1..MaxStarts

Init ==
  /\ process = "none" /\ unread = FALSE /\ port = 0 /\ emitted = FALSE
  /\ timers = 0 /\ starts = 0 /\ window = NewWindow
  /\ failed = FALSE /\ announced = [n \in Servers |-> 0]

-----------------------------------------------------------------------------
(* start and stop.                                                         *)

\* The process may get as far as printing its line before it ends, and may
\* still accept a connection then.
Ending(wrote, reach) ==
  /\ wrote => process = "booting"
  /\ reach => process \in Alive

\* stop() on an existing process: what waitForFinished emits, then stopped.
\* started may be among it; stopped may be emitted twice, to the same effect.
AfterStop(w, wrote, reach) ==
  LET late == (unread \/ wrote) /\ ~emitted
  IN  [window |-> OnServerStopped(IF late THEN OnServerStarted(w, port, reach) ELSE w),
       announced |-> IF late THEN [announced EXCEPT ![port] = @ + 1] ELSE announced]

\* The first part of start(): an old process is stopped, whatever its state.
Replaced(w, wrote, reach) ==
  IF process = "none" THEN [window |-> w, announced |-> announced]
  ELSE AfterStop(w, wrote, reach)

\* onStartServer and start(): no executable is found, or it does not start, or
\* the new process runs and its timer with it.
Start ==
  /\ window.start /\ starts < MaxStarts
  /\ starts' = starts + 1
  /\ \E wrote, reach \in BOOLEAN :
       /\ Ending(wrote, reach)
       /\ LET r == Replaced([window EXCEPT !.start = FALSE], wrote, reach)
          IN  window' = r.window /\ announced' = r.announced
  /\ emitted' = FALSE /\ unread' = FALSE
  /\ \/ /\ process' = "none" /\ port' = 0 /\ failed' = TRUE
        /\ UNCHANGED timers
     \/ /\ process' = "booting" /\ port' = starts' /\ failed' = FALSE
        /\ timers' = timers + 1

\* onStopServer and stop().
Stop ==
  /\ window.stop /\ process # "none"
  /\ \E wrote, reach \in BOOLEAN :
       /\ Ending(wrote, reach)
       /\ LET r == AfterStop(window, wrote, reach)
          IN  window' = r.window /\ announced' = r.announced
  /\ process' = "none" /\ port' = 0 /\ emitted' = FALSE /\ unread' = FALSE
  /\ UNCHANGED <<timers, starts, failed>>

-----------------------------------------------------------------------------
(* The process.                                                            *)

Boot ==
  /\ process = "booting"
  /\ process' = "listening" /\ unread' = TRUE
  /\ UNCHANGED <<port, emitted, timers, starts, window, failed, announced>>

\* It could not bind, was killed or crashed.
Die ==
  /\ process \in Alive
  /\ process' = "dead"
  /\ UNCHANGED <<unread, port, emitted, timers, starts, window, failed, announced>>

-----------------------------------------------------------------------------
(* The manager's slots.                                                    *)

\* Mutant: nothing remembers that started was emitted.
EmitStartedAgain ==
  IF port > 0
  THEN /\ emitted' = TRUE
       /\ window' = OnServerStarted(window, port, process = "listening")
       /\ announced' = [announced EXCEPT ![port] = @ + 1]
  ELSE UNCHANGED <<emitted, window, announced>>

EmitStartedOnce ==
  IF ~emitted /\ port > 0
  THEN /\ emitted' = TRUE
       /\ window' = OnServerStarted(window, port, process = "listening")
       /\ announced' = [announced EXCEPT ![port] = @ + 1]
  ELSE UNCHANGED <<emitted, window, announced>>

OnReadyRead ==
  /\ unread
  /\ unread' = FALSE
  /\ EmitStartedOnce
  /\ UNCHANGED <<process, port, timers, starts, failed>>

OnFallbackTimer ==
  /\ timers > 0
  /\ timers' = timers - 1
  /\ EmitStartedOnce
  /\ UNCHANGED <<process, unread, port, starts, failed>>

\* Mutant: the port of the dead process is kept.
OnProcessFinishedKeepsPort ==
  /\ process = "dead"
  /\ process' = "reaped" /\ unread' = FALSE /\ emitted' = FALSE
  /\ LET r == AfterStop(window, FALSE, FALSE)
     IN  window' = r.window /\ announced' = r.announced
  /\ UNCHANGED <<port, timers, starts, failed>>

\* QProcess emits the last output first.  m_process stays; m_serverPort is
\* above 0 here, so stopped is emitted.
OnProcessFinished ==
  /\ process = "dead"
  /\ process' = "reaped" /\ unread' = FALSE
  /\ port' = 0 /\ emitted' = FALSE
  /\ LET r == AfterStop(window, FALSE, FALSE)
     IN  window' = r.window /\ announced' = r.announced
  /\ UNCHANGED <<timers, starts, failed>>

-----------------------------------------------------------------------------
(* The client's connection.                                                *)

Connection(w) ==
  /\ window' = w
  /\ UNCHANGED <<process, unread, port, emitted, timers, starts, failed, announced>>

\* onConnectToServer, which the menu always offers: to the desktop's own server
\* or to another.
UserConnect ==
  \E p \in {0, port}, reach \in BOOLEAN :
    /\ p > 0 => reach = (process = "listening")
    /\ Connection(ConnectToHost(window, p, reach))

\* onDisconnectFromServer: at once, or when unsent bytes are gone.
UserDisconnect ==
  /\ window.connected
  /\ \/ window.sock = "connected" /\ Connection(OnClientDisconnected(window))
     \/ Connection([window EXCEPT !.sock = "closing"])

SocketConnected ==
  /\ window.sock = "connecting" /\ window.reach
  /\ Connection(OnClientConnected(window))

SocketRefused ==
  /\ window.sock = "connecting" /\ ~window.reach
  /\ Connection(OnClientError(window))

SocketDisconnected ==
  /\ window.sock \in {"connected", "closing"}
  /\ Connection(OnClientDisconnected(window))

Next ==
  \/ Start \/ Stop \/ Boot \/ Die
  \/ OnReadyRead \/ OnFallbackTimer \/ OnProcessFinished
  \/ UserConnect \/ UserDisconnect
  \/ SocketConnected \/ SocketRefused \/ SocketDisconnected

Spec == Init /\ [][Next]_vars

\* The event loop delivers the server's output, its end and the outcome of a
\* connection attempt.
FairSpec ==
  Spec /\ WF_vars(OnReadyRead) /\ WF_vars(OnProcessFinished) /\ WF_vars(SocketConnected)

-----------------------------------------------------------------------------
(* Properties.                                                             *)

\* The flag for the connection agrees with the socket.
TypeOK ==
  /\ process \in Alive \cup {"none", "dead", "reaped"}
  /\ unread \in BOOLEAN /\ emitted \in BOOLEAN /\ failed \in BOOLEAN
  /\ starts \in 0..MaxStarts /\ port \in {0, starts} /\ timers \in 0..starts
  /\ announced \in [Servers -> Nat]
  /\ window \in Windows
  /\ window.connected <=> window.sock \in {"connected", "closing"}

\* The window believes that a server runs exactly as long as the one announced
\* last is the current process and its end has not been handled, whichever of
\* the old timers, late lines and nested stops got there first.
RunningHasProcess ==
  /\ window.running <=> emitted
  /\ window.running => port = starts /\ process \in Alive \cup {"dead"}

\* server_manager.h: started is emitted at most once for each server.
StartedOnce == \A n \in Servers : announced[n] <= 1

\* Stop is offered only for a server that runs; Start is offered unless one
\* runs or is coming up, or the last start failed.
ButtonsUsable ==
  /\ window.stop => window.running
  /\ window.start \/ window.running \/ process \in Alive \cup {"dead"} \/ failed

\* A server that listens before it was announced gets the desktop's connection,
\* unless it ends or the desktop is connecting elsewhere just then.
AutoConnects ==
  (process = "listening" /\ ~emitted /\ window.sock = "idle") ~>
    \/ window.sock = "connected" \/ process # "listening"
    \/ window.sock = "connecting" /\ window.to # port
===============================================================================
