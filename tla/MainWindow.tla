------------------------------ MODULE MainWindow -------------------------------
(***************************************************************************)
(* The main window (src/src/mainwindow.cpp) as far as the server's process *)
(* and the connection reach it: its two flags, its Start and Stop actions, *)
(* and its RedisClient reduced to the state of the socket.  The slots are  *)
(* functions of the window, since signals call them at once.  The Connect  *)
(* and Disconnect actions and the panels follow connected: it never        *)
(* changes without updateConnectionState.                                  *)
(***************************************************************************)
EXTENDS Naturals

\* running is m_serverRunning, connected m_clientConnected; start and stop are
\* the enabled states of the actions; to is the server the socket was opened
\* to, 0 for one the desktop did not start, and reach whether it listened then.
Windows ==
  [running : BOOLEAN, connected : BOOLEAN, start : BOOLEAN, stop : BOOLEAN,
   sock : {"idle", "connecting", "connected", "closing"}, to : Nat, reach : BOOLEAN]

\* updateConnectionState
Update(w) == [w EXCEPT !.start = ~w.running, !.stop = w.running]

NewWindow ==
  Update([running |-> FALSE, connected |-> FALSE, start |-> FALSE, stop |-> FALSE,
          sock |-> "idle", to |-> 0, reach |-> FALSE])

\* RedisClient::connectToHost: ignored while connecting or connected, and
\* refused by Qt while the old socket is closing.
ConnectToHost(w, p, reach) ==
  IF w.sock = "idle"
  THEN [w EXCEPT !.sock = "connecting", !.to = p, !.reach = reach]
  ELSE w

\* Mutant: the connection is left to the user.
OnServerStartedOnly(w, p, reach) == [w EXCEPT !.running = TRUE]

\* The actions are not updated here, but when the client has connected.
OnServerStarted(w, p, reach) ==
  ConnectToHost([w EXCEPT !.running = TRUE], p, reach)

\* Mutant: the actions are not updated.
OnServerStoppedSilent(w) == [w EXCEPT !.running = FALSE]

OnServerStopped(w) == Update([w EXCEPT !.running = FALSE])

OnClientConnected(w) == Update([w EXCEPT !.connected = TRUE, !.sock = "connected"])

OnClientDisconnected(w) == Update([w EXCEPT !.connected = FALSE, !.sock = "idle"])

\* onClientError after a refused connection shows a message only.
OnClientError(w) == [w EXCEPT !.sock = "idle"]
===============================================================================
