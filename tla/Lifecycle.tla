------------------------------ MODULE Lifecycle ------------------------------
(***************************************************************************)
(* Processes that come and go: the relay server (the command relay of cli   *)
(* and createTunnelRelayServer), started, stopped and crashing, with the   *)
(* clients file it loads and the handlers of its sockets; and clients that  *)
(* connect, are cut off and connect again (createTunnelRelayClient).        *)
(*                                                                         *)
(* A handler of the relay and the session of the client at its other end   *)
(* learn of the end of their socket independently.  Until the relay has,    *)
(* the handler of a client that was cut off keeps the service it bound, and *)
(* refuses it to the client that has come back.                            *)
(***************************************************************************)
EXTENDS ClientsFile, FiniteSets

CONSTANTS
  Sockets,    (* bound: the sockets that have a handler at the same time   *)
  NoSocket,   (* none of them                                              *)
  Patience,   (* per client, the failed attempts after which reconnectDelay *)
              (* gives up                                                   *)
  MaxFailed,  (* bound: failed attempts that are told apart                *)
  MaxFaults   (* bound: crashes of the relay and connections cut           *)

ASSUME LifecycleAssumption ==
  /\ NoSocket \notin Sockets
  /\ Patience \in [Clients -> Nat]
  /\ {MaxFailed, MaxFaults} \subseteq Nat

VARIABLES
  server,     (* what the process of the relay does                        *)
  handler,    (* per socket, what its handleSocketRelay awaits             *)
  waitingFor, (* at shutdown, the handlers that Promise.all waits for      *)
  owner,      (* per client, the socket that has bound its service         *)
  client,     (* per client, what its connection loop awaits               *)
  socket,     (* its WebSocket, NoSocket if none or if it is closed        *)
  failed,     (* the attempts that failed since the last session           *)
  stopped,    (* its signal is aborted                                     *)
  faults      (* the faults so far                                         *)

relayVars == <<server, handler, waitingFor, owner>>
clientVars == <<client, socket, failed, stopped>>
vars == <<fileVars, relayVars, clientVars, faults>>

TypeOK ==
  /\ FileTypeOK
  /\ server \in {"down", "loading", "serving", "stopping", "draining", "returned", "threw"}
  /\ handler \in [Sockets -> {"none", "opening", "authenticating", "session"}]
  /\ waitingFor \subseteq Sockets
  /\ owner \in [Clients -> Sockets \cup {NoSocket}]
  /\ client \in [Clients -> {"pausing", "waiting", "connecting", "opening",
                             "authenticating", "session", "ended"}]
  /\ socket \in [Clients -> Sockets \cup {NoSocket}]
  /\ failed \in [Clients -> 0..MaxFailed]
  /\ stopped \in [Clients -> BOOLEAN]
  /\ faults \in 0..MaxFaults

NoClient == [c \in Clients |-> NoSocket]

Init ==
  /\ FileInit
  /\ server = "down"
  /\ handler = [w \in Sockets |-> "none"]
  /\ waitingFor = {}
  /\ owner = NoClient
  /\ client = [c \in Clients |-> "connecting"]
  /\ socket = NoClient
  /\ failed = [c \in Clients |-> 0]
  /\ stopped = [c \in Clients |-> FALSE]
  /\ faults = 0

-----------------------------------------------------------------------------
(* The process of the relay.                                                *)

Launch ==
  /\ server = "down"
  /\ server' = "loading"
  /\ StartReading
  /\ UNCHANGED <<handler, waitingFor, owner, clientVars, faults>>

(* A first load that fails ends the process, a later one does not.           *)
Loading ==
  /\ \/ ReadsOn /\ UNCHANGED server
     \/ server = "loading" /\ ReadFails /\ server' = "down"
     \/ server = "loading" /\ Loaded /\ server' = "serving"
     \/ server # "loading" /\ (ReadFails \/ Reloaded \/ NextEvent) /\ UNCHANGED server
  /\ UNCHANGED <<handler, waitingFor, owner, clientVars, faults>>

EditFile ==
  /\ \E new \in Contents \cup {Missing, Broken} : Edit(new)
  /\ UNCHANGED <<relayVars, clientVars, faults>>

(* allSockets                                                                *)
Running == {w \in Sockets : handler[w] # "none"}

(* The signal of the relay is aborted.                                       *)
Aborted == server \in {"stopping", "draining"}

Stop ==
  /\ server = "serving"
  /\ server' = "stopping"
  /\ StopWatching
  /\ UNCHANGED <<handler, waitingFor, owner, clientVars, faults>>

\* Mutant: only the handlers whose clients are there are waited for.
MutRemaining == {w \in Running : \E c \in Clients : socket[c] = w}

Remaining == Running

(* server.finished, then Promise.all over the handlers that are left.        *)
HttpDone ==
  /\ server = "stopping"
  /\ server' = "draining" /\ waitingFor' = Remaining
  /\ UNCHANGED <<fileVars, handler, owner, clientVars, faults>>

AllSettled ==
  /\ server = "draining" /\ waitingFor = {}
  /\ server' = "returned"
  /\ UNCHANGED <<fileVars, handler, waitingFor, owner, clientVars, faults>>

(* The process is gone: its sockets are closed.                              *)
Gone ==
  /\ server' = "down" /\ waitingFor' = {}
  /\ handler' = [w \in Sockets |-> "none"]
  /\ owner' = NoClient /\ socket' = NoClient
  /\ StopReading
  /\ UNCHANGED <<client, failed, stopped>>

Exit == server \in {"returned", "threw"} /\ Gone /\ UNCHANGED faults

Crash ==
  /\ server # "down"
  /\ faults < MaxFaults /\ faults' = faults + 1
  /\ Gone

-----------------------------------------------------------------------------
(* The handlers of the relay.                                               *)

\* Mutant: relay.disconnected keeps the services of the socket.
MutOwnerWithout(w) == owner

OwnerWithout(w) == [c \in Clients |-> IF owner[c] = w THEN NoSocket ELSE owner[c]]

(* Handler w ends and closes its socket.  The first that ends with an error  *)
(* ends the wait of the shutdown.                                            *)
Ends(w, withError) ==
  /\ handler' = [handler EXCEPT ![w] = "none"]
  /\ owner' = OwnerWithout(w)
  /\ socket' = [c \in Clients |-> IF socket[c] = w THEN NoSocket ELSE socket[c]]
  /\ waitingFor' = waitingFor \ {w}
  /\ server' = IF withError /\ server = "draining" /\ w \in waitingFor THEN "threw" ELSE server
  /\ UNCHANGED <<fileVars, client, failed, stopped, faults>>

(* The relay notices that the client of w is gone.                           *)
HandlerLost(w) ==
  /\ handler[w] # "none" /\ \A c \in Clients : socket[c] # w
  /\ Ends(w, TRUE)

(* The queue is aborted, but nobody looks before the socket is open.         *)
HandlerAborted(w) ==
  /\ Aborted
  /\ handler[w] \in {"authenticating", "session"}
  /\ Ends(w, TRUE)

(* A request reaches the server, which makes a handler for it.               *)
Upgrade(c) ==
  /\ client[c] = "connecting" /\ server = "serving"
  /\ \E w \in Sockets :
       /\ handler[w] = "none"
       /\ handler' = [handler EXCEPT ![w] = "opening"]
       /\ socket' = [socket EXCEPT ![c] = w]
  /\ client' = [client EXCEPT ![c] = "opening"]
  /\ UNCHANGED <<fileVars, server, waitingFor, owner, failed, stopped, faults>>

Open(c) ==
  /\ client[c] = "opening" /\ socket[c] # NoSocket /\ ~stopped[c]
  /\ IF Aborted THEN Ends(socket[c], TRUE)
     ELSE /\ handler' = [handler EXCEPT ![socket[c]] = "authenticating"]
          /\ client' = [client EXCEPT ![c] = "authenticating"]
          /\ UNCHANGED <<fileVars, server, waitingFor, owner, socket, failed, stopped, faults>>

(* lookup and lookupClient                                                   *)
MayEnter(c) == c \in permissions

Authenticate(c) ==
  /\ socket[c] # NoSocket /\ handler[socket[c]] = "authenticating" /\ ~Aborted
  /\ IF MayEnter(c)
     THEN /\ handler' = [handler EXCEPT ![socket[c]] = "session"]
          /\ UNCHANGED <<fileVars, server, waitingFor, owner, clientVars, faults>>
     ELSE \E withError \in BOOLEAN : Ends(socket[c], withError)

(* SERVICE_BIND; a service that is bound already ends the session.           *)
Bind(c) ==
  /\ client[c] = "session" /\ socket[c] # NoSocket /\ ~Aborted
  /\ owner[c] # socket[c]
  /\ IF owner[c] = NoSocket
     THEN /\ owner' = [owner EXCEPT ![c] = socket[c]]
          /\ UNCHANGED <<fileVars, server, handler, waitingFor, clientVars, faults>>
     ELSE Ends(socket[c], FALSE)

-----------------------------------------------------------------------------
(* The clients.                                                             *)

(* The bound of failed is where counting stops.                              *)
OneMore(n) == IF n < MaxFailed THEN n + 1 ELSE n

(* handleClientSocket has thrown: the socket is closed and the loop goes on,  *)
(* or ends with the signal.  The relay has yet to notice.                    *)
Fails(c, stopping) ==
  /\ client' = [client EXCEPT ![c] = IF stopping THEN "ended" ELSE "pausing"]
  /\ socket' = [socket EXCEPT ![c] = NoSocket]
  /\ failed' = [failed EXCEPT ![c] = OneMore(@)]
  /\ UNCHANGED <<fileVars, relayVars>>

\* Mutant: the abort of a socket's signal does not close the socket.
MutCloses(c) == FALSE

(* socketAbort.signal.addEventListener("abort", () => socket.close())        *)
Closes(c) == stopped[c]

(* There is no server to connect to, or close was called first.              *)
ConnectFails(c) ==
  /\ client[c] = "connecting" /\ (server # "serving" \/ Closes(c))
  /\ Fails(c, stopped[c])
  /\ UNCHANGED <<stopped, faults>>

(* The socket was closed, by the relay or by the client's own stop.          *)
SocketLost(c) ==
  /\ client[c] \in {"opening", "authenticating", "session"}
  /\ socket[c] = NoSocket \/ (client[c] = "opening" /\ Closes(c))
  /\ Fails(c, stopped[c])
  /\ UNCHANGED <<stopped, faults>>

Cut(c) ==
  /\ socket[c] # NoSocket
  /\ faults < MaxFaults /\ faults' = faults + 1
  /\ socket' = [socket EXCEPT ![c] = NoSocket]
  /\ UNCHANGED <<fileVars, relayVars, client, failed, stopped>>

Enter(c) ==
  /\ client[c] = "authenticating"
  /\ socket[c] # NoSocket /\ handler[socket[c]] = "session"
  /\ client' = [client EXCEPT ![c] = "session"]
  /\ failed' = [failed EXCEPT ![c] = 0]
  /\ UNCHANGED <<fileVars, relayVars, socket, stopped, faults>>

(* delay(100), then reconnectDelay; then delay rejects if the signal is       *)
(* aborted.                                                                  *)
Ask(c) ==
  /\ client[c] = "pausing"
  /\ client' = [client EXCEPT ![c] =
       IF failed[c] >= Patience[c] \/ stopped[c] THEN "ended" ELSE "waiting"]
  /\ UNCHANGED <<fileVars, relayVars, socket, failed, stopped, faults>>

Wait(c) ==
  /\ client[c] = "waiting"
  /\ client' = [client EXCEPT ![c] = "connecting"]
  /\ UNCHANGED <<fileVars, relayVars, socket, failed, stopped, faults>>

(* The signal rejects what a session or a delay awaits; a socket that is     *)
(* being opened is told to close.                                            *)
StopClient(c) ==
  /\ ~stopped[c]
  /\ stopped' = [stopped EXCEPT ![c] = TRUE]
  /\ IF client[c] \in {"authenticating", "session"} THEN Fails(c, TRUE)
     ELSE /\ client' = [client EXCEPT ![c] = IF @ = "waiting" THEN "ended" ELSE @]
          /\ UNCHANGED <<fileVars, relayVars, socket, failed>>
  /\ UNCHANGED faults

-----------------------------------------------------------------------------

Relay == Launch \/ Loading \/ EditFile \/ Stop \/ HttpDone \/ AllSettled \/ Exit \/ Crash
Handler(w) == HandlerLost(w) \/ HandlerAborted(w)
Meets(c) == Upgrade(c) \/ Open(c) \/ Authenticate(c) \/ Bind(c)
Client(c) ==
  \/ ConnectFails(c) \/ SocketLost(c) \/ Cut(c) \/ Enter(c)
  \/ Ask(c) \/ Wait(c) \/ StopClient(c)

Next ==
  \/ Relay
  \/ \E w \in Sockets : Handler(w)
  \/ \E c \in Clients : Meets(c) \/ Client(c)

Spec == Init /\ [][Next]_vars

(* Files are read, timers fire, the events of a socket arrive, and the relay *)
(* notices a client that is gone, by the pings of the HTTP server.  Nobody   *)
(* has to start, stop or edit anything.                                      *)
Fairness ==
  /\ WF_vars(Loading) /\ WF_vars(HttpDone) /\ WF_vars(AllSettled)
  /\ \A w \in Sockets : WF_vars(HandlerLost(w)) /\ WF_vars(HandlerAborted(w))
  /\ \A c \in Clients :
       /\ WF_vars(Upgrade(c)) /\ WF_vars(Open(c)) /\ WF_vars(Authenticate(c))
       /\ WF_vars(Bind(c)) /\ WF_vars(ConnectFails(c)) /\ WF_vars(SocketLost(c))
       /\ WF_vars(Enter(c)) /\ WF_vars(Ask(c)) /\ WF_vars(Wait(c))

FairSpec == Spec /\ Fairness

-----------------------------------------------------------------------------
(* Safety.                                                                   *)

(* createTunnelRelayServer returns only when no handler runs any more, the   *)
(* handler of a client that is gone without the relay knowing included; it   *)
(* may throw before, with the first handler that ends with an error          *)
(* (tunnel.server.ts:216).                                                   *)
ReturnsLast == server = "returned" => Running = {}

-----------------------------------------------------------------------------
(* Liveness.                                                                 *)

(* A client that the relay authorizes, and that does not stop or lose its    *)
(* patience, gets its session and its service back once a relay serves,      *)
(* whatever was cut off, crashed or edited before, and though its own old    *)
(* session refuses it the service at first.                                  *)
ComesBack ==
  \A c \in Clients :
    <>[](server = "serving" /\ c \in permissions /\ client[c] # "ended" /\ ~stopped[c]) =>
      <>[](client[c] = "session" /\ owner[c] = socket[c] /\ socket[c] # NoSocket)

(* A process that is told to stop ends, whatever its sockets do; a client    *)
(* that is told to stop leaves its loop, wherever in it, and its WebSocket   *)
(* does not stay open.                                                       *)
StopEnds ==
  /\ server = "stopping" ~> server \in {"returned", "threw", "down"}
  /\ \A c \in Clients : stopped[c] ~> client[c] = "ended" /\ socket[c] = NoSocket

=============================================================================
