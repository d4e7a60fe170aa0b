------------------------------- MODULE Relay -------------------------------
(***************************************************************************)
(* The relay: the registry of services and of circuits that every          *)
(* WebSocket of the server shares (createRelay), and the command loop      *)
(* that each WebSocket runs on it (handleSocketRelay), both of             *)
(* tunnel/server/tunnel.relay.ts.                                          *)
(*                                                                         *)
(* The handlers are asynchronous functions of one JavaScript thread: a     *)
(* handler runs alone up to its next await.  An action is one such run.    *)
(* Two awaits lie inside a command, the permission questions of            *)
(* SERVICE_BIND and SERVICE_CONNECT, and everything another socket does    *)
(* may happen while a handler waits there.  The commands themselves are    *)
(* arbitrary: nothing here assumes that the peers follow the protocol.     *)
(***************************************************************************)
EXTENDS Integers, Sequences, FiniteSets

CONSTANTS
  Sockets,         (* the WebSockets that reach the end of authentication    *)
  Services,        (* the names of services                                  *)
  ServiceTypes,    (* the members of RelayServiceType                        *)
  InvalidType,     (* a type byte that is not in RelayServiceType            *)
  None,            (* JavaScript's undefined                                 *)
  MaxLinks,        (* bound: the circuits a server socket may ever be given, *)
                   (* 2^31 in the program, whose uids are encoded in int32   *)
  MaxClientUid,    (* bound: the largest uid a client may choose, 2^31 - 1   *)
  BindEnabled,     (* the sockets with permissions.bind.enabled              *)
  ConnectEnabled,  (* the sockets with permissions.connect.enabled           *)
  MayBind,         (* <<s, n>>: permissions.bind.allowed(n) answers true     *)
  MayConnect,      (* <<s, n>>: permissions.connect.allowed(n) answers true  *)
  BindRequests     (* the requests a SERVICE_BIND command may carry          *)

Uids == (-MaxLinks)..MaxClientUid

RelayService == [service : Services, type : ServiceTypes]

(* A SERVICE_BIND command: its entries with a type that is in               *)
(* RelayServiceType, in order, and whether there are others, which the loop *)
(* over the entries skips before it awaits anything.                        *)
BindCommand == [todo : Seq(RelayService), invalid : BOOLEAN]

(* A circuit (RelayServiceConnection) joins the end that asked for it, at   *)
(* the uid its client chose, to the end that owns the service, at the uid   *)
(* the relay chose.                                                         *)
Circuit == [client : Sockets, clientUid : Uids,
            server : Sockets, serverUid : Uids]

ASSUME RelayAssumption ==
  /\ MaxLinks \in Nat \ {0}
  /\ MaxClientUid \in Nat \ {0}
  /\ IsFiniteSet(Sockets)
  /\ None \notin ServiceTypes \cup Circuit \cup [socket : Sockets, type : ServiceTypes]
  /\ InvalidType \notin ServiceTypes
  /\ BindEnabled \subseteq Sockets
  /\ ConnectEnabled \subseteq Sockets
  /\ MayBind \subseteq Sockets \X Services
  /\ MayConnect \subseteq Sockets \X Services
  /\ BindRequests \subseteq BindCommand

VARIABLES
  phase,             (* where the handler of each socket is                   *)
  request,           (* the locals of a handler that waits for a permission   *)
  serviceBound,      (* the handler's local of that name                      *)
  aborted,           (* the sockets whose decryptQueue is aborted             *)
  registeredSockets, (* the keys of the relay's map of sockets                *)
  relayCounter,      (* per registered socket: the uid of its last link       *)
  connections,       (* per registered socket: its map from uid to circuit    *)
  boundServices,     (* from a service to its owner and its type              *)
  sent               (* the messages handed to the sockets' writers by the    *)
                     (* last step                                             *)

handlerVars == <<phase, request, serviceBound, aborted>>
registryVars == <<registeredSockets, relayCounter, connections, boundServices>>
vars == <<handlerVars, registryVars, sent>>

-----------------------------------------------------------------------------
ClientEnd(c) == <<c.client, c.clientUid>>
ServerEnd(c) == <<c.server, c.serverUid>>
Ends(c) == {ClientEnd(c), ServerEnd(c)}

\* Mutant: the comparison is against the other end.
MutTarget(c, source) == IF source = c.client THEN ClientEnd(c) ELSE ServerEnd(c)

(* The end that close, forward and notify write to: the other one, told     *)
(* apart by the WebSocket the command came from.                            *)
Target(c, source) == IF source = c.server THEN ClientEnd(c) ELSE ServerEnd(c)

Held(s) == {connections[s][u] : u \in Uids} \ {None}

(* What a handler that waits for a permission goes on with.                  *)
BindRequest == [todo : Seq(RelayService),
                accepted : [Services -> ServiceTypes \cup {None}],
                invalid : BOOLEAN, unauthorized : BOOLEAN, unavailable : BOOLEAN]
ConnectRequest == [uid : Uids, service : Services, type : ServiceTypes]

NoServices == [n \in Services |-> None]

Commands == {"SOCKET_CLOSE", "SERVICE_BIND", "SERVICE_CONNECT", "SERVICE_STREAM",
             "SERVICE_LINK", "SERVICE_CLOSED", "UNSUPPORTED"}

(* Replies, reasons and payloads, the latter without their bytes.            *)
Infos == {"", "SUCCESS", "FAILURE", "SOCKET_ALREADY_BOUND", "SERVICE_ALREADY_BOUND",
          "SERVICE_INVALID_TYPE", "UNAUTHORIZED", "SERVICE_NOT_FOUND",
          "SERVICE_INVALID_IDENTIFIER", "DATA", "LINKED",
          "TRANSPORT_SOCKET_CLOSED", "TRANSPORT_SOCKET_EOS", "CONNECTION_GONE"}

Messages == [to : Sockets, cmd : Commands, uid : Uids, info : Infos]

Message(end, cmd, info) == [to |-> end[1], cmd |-> cmd, uid |-> end[2], info |-> info]

(* A message about the socket itself has no uid; 0 stands for that here.     *)
Plain(s, cmd, info) == Message(<<s, 0>>, cmd, info)

TypeOK ==
  /\ phase \in [Sockets -> {"new", "loop", "binding", "connecting", "gone"}]
  /\ request \in [Sockets -> BindRequest \cup ConnectRequest \cup {None}]
  /\ \A s \in Sockets :
       /\ phase[s] = "binding" => request[s] \in BindRequest /\ request[s].todo # <<>>
       /\ phase[s] = "connecting" => request[s] \in ConnectRequest
  /\ serviceBound \in [Sockets -> BOOLEAN]
  /\ aborted \subseteq Sockets
  /\ registeredSockets \subseteq Sockets
  /\ relayCounter \in [Sockets -> (-MaxLinks)..0]
  /\ connections \in [Sockets -> [Uids -> Circuit \cup {None}]]
  /\ boundServices \in [Services -> [socket : Sockets, type : ServiceTypes] \cup {None}]
  /\ sent \subseteq Messages

Init ==
  /\ phase = [s \in Sockets |-> "new"]
  /\ request = [s \in Sockets |-> None]
  /\ serviceBound = [s \in Sockets |-> FALSE]
  /\ aborted = {}
  /\ registeredSockets = {}
  /\ relayCounter = [s \in Sockets |-> 0]
  /\ connections = [s \in Sockets |-> [u \in Uids |-> None]]
  /\ boundServices = NoServices
  /\ sent = {}

-----------------------------------------------------------------------------
(* The operations of the relay (createRelay).                               *)

Owner(n) == boundServices[n].socket

CloseNotice(c, source, reason) == Message(Target(c, source), "SERVICE_CLOSED", reason)

\* Mutant: close forgets the entry of the end that asked for it.
MutWithout(lost) ==
  [s \in Sockets |-> [u \in Uids |->
     IF \E c \in lost : <<s, u>> = ServerEnd(c) THEN None ELSE connections[s][u]]]

(* connection.close drops the circuit from the maps of both ends.            *)
Without(lost) ==
  [s \in Sockets |-> [u \in Uids |->
     IF \E c \in lost : <<s, u>> \in Ends(c) THEN None ELSE connections[s][u]]]

\* Mutant: the services of a socket outlive it.
MutServicesWithout(s) == boundServices

ServicesWithout(s) ==
  [n \in Services |->
     IF boundServices[n] # None /\ Owner(n) = s THEN None ELSE boundServices[n]]

\* Mutant: the peers of a socket that goes are not told.
MutDisconnectNotices(s) == {}

DisconnectNotices(s) ==
  {CloseNotice(c, s, "TRANSPORT_SOCKET_CLOSED") : c \in Held(s)}

(* relay.disconnected: the services of the socket go, its circuits are      *)
(* closed with notice to the other ends, and its registration goes.         *)
Disconnected(s) ==
  /\ boundServices' = ServicesWithout(s)
  /\ connections' = [Without(Held(s)) EXCEPT ![s] = [u \in Uids |-> None]]
  /\ registeredSockets' = registeredSockets \ {s}
  /\ relayCounter' = [relayCounter EXCEPT ![s] = 0]

\* Mutant: the test for a service that is bound already is missing.
MutSomeBound(accepted) == FALSE

(* The test that makes relay.bind throw.                                     *)
SomeBound(accepted) == \E n \in Services : accepted[n] # None /\ boundServices[n] # None

Bind(s, accepted) ==
  boundServices' =
    [n \in Services |-> IF accepted[n] # None THEN [socket |-> s, type |-> accepted[n]]
                                              ELSE boundServices[n]]

\* Mutant: every link of a server socket gets the same uid.
MutSameUid(server) == -1

NextServerUid(server) == relayCounter[server] - 1

(* relay.link: a new circuit from the client's end to the service's owner.   *)
Link(client, clientUid, n) ==
  LET server == Owner(n)
      uid == NextServerUid(server)
      c == [client |-> client, clientUid |-> clientUid, server |-> server, serverUid |-> uid]
  IN /\ relayCounter[server] > -MaxLinks
     /\ relayCounter' = [relayCounter EXCEPT ![server] = uid]
     /\ connections' = [s \in Sockets |-> [u \in Uids |->
                          IF <<s, u>> \in Ends(c) THEN c ELSE connections[s][u]]]
     /\ sent' = {Message(ServerEnd(c), "SERVICE_LINK", "LINKED")}
     /\ UNCHANGED <<registeredSockets, boundServices>>

-----------------------------------------------------------------------------
(* The life of a handler.                                                    *)

(* Authentication is over and relay.connected registers the socket.          *)
Connected(s) ==
  /\ phase[s] = "new"
  /\ phase' = [phase EXCEPT ![s] = "loop"]
  /\ registeredSockets' = registeredSockets \cup {s}
  /\ relayCounter' = [relayCounter EXCEPT ![s] = 0]
  /\ connections' = [connections EXCEPT ![s] = [u \in Uids |-> None]]
  /\ sent' = {}
  /\ UNCHANGED <<request, serviceBound, aborted, boundServices>>

(* The handler returns or throws: its finally clause runs in the same step.  *)
Leave(s, replies) ==
  /\ phase' = [phase EXCEPT ![s] = "gone"]
  /\ request' = [request EXCEPT ![s] = None]
  /\ serviceBound' = [serviceBound EXCEPT ![s] = FALSE]
  /\ Disconnected(s)
  /\ sent' = replies \cup DisconnectNotices(s)
  /\ UNCHANGED aborted

(* The handler goes on to the next command having written the given messages.*)
Continue(replies) ==
  /\ sent' = replies
  /\ UNCHANGED <<handlerVars, registryVars>>

(* The transport closed or failed, or a packet did not decrypt.              *)
Abort(s) ==
  /\ s \in registeredSockets \ aborted
  /\ aborted' = aborted \cup {s}
  /\ sent' = {}
  /\ UNCHANGED <<phase, request, serviceBound, registryVars>>

(* decryptQueue.shift rejects once the queue is aborted.                     *)
ShiftRejected(s) ==
  /\ phase[s] = "loop"
  /\ s \in aborted
  /\ Leave(s, {})

(* A command was taken out of the queue.                                     *)
Ready(s) == phase[s] = "loop" /\ s \notin aborted

(* A buffer shorter than its fields makes the reader throw.                  *)
Malformed(s) == Ready(s) /\ Leave(s, {})

SocketClose(s) == Ready(s) /\ Leave(s, {Plain(s, "SOCKET_CLOSE", "")})

UnsupportedCommand(s) == Ready(s) /\ Leave(s, {Plain(s, "UNSUPPORTED", "")})

-----------------------------------------------------------------------------
(* SERVICE_BIND.                                                             *)

BindReply(s, reply) == {Plain(s, "SERVICE_BIND", reply)}

(* The reply after the loop over the requested services, in the order in     *)
(* which the flags are looked at.                                            *)
BindVerdict(b) ==
  CASE b.invalid -> "SERVICE_INVALID_TYPE"
    [] ~b.invalid /\ b.unauthorized -> "UNAUTHORIZED"
    [] ~b.invalid /\ ~b.unauthorized /\ b.unavailable -> "SERVICE_ALREADY_BOUND"
    [] OTHER -> "SUCCESS"

\* Mutant: the registration goes on when relay.bind throws.
MutConcludeBind(s, b) ==
  IF BindVerdict(b) # "SUCCESS"
  THEN Leave(s, BindReply(s, BindVerdict(b)))
  ELSE /\ phase' = [phase EXCEPT ![s] = "loop"]
       /\ request' = [request EXCEPT ![s] = None]
       /\ sent' = BindReply(s, "SUCCESS")
       /\ IF SomeBound(b.accepted) THEN UNCHANGED boundServices ELSE Bind(s, b.accepted)
       /\ UNCHANGED <<aborted, registeredSockets, relayCounter, connections>>
       /\ serviceBound' = [serviceBound EXCEPT ![s] = TRUE]

(* Every refusal ends the handler (isBlockingFailure).  SUCCESS is written   *)
(* before relay.bind, which throws if another handler bound one of the       *)
(* services after this one had found it free.                                *)
ConcludeBind(s, b) ==
  IF BindVerdict(b) # "SUCCESS" \/ SomeBound(b.accepted)
  THEN Leave(s, BindReply(s, BindVerdict(b)))
  ELSE /\ phase' = [phase EXCEPT ![s] = "loop"]
       /\ request' = [request EXCEPT ![s] = None]
       /\ serviceBound' = [serviceBound EXCEPT ![s] = TRUE]
       /\ sent' = BindReply(s, "SUCCESS")
       /\ Bind(s, b.accepted)
       /\ UNCHANGED <<aborted, registeredSockets, relayCounter, connections>>

(* The handler asks for the next permission, or concludes.                   *)
ContinueBind(s, b) ==
  \/ /\ b.todo # <<>>
     /\ phase' = [phase EXCEPT ![s] = "binding"]
     /\ request' = [request EXCEPT ![s] = b]
     /\ serviceBound' = [serviceBound EXCEPT ![s] = TRUE]
     /\ sent' = {}
     /\ UNCHANGED <<aborted, registryVars>>
  \/ /\ b.todo = <<>>
     /\ ConcludeBind(s, b)

ServiceBind(s, command) ==
  /\ Ready(s)
  /\ \/ /\ s \notin BindEnabled
        /\ Leave(s, BindReply(s, "UNAUTHORIZED"))
     \/ /\ s \in BindEnabled
        /\ serviceBound[s]
        /\ Leave(s, BindReply(s, "SOCKET_ALREADY_BOUND"))
     \/ /\ s \in BindEnabled
        /\ ~serviceBound[s]
        /\ ContinueBind(s, [todo |-> command.todo, accepted |-> NoServices,
                            invalid |-> command.invalid,
                            unauthorized |-> FALSE, unavailable |-> FALSE])

(* permissions.bind.allowed answered for the first service still to do, and  *)
(* the registry is looked at as it is now.                                   *)
BindAllowed(s) ==
  /\ phase[s] = "binding"
  /\ LET b == request[s]
         r == Head(b.todo)
         n == r.service
         rest == [b EXCEPT !.todo = Tail(@)]
     IN \/ /\ <<s, n>> \notin MayBind
           /\ ContinueBind(s, [rest EXCEPT !.unauthorized = TRUE])
        \/ /\ <<s, n>> \in MayBind
           /\ boundServices[n] # None
           /\ ContinueBind(s, [rest EXCEPT !.unavailable = TRUE])
        \/ /\ <<s, n>> \in MayBind
           /\ boundServices[n] = None
           /\ ContinueBind(s, [rest EXCEPT !.accepted[n] = r.type])

-----------------------------------------------------------------------------
(* SERVICE_CONNECT.                                                          *)

ConnectReply(s, uid, reply) == {Message(<<s, uid>>, "SERVICE_CONNECT", reply)}

\* Mutant: a client may use the uid of a circuit it has.
MutFreeClientUid(s, uid) == uid > 0

FreeClientUid(s, uid) == uid > 0 /\ connections[s][uid] = None

(* Bound: every handler that waits for a permission finds a uid left.        *)
LinksLeft ==
  \A t \in Sockets :
    Cardinality({s \in Sockets : phase[s] = "connecting"}) < MaxLinks + relayCounter[t]

ServiceConnect(s, uid, n, type) ==
  /\ Ready(s)
  /\ \/ /\ s \notin ConnectEnabled
        /\ Leave(s, ConnectReply(s, uid, "UNAUTHORIZED"))
     \/ /\ s \in ConnectEnabled
        /\ ~FreeClientUid(s, uid)
        /\ Leave(s, ConnectReply(s, uid, "SERVICE_INVALID_IDENTIFIER"))
     \/ /\ s \in ConnectEnabled
        /\ FreeClientUid(s, uid)
        /\ type \notin ServiceTypes
        /\ Leave(s, ConnectReply(s, uid, "SERVICE_INVALID_TYPE"))
     \/ /\ s \in ConnectEnabled
        /\ FreeClientUid(s, uid)
        /\ type \in ServiceTypes
        /\ LinksLeft
        /\ phase' = [phase EXCEPT ![s] = "connecting"]
        /\ request' = [request EXCEPT ![s] = [uid |-> uid, service |-> n, type |-> type]]
        /\ sent' = {}
        /\ UNCHANGED <<serviceBound, aborted, registryVars>>

\* Mutant: the permission to connect is not waited for.
MutMayLink(s, n) == TRUE

MayLink(s, n) == <<s, n>> \in MayConnect

(* permissions.connect.allowed answered, and the service is looked up as it  *)
(* is bound now.  Only the refused permission ends the handler.              *)
ConnectAllowed(s) ==
  /\ phase[s] = "connecting"
  /\ LET uid == request[s].uid
         n == request[s].service
         resume == /\ phase' = [phase EXCEPT ![s] = "loop"]
                   /\ request' = [request EXCEPT ![s] = None]
                   /\ UNCHANGED <<serviceBound, aborted>>
     IN \/ /\ ~MayLink(s, n)
           /\ Leave(s, ConnectReply(s, uid, "UNAUTHORIZED"))
        \/ /\ MayLink(s, n)
           /\ boundServices[n] = None
           /\ resume
           /\ sent' = ConnectReply(s, uid, "SERVICE_NOT_FOUND")
           /\ UNCHANGED registryVars
        \/ /\ MayLink(s, n)
           /\ boundServices[n] # None
           /\ boundServices[n].type # request[s].type
           /\ resume
           /\ sent' = ConnectReply(s, uid, "SERVICE_INVALID_TYPE")
           /\ UNCHANGED registryVars
        \/ /\ MayLink(s, n)
           /\ boundServices[n] # None
           /\ boundServices[n].type = request[s].type
           /\ resume
           /\ Link(s, uid, n)

(* The promise of a permission question rejects, or the rest of a bind       *)
(* command turns out too short.                                              *)
PermissionRejected(s) ==
  /\ phase[s] \in {"binding", "connecting"}
  /\ Leave(s, {})

-----------------------------------------------------------------------------
(* SERVICE_LINK, SERVICE_STREAM and SERVICE_CLOSED.                          *)

Gone(s, uid) == {Message(<<s, uid>>, "SERVICE_CLOSED", "CONNECTION_GONE")}

(* The server's answer to a link goes to the client as SERVICE_CONNECT.  A   *)
(* failure leaves the circuit in place.                                      *)
ServiceLink(s, uid, reply) ==
  /\ Ready(s)
  /\ LET c == connections[s][uid]
     IN \/ c # None /\ Continue({Message(Target(c, s), "SERVICE_CONNECT", reply)})
        \/ c = None /\ reply = "SUCCESS" /\ Continue(Gone(s, uid))
        \/ c = None /\ reply # "SUCCESS" /\ Continue({})

ServiceStream(s, uid) ==
  /\ Ready(s)
  /\ LET c == connections[s][uid]
     IN \/ c # None /\ Continue({Message(Target(c, s), "SERVICE_STREAM", "DATA")})
        \/ c = None /\ Continue(Gone(s, uid))

ServiceClosed(s, uid, reason) ==
  /\ Ready(s)
  /\ LET c == connections[s][uid]
     IN \/ c = None /\ Continue({})
        \/ /\ c # None
           /\ connections' = Without({c})
           /\ sent' = {CloseNotice(c, s, reason)}
           /\ UNCHANGED <<handlerVars, registeredSockets, relayCounter, boundServices>>

-----------------------------------------------------------------------------
Command(s) ==
  \/ Malformed(s)
  \/ SocketClose(s)
  \/ UnsupportedCommand(s)
  \/ \E command \in BindRequests : ServiceBind(s, command)
  \/ \E uid \in Uids, n \in Services, type \in ServiceTypes \cup {InvalidType} :
       ServiceConnect(s, uid, n, type)
  \/ \E uid \in Uids, reply \in {"SUCCESS", "FAILURE"} : ServiceLink(s, uid, reply)
  \/ \E uid \in Uids : ServiceStream(s, uid)
  \/ \E uid \in Uids : ServiceClosed(s, uid, "TRANSPORT_SOCKET_EOS")

Resume(s) == BindAllowed(s) \/ ConnectAllowed(s) \/ ShiftRejected(s)

(* All the sockets of the instance have come and gone.                       *)
AllGone == (\A s \in Sockets : phase[s] = "gone") /\ UNCHANGED vars

Next ==
  \/ \E s \in Sockets :
       Connected(s) \/ Abort(s) \/ PermissionRejected(s) \/ Command(s) \/ Resume(s)
  \/ AllGone

Spec == Init /\ [][Next]_vars

(* An await whose promise is settled goes on: the event loop is fair to it.  *)
Fairness == \A s \in Sockets : WF_vars(Resume(s))
FairSpec == Spec /\ Fairness

(* Safety: the registry as one consistent structure.                        *)

(* A circuit stands in the map of a socket exactly at one of its two ends,   *)
(* and as long as it does it stands at both: both sockets are registered,    *)
(* and a handler of either finds the same circuit (link, close and           *)
(* disconnected update the two maps in separate statements).                 *)
ConnectionsPaired ==
  \A s \in Sockets, u \in Uids :
    LET c == connections[s][u]
    IN c # None => /\ <<s, u>> \in Ends(c)
                   /\ {c.client, c.server} \subseteq registeredSockets
                   /\ connections[c.client][c.clientUid] = c
                   /\ connections[c.server][c.serverUid] = c

(* Whoever looks a service up finds its owner registered, so that the        *)
(* non-null assertions of relay.service and relay.link never fail, whatever  *)
(* happens between a permission question and the look-up.                    *)
OwnersRegistered ==
  \A n \in Services : boundServices[n] # None => Owner(n) \in registeredSockets

-----------------------------------------------------------------------------
(* Safety: what no step may do.                                              *)

(* A bound service changes hands only by way of its owner's disconnection:   *)
(* two handlers that found it free across their awaits do not both get it.   *)
NoTakeover ==
  [][\A n \in Services :
       boundServices[n] # None =>
         \/ boundServices'[n] = boundServices[n]
         \/ boundServices'[n] = None /\ Owner(n) \notin registeredSockets']_vars

(* The services a suspended SERVICE_BIND has accepted or still has to do.     *)
Asked(b) == {n \in Services : b.accepted[n] # None}
              \cup {b.todo[i].service : i \in DOMAIN b.todo}

(* A socket that is told SUCCESS owns, from that step on, every service it   *)
(* asked for, or is disconnected in that same step (SUCCESS is written       *)
(* before relay.bind is tried).                                              *)
SuccessMeansOwned ==
  [][\A s \in Sockets :
       /\ phase[s] = "binding"
       /\ BindReply(s, "SUCCESS") \subseteq sent'
       /\ s \in registeredSockets'
       => \A n \in Asked(request[s]) : boundServices'[n] # None /\ boundServices'[n].socket = s]_vars

(* A new circuit leads to the socket that owns the requested service, with   *)
(* the requested type, when the circuit is made (and not when its permission *)
(* was asked for), and only if the one may connect to it and the other may   *)
(* offer it.                                                                 *)
LinksReachOwner ==
  [][\A s \in Sockets, u \in Uids :
       LET c == connections'[s][u]
           r == request[c.client]
       IN connections[s][u] = None /\ c # None =>
            /\ phase[c.client] = "connecting"
            /\ r.uid = c.clientUid
            /\ boundServices[r.service] = [socket |-> c.server, type |-> r.type]
            /\ <<c.client, r.service>> \in MayConnect
            /\ <<c.server, r.service>> \in MayBind
            /\ Message(ServerEnd(c), "SERVICE_LINK", "LINKED") \in sent']_vars

(* A uid never passes from a live circuit to another one, and a uid that the *)
(* relay has given to an owner is never given again.                         *)
UidsNeverReused ==
  [][\A s \in Sockets, u \in Uids :
       LET c == connections'[s][u]
       IN /\ connections[s][u] # None /\ c # None => c = connections[s][u]
          /\ connections[s][u] = None /\ c # None /\ <<s, u>> = ServerEnd(c)
               => u < relayCounter[s]]_vars

(* What a peer is told about a uid, the relay's own refusals aside, is about *)
(* a circuit it still has: once a circuit was closed nothing of it arrives.  *)
SpeaksOnlyOfHeldEnds ==
  [][\A m \in sent' :
       \/ m.cmd = "SERVICE_STREAM"
       \/ m.cmd = "SERVICE_CLOSED" /\ m.info # "CONNECTION_GONE"
       \/ m.cmd = "SERVICE_CONNECT" /\ m.info \in {"SUCCESS", "FAILURE"}
       => connections[m.to][m.uid] # None]_vars

ToldClosed(end) == \E m \in sent' : m.cmd = "SERVICE_CLOSED" /\ <<m.to, m.uid>> = end

(* When a circuit between two sockets goes, one of them hears of it, and it  *)
(* is the one that stays if the other disconnects.                           *)
EveryLossTold ==
  [][\A s \in registeredSockets, u \in Uids :
       LET c == connections[s][u]
       IN c # None /\ connections'[s][u] = None /\ c.client # c.server =>
            /\ c.client \in registeredSockets' \/ c.server \in registeredSockets'
            /\ c.client \notin registeredSockets' => ToldClosed(ServerEnd(c))
            /\ c.server \notin registeredSockets' => ToldClosed(ClientEnd(c))
            /\ \E end \in Ends(c) : ToldClosed(end)]_vars

(* What a socket streams on a circuit arrives at the circuit's other end.    *)
StreamsCross ==
  [][\A s \in Sockets, u \in Uids :
       connections[s][u] # None /\ ServiceStream(s, u) =>
         \E end \in Ends(connections[s][u]) \ {<<s, u>>} :
           sent' = {Message(end, "SERVICE_STREAM", "DATA")}]_vars

(* The same for the circuits that join two sockets.                          *)
StreamsCrossBetweenSockets ==
  [][\A s \in Sockets, u \in Uids :
       LET c == connections[s][u]
       IN c # None /\ ServiceStream(s, u) /\ c.client # c.server =>
            \E end \in Ends(c) \ {<<s, u>>} :
              sent' = {Message(end, "SERVICE_STREAM", "DATA")}]_vars

-----------------------------------------------------------------------------
(* Liveness.                                                                 *)

Forgotten(s) ==
  /\ s \notin registeredSockets
  /\ \A n \in Services : boundServices[n] # None => Owner(n) # s
  /\ \A t \in Sockets, u \in Uids :
       connections[t][u] # None => s \notin {connections[t][u].client, connections[t][u].server}

(* A socket whose transport is lost is forgotten, its services are free      *)
(* again and no peer keeps a circuit to it, even if its handler was waiting  *)
(* for a permission when that happened.                                      *)
LostSocketsForgotten == \A s \in Sockets : s \in aborted ~> Forgotten(s)

-----------------------------------------------------------------------------
(* The relay implements the switchboard: seen from outside, the suspended    *)
(* handlers have done nothing yet, SERVICE_BIND publishes all its services   *)
(* in one step or none, and the two maps of a circuit's ends are one set.    *)
Board == INSTANCE Switchboard
  WITH Parties <- Sockets, Types <- ServiceTypes, present <- registeredSockets,
       published <- boundServices, circuits <- UNION {Held(s) : s \in Sockets}

ImplementsSwitchboard == Board!BoardSpec

=============================================================================
