---------------------------- MODULE RelayProofs ----------------------------
(***************************************************************************)
(* Proofs about Relay, for any sets of sockets and services, any           *)
(* permissions and any requests: the registry stays consistent whatever    *)
(* the peers send and however the handlers interleave at their awaits.     *)
(*                                                                         *)
(* ConnectionsPaired and OwnersRegistered are not inductive.  RegistryInv  *)
(* adds three facts: the two halves of the uid space stay apart, the       *)
(* registered sockets are those whose handler runs its command loop, and   *)
(* the uid a suspended SERVICE_CONNECT was found free for is still free,   *)
(* for nobody else enters a positive uid into that socket's map.           *)
(*                                                                         *)
(* From the invariant follow what no step may do, to the registry or in    *)
(* what it writes, and that each step is one of the switchboard or none.   *)
(***************************************************************************)
EXTENDS Relay, TLAPS

Running(s) == phase[s] \in {"loop", "binding", "connecting"}

(* A socket is registered while its handler is in the command loop.          *)
RegisteredRun == \A s \in Sockets : s \in registeredSockets <=> Running(s)

(* The uid of a SERVICE_CONNECT that waits for its permission stays free.    *)
AskedUidFree ==
  \A s \in Sockets :
    phase[s] = "connecting" => FreeClientUid(s, request[s].uid)

(* The two halves of the uid space are kept apart: clients choose positive   *)
(* uids, the relay counts down from zero, and no live circuit has a server   *)
(* uid that the counter has not reached.                                     *)
UidsApart ==
  \A s \in Sockets, u \in Uids :
    LET c == connections[s][u]
    IN c # None => /\ c.clientUid > 0
                   /\ c.serverUid < 0
                   /\ relayCounter[c.server] <= c.serverUid

RegistryInv ==
  /\ TypeOK
  /\ RegisteredRun
  /\ AskedUidFree
  /\ ConnectionsPaired
  /\ OwnersRegistered
  /\ UidsApart

-----------------------------------------------------------------------------
(* Types of the operators the actions are built from.                        *)

LEMMA UidsType ==
  /\ Uids \subseteq Int
  /\ 0 \in Uids
  /\ (-MaxLinks)..0 \subseteq Uids
BY RelayAssumption DEF RelayAssumption, Uids

LEMMA EndsType ==
  ASSUME NEW c \in Circuit, NEW s \in Sockets
  PROVE  /\ ClientEnd(c) \in Sockets \X Uids
         /\ ServerEnd(c) \in Sockets \X Uids
         /\ Target(c, s) \in Sockets \X Uids
BY DEF Circuit, ClientEnd, ServerEnd, Target

LEMMA MessageType ==
  ASSUME NEW end \in Sockets \X Uids, NEW cmd \in Commands, NEW info \in Infos
  PROVE  Message(end, cmd, info) \in Messages
BY DEF Message, Messages

LEMMA PlainType ==
  ASSUME NEW s \in Sockets, NEW cmd \in Commands, NEW info \in Infos
  PROVE  Plain(s, cmd, info) \in Messages
BY UidsType, MessageType DEF Plain

LEMMA HeldType ==
  ASSUME TypeOK, NEW s \in Sockets
  PROVE  Held(s) \subseteq Circuit
BY DEF TypeOK, Held

LEMMA NoticesType ==
  ASSUME TypeOK, NEW s \in Sockets
  PROVE  DisconnectNotices(s) \subseteq Messages
<1> SUFFICES ASSUME NEW c \in Held(s)
             PROVE  CloseNotice(c, s, "TRANSPORT_SOCKET_CLOSED") \in Messages
  BY DEF DisconnectNotices
<1> QED
  BY HeldType, EndsType, MessageType DEF CloseNotice, Commands, Infos

LEMMA WithoutType ==
  ASSUME TypeOK, NEW lost
  PROVE  Without(lost) \in [Sockets -> [Uids -> Circuit \cup {None}]]
BY DEF TypeOK, Without

-----------------------------------------------------------------------------
(* What the two operations that drop circuits leave standing.                *)

(* Two live circuits that share an end are the same circuit.                 *)
LEMMA EndsIdentify ==
  ASSUME TypeOK, ConnectionsPaired,
         NEW s \in Sockets, NEW u \in Uids, NEW t \in Sockets, NEW v \in Uids,
         connections[s][u] # None, connections[t][v] # None,
         Ends(connections[s][u]) \cap Ends(connections[t][v]) # {}
  PROVE  connections[s][u] = connections[t][v]
<1> DEFINE c == connections[s][u]
           d == connections[t][v]
<1>1. /\ connections[c.client][c.clientUid] = c
      /\ connections[c.server][c.serverUid] = c
      /\ connections[d.client][d.clientUid] = d
      /\ connections[d.server][d.serverUid] = d
  BY DEF ConnectionsPaired
<1>2. PICK e \in Ends(c) : e \in Ends(d)
  OBVIOUS
<1>3. connections[e[1]][e[2]] = c /\ connections[e[1]][e[2]] = d
  BY <1>1, <1>2 DEF Ends, ClientEnd, ServerEnd
<1> QED
  BY <1>3

(* Dropping a set of live circuits keeps every other one at both its ends.   *)
LEMMA WithoutPairs ==
  ASSUME TypeOK, ConnectionsPaired,
         NEW lost, \A d \in lost : \E t \in Sockets, v \in Uids :
                                     d # None /\ connections[t][v] = d,
         NEW s \in Sockets, NEW u \in Uids,
         Without(lost)[s][u] # None
  PROVE  LET c == Without(lost)[s][u]
         IN /\ c = connections[s][u]
            /\ c \notin lost
            /\ c \in Circuit
            /\ <<s, u>> \in Ends(c)
            /\ {c.client, c.server} \subseteq registeredSockets
            /\ Without(lost)[c.client][c.clientUid] = c
            /\ Without(lost)[c.server][c.serverUid] = c
<1> DEFINE c == connections[s][u]
<1>1. /\ Without(lost)[s][u] = c
      /\ \A d \in lost : <<s, u>> \notin Ends(d)
  BY DEF Without
<1>2. /\ c # None
      /\ c \in Circuit
      /\ <<s, u>> \in Ends(c)
      /\ {c.client, c.server} \subseteq registeredSockets
      /\ connections[c.client][c.clientUid] = c
      /\ connections[c.server][c.serverUid] = c
  BY <1>1 DEF ConnectionsPaired, TypeOK
<1>3. ASSUME NEW d \in lost
      PROVE  Ends(c) \cap Ends(d) = {}
  <2>1. PICK t \in Sockets, v \in Uids : d # None /\ connections[t][v] = d
    OBVIOUS
  <2>2. c # d
    BY <1>1, <1>2
  <2> QED
    BY <1>2, <2>1, <2>2, EndsIdentify
<1>4. c \notin lost
  BY <1>1, <1>2
<1>5. /\ c.client \in Sockets /\ c.clientUid \in Uids
      /\ c.server \in Sockets /\ c.serverUid \in Uids
  BY <1>2 DEF Circuit
<1>6. /\ \A d \in lost : <<c.client, c.clientUid>> \notin Ends(d)
      /\ \A d \in lost : <<c.server, c.serverUid>> \notin Ends(d)
  BY <1>3 DEF Ends, ClientEnd, ServerEnd
<1>7. /\ Without(lost)[c.client][c.clientUid] = c
      /\ Without(lost)[c.server][c.serverUid] = c
  BY <1>2, <1>5, <1>6 DEF Without
<1> QED
  BY <1>1, <1>2, <1>4, <1>7

LEMMA HeldStand ==
  ASSUME TypeOK, NEW s \in Sockets
  PROVE  \A d \in Held(s) : \E t \in Sockets, v \in Uids :
                              d # None /\ connections[t][v] = d
BY DEF Held

(* After relay.disconnected no circuit of the socket stands anywhere, and    *)
(* every other circuit stands where it stood.                                *)
LEMMA DisconnectedEntries ==
  ASSUME TypeOK, ConnectionsPaired, NEW s \in Sockets, Disconnected(s),
         NEW t \in Sockets, NEW u \in Uids, connections'[t][u] # None
  PROVE  LET c == connections'[t][u]
         IN /\ c = connections[t][u]
            /\ c \in Circuit
            /\ <<t, u>> \in Ends(c)
            /\ s \notin {c.client, c.server}
            /\ {c.client, c.server} \subseteq registeredSockets
            /\ connections'[c.client][c.clientUid] = c
            /\ connections'[c.server][c.serverUid] = c
<1> DEFINE c == connections'[t][u]
           kept == Without(Held(s))
<1>1. kept \in [Sockets -> [Uids -> Circuit \cup {None}]]
  BY WithoutType
<1>2. connections' = [kept EXCEPT ![s] = [v \in Uids |-> None]]
  BY DEF Disconnected
<1>3. t # s /\ c = kept[t][u]
  BY <1>1, <1>2
<1>4. /\ c = connections[t][u]
      /\ c \notin Held(s)
      /\ c \in Circuit
      /\ <<t, u>> \in Ends(c)
      /\ {c.client, c.server} \subseteq registeredSockets
      /\ kept[c.client][c.clientUid] = c
      /\ kept[c.server][c.serverUid] = c
  BY <1>3, WithoutPairs, HeldStand
<1>5. s \notin {c.client, c.server}
  <2>1. /\ connections[c.client][c.clientUid] = c
        /\ connections[c.server][c.serverUid] = c
    BY <1>3, <1>4 DEF ConnectionsPaired
  <2>2. c.clientUid \in Uids /\ c.serverUid \in Uids
    BY <1>4 DEF Circuit
  <2> QED
    BY <1>4, <2>1, <2>2 DEF Held
<1>6. /\ connections'[c.client][c.clientUid] = c
      /\ connections'[c.server][c.serverUid] = c
  <2>1. c.client \in Sockets /\ c.server \in Sockets
    BY <1>4 DEF Circuit
  <2> QED
    BY <1>1, <1>2, <1>4, <1>5, <2>1
<1> QED
  BY <1>4, <1>5, <1>6

-----------------------------------------------------------------------------
(* The invariant, part by part, for the ways a handler goes on.              *)

THEOREM InitRegistryInv == Init => RegistryInv
<1> SUFFICES ASSUME Init PROVE RegistryInv
  OBVIOUS
<1>1. TypeOK
  BY RelayAssumption DEF RelayAssumption, Init, TypeOK, NoServices
<1>2. RegisteredRun /\ AskedUidFree /\ ConnectionsPaired /\ OwnersRegistered /\ UidsApart
  BY DEF Init, RegisteredRun, Running, AskedUidFree, ConnectionsPaired, OwnersRegistered,
         UidsApart, NoServices
<1> QED
  BY <1>1, <1>2 DEF RegistryInv

(* The handler returns or throws.                                            *)
LEMMA LeavePreserves ==
  ASSUME RegistryInv, NEW s \in Sockets,
         NEW replies \in SUBSET Messages, Leave(s, replies)
  PROVE  RegistryInv'
<1> USE DEF RegistryInv
<1>1. Disconnected(s)
  BY DEF Leave
<1>2. TypeOK'
  <2>1. connections' \in [Sockets -> [Uids -> Circuit \cup {None}]]
    BY <1>1, WithoutType DEF Disconnected
  <2>2. boundServices' \in [Services -> [socket : Sockets, type : ServiceTypes] \cup {None}]
    BY <1>1 DEF Disconnected, ServicesWithout, TypeOK
  <2>3. sent' \subseteq Messages
    BY NoticesType DEF Leave
  <2>4. /\ registeredSockets' \subseteq Sockets
        /\ relayCounter' \in [Sockets -> (-MaxLinks)..0]
    BY <1>1, RelayAssumption DEF Disconnected, TypeOK, RelayAssumption
  <2>5. /\ phase' \in [Sockets -> {"new", "loop", "binding", "connecting", "gone"}]
        /\ request' \in [Sockets -> BindRequest \cup ConnectRequest \cup {None}]
        /\ serviceBound' \in [Sockets -> BOOLEAN]
        /\ aborted' \subseteq Sockets
    BY DEF Leave, TypeOK
  <2>6. \A t \in Sockets :
          /\ phase'[t] = "binding" => request'[t] \in BindRequest /\ request'[t].todo # <<>>
          /\ phase'[t] = "connecting" => request'[t] \in ConnectRequest
    BY DEF Leave, TypeOK
  <2> QED
    BY <2>1, <2>2, <2>3, <2>4, <2>5, <2>6 DEF TypeOK
<1>3. RegisteredRun'
  BY <1>1 DEF Leave, Disconnected, RegisteredRun, Running, TypeOK
<1>4. AskedUidFree'
  <2> SUFFICES ASSUME NEW t \in Sockets, phase'[t] = "connecting"
               PROVE  /\ request'[t].uid > 0
                      /\ connections'[t][request'[t].uid] = None
    BY DEF AskedUidFree, FreeClientUid
  <2>1. /\ phase[t] = "connecting"
        /\ request'[t] = request[t]
    BY DEF Leave, TypeOK
  <2>2. /\ request[t].uid \in Uids
        /\ request[t].uid > 0
        /\ connections[t][request[t].uid] = None
    BY <2>1 DEF AskedUidFree, FreeClientUid, TypeOK, ConnectRequest
  <2>3. connections'[t][request[t].uid] = None
    BY <1>1, <2>2, DisconnectedEntries
  <2> QED
    BY <2>1, <2>2, <2>3
<1>5. ConnectionsPaired'
  <2> SUFFICES ASSUME NEW t \in Sockets, NEW u \in Uids, connections'[t][u] # None
               PROVE  LET c == connections'[t][u]
                      IN /\ <<t, u>> \in Ends(c)
                         /\ {c.client, c.server} \subseteq registeredSockets'
                         /\ connections'[c.client][c.clientUid] = c
                         /\ connections'[c.server][c.serverUid] = c
    BY DEF ConnectionsPaired, Ends, ClientEnd, ServerEnd
  <2> DEFINE c == connections'[t][u]
  <2>1. /\ <<t, u>> \in Ends(c)
        /\ s \notin {c.client, c.server}
        /\ {c.client, c.server} \subseteq registeredSockets
        /\ connections'[c.client][c.clientUid] = c
        /\ connections'[c.server][c.serverUid] = c
    <3> HIDE DEF RegistryInv
    <3>1. TypeOK /\ ConnectionsPaired
      BY DEF RegistryInv
    <3> QED
      BY <1>1, <3>1, DisconnectedEntries
  <2>2. {c.client, c.server} \subseteq registeredSockets'
    BY <1>1, <2>1 DEF Disconnected
  <2> QED
    BY <2>1, <2>2
<1>6. OwnersRegistered'
  BY <1>1 DEF Disconnected, ServicesWithout, OwnersRegistered, Owner, TypeOK
<1>7. UidsApart'
  <2> SUFFICES ASSUME NEW t \in Sockets, NEW u \in Uids, connections'[t][u] # None
               PROVE  LET c == connections'[t][u]
                      IN c.clientUid > 0 /\ c.serverUid < 0 /\ relayCounter'[c.server] <= c.serverUid
    BY DEF UidsApart
  <2> DEFINE c == connections'[t][u]
  <2>1. c = connections[t][u] /\ c \in Circuit /\ s \notin {c.client, c.server}
    <3> HIDE DEF RegistryInv
    <3>1. TypeOK /\ ConnectionsPaired
      BY DEF RegistryInv
    <3> QED
      BY <1>1, <3>1, DisconnectedEntries
  <2> QED
    BY <1>1, <2>1 DEF Disconnected, UidsApart, TypeOK, Circuit
<1> QED
  BY <1>2, <1>3, <1>4, <1>5, <1>6, <1>7

(* The registry does not change, nor does any handler but for its place.     *)
LEMMA ContinuePreserves ==
  ASSUME RegistryInv, NEW replies \in SUBSET Messages, Continue(replies)
  PROVE  RegistryInv'
BY DEF RegistryInv, Continue, handlerVars, registryVars, TypeOK, RegisteredRun, Running,
       AskedUidFree, FreeClientUid, ConnectionsPaired, Ends, ClientEnd, ServerEnd,
       OwnersRegistered, Owner, UidsApart

(* A socket comes: the maps do not mention it yet.                           *)
LEMMA ConnectedPreserves ==
  ASSUME RegistryInv, NEW s \in Sockets, Connected(s)
  PROVE  RegistryInv'
<1> USE DEF RegistryInv
<1>1. s \notin registeredSockets
  BY DEF Connected, RegisteredRun, Running
<1>2. \A t \in Sockets, u \in Uids :
        connections[t][u] # None => /\ t # s
                                    /\ connections[t][u].client # s
                                    /\ connections[t][u].server # s
  BY <1>1 DEF ConnectionsPaired, Ends, ClientEnd, ServerEnd
<1>3. /\ connections' \in [Sockets -> [Uids -> Circuit \cup {None}]]
      /\ \A t \in Sockets, u \in Uids : connections'[t][u] = connections[t][u]
  BY <1>2 DEF Connected, TypeOK
<1>4. TypeOK'
  <2>1. relayCounter' \in [Sockets -> (-MaxLinks)..0]
    BY RelayAssumption DEF RelayAssumption, Connected, TypeOK
  <2> QED
    BY <1>3, <2>1 DEF Connected, TypeOK
<1>5. RegisteredRun'
  BY DEF Connected, RegisteredRun, Running, TypeOK
<1>6. AskedUidFree'
  BY <1>3 DEF Connected, AskedUidFree, FreeClientUid, TypeOK, ConnectRequest
<1>7. ConnectionsPaired'
  <2> SUFFICES ASSUME NEW t \in Sockets, NEW u \in Uids, connections'[t][u] # None
               PROVE  LET c == connections[t][u]
                      IN /\ <<t, u>> \in Ends(c)
                         /\ {c.client, c.server} \subseteq registeredSockets'
                         /\ connections'[c.client][c.clientUid] = c
                         /\ connections'[c.server][c.serverUid] = c
    BY <1>3 DEF ConnectionsPaired, Ends, ClientEnd, ServerEnd
  <2> DEFINE c == connections[t][u]
  <2>1. /\ <<t, u>> \in Ends(c)
        /\ {c.client, c.server} \subseteq registeredSockets
        /\ connections[c.client][c.clientUid] = c
        /\ connections[c.server][c.serverUid] = c
        /\ c \in Circuit
    BY <1>3 DEF ConnectionsPaired, TypeOK
  <2> QED
    BY <1>3, <2>1 DEF Circuit, Connected
<1>8. OwnersRegistered'
  BY DEF Connected, OwnersRegistered, Owner
<1>9. UidsApart'
  BY <1>2, <1>3 DEF Connected, UidsApart, TypeOK, Circuit
<1> QED
  BY <1>4, <1>5, <1>6, <1>7, <1>8, <1>9

LEMMA AbortPreserves ==
  ASSUME RegistryInv, NEW s \in Sockets, Abort(s)
  PROVE  RegistryInv'
BY DEF RegistryInv, Abort, registryVars, TypeOK, RegisteredRun, Running,
       AskedUidFree, FreeClientUid, ConnectionsPaired, Ends, ClientEnd, ServerEnd,
       OwnersRegistered, Owner, UidsApart

(* A client or a server closes one circuit.                                  *)
LEMMA ServiceClosedPreserves ==
  ASSUME RegistryInv, NEW s \in Sockets, NEW uid \in Uids, NEW reason \in Infos,
         ServiceClosed(s, uid, reason)
  PROVE  RegistryInv'
<1> DEFINE c == connections[s][uid]
<1>1. CASE c = None
  <2>1. Continue({})
    BY <1>1 DEF ServiceClosed
  <2> QED
    BY <2>1, ContinuePreserves
<1>2. CASE c # None
  <2>1. /\ connections' = Without({c})
        /\ sent' = {CloseNotice(c, s, reason)}
        /\ UNCHANGED <<phase, request, serviceBound, aborted,
                       registeredSockets, relayCounter, boundServices>>
    BY <1>2 DEF ServiceClosed, handlerVars
  <2>2. TypeOK /\ ConnectionsPaired
    BY DEF RegistryInv
  <2>3. /\ c \in Circuit
        /\ \A d \in {c} : \E t \in Sockets, v \in Uids : d # None /\ connections[t][v] = d
    BY <1>2, <2>2 DEF TypeOK
  <2>4. ASSUME NEW t \in Sockets, NEW u \in Uids, connections'[t][u] # None
        PROVE  LET d == connections'[t][u]
               IN /\ d = connections[t][u]
                  /\ d \in Circuit
                  /\ <<t, u>> \in Ends(d)
                  /\ {d.client, d.server} \subseteq registeredSockets
                  /\ connections'[d.client][d.clientUid] = d
                  /\ connections'[d.server][d.serverUid] = d
    BY <2>1, <2>2, <2>3, <2>4, WithoutPairs
  <2>5. TypeOK'
    <3>1. connections' \in [Sockets -> [Uids -> Circuit \cup {None}]]
      BY <2>1, <2>2, WithoutType
    <3>2. sent' \subseteq Messages
      BY <2>1, <2>3, EndsType, MessageType DEF CloseNotice, Commands
    <3> QED
      BY <2>1, <2>2, <3>1, <3>2 DEF TypeOK
  <2>6. RegisteredRun' /\ OwnersRegistered'
    BY <2>1 DEF RegistryInv, RegisteredRun, Running, OwnersRegistered, Owner
  <2>7. AskedUidFree'
    <3> SUFFICES ASSUME NEW t \in Sockets, phase[t] = "connecting"
                 PROVE  request[t].uid > 0 /\ connections'[t][request[t].uid] = None
      BY <2>1 DEF AskedUidFree, FreeClientUid
    <3>1. /\ request[t].uid \in Uids
          /\ request[t].uid > 0
          /\ connections[t][request[t].uid] = None
      BY DEF RegistryInv, AskedUidFree, FreeClientUid, TypeOK, ConnectRequest
    <3> QED
      BY <2>4, <3>1
  <2>8. ConnectionsPaired'
    BY <2>1, <2>4 DEF ConnectionsPaired, Ends, ClientEnd, ServerEnd
  <2>9. UidsApart'
    BY <2>1, <2>4 DEF RegistryInv, UidsApart
  <2> QED
    BY <2>5, <2>6, <2>7, <2>8, <2>9 DEF RegistryInv
<1> QED
  BY <1>1, <1>2

-----------------------------------------------------------------------------
(* SERVICE_BIND.                                                             *)

LEMMA BindReplyType ==
  ASSUME NEW s \in Sockets,
         NEW reply \in {"SUCCESS", "SOCKET_ALREADY_BOUND", "SERVICE_ALREADY_BOUND",
                        "SERVICE_INVALID_TYPE", "UNAUTHORIZED"}
  PROVE  BindReply(s, reply) \in SUBSET Messages
BY PlainType DEF BindReply, Commands, Infos

LEMMA VerdictType ==
  ASSUME NEW b \in BindRequest
  PROVE  BindVerdict(b) \in {"SUCCESS", "SERVICE_ALREADY_BOUND",
                             "SERVICE_INVALID_TYPE", "UNAUTHORIZED"}
BY DEF BindVerdict, BindRequest

LEMMA ContinueBindPreserves ==
  ASSUME RegistryInv, NEW s \in Sockets, Running(s),
         NEW b \in BindRequest, ContinueBind(s, b)
  PROVE  RegistryInv'
<1>1. CASE b.todo # <<>>
  <2>1. /\ phase' = [phase EXCEPT ![s] = "binding"]
        /\ request' = [request EXCEPT ![s] = b]
        /\ serviceBound' = [serviceBound EXCEPT ![s] = TRUE]
        /\ sent' = {}
        /\ UNCHANGED <<aborted, registeredSockets, relayCounter, connections, boundServices>>
    BY <1>1 DEF ContinueBind, ConcludeBind, registryVars
  <2>2. TypeOK'
    BY <1>1, <2>1 DEF RegistryInv, TypeOK
  <2>3. RegisteredRun' /\ AskedUidFree'
    BY <2>1 DEF RegistryInv, TypeOK, RegisteredRun, Running, AskedUidFree, FreeClientUid
  <2>4. ConnectionsPaired' /\ OwnersRegistered' /\ UidsApart'
    BY <2>1 DEF RegistryInv, ConnectionsPaired, Ends, ClientEnd, ServerEnd,
                OwnersRegistered, Owner, UidsApart
  <2> QED
    BY <2>2, <2>3, <2>4 DEF RegistryInv
<1>2. CASE b.todo = <<>> /\ (BindVerdict(b) # "SUCCESS" \/ SomeBound(b.accepted))
  <2>1. Leave(s, BindReply(s, BindVerdict(b)))
    BY <1>2 DEF ContinueBind, ConcludeBind
  <2> QED
    BY <2>1, VerdictType, BindReplyType, LeavePreserves
<1>3. CASE b.todo = <<>> /\ BindVerdict(b) = "SUCCESS" /\ ~SomeBound(b.accepted)
  <2>1. /\ phase' = [phase EXCEPT ![s] = "loop"]
        /\ request' = [request EXCEPT ![s] = None]
        /\ serviceBound' = [serviceBound EXCEPT ![s] = TRUE]
        /\ sent' = BindReply(s, "SUCCESS")
        /\ Bind(s, b.accepted)
        /\ UNCHANGED <<aborted, registeredSockets, relayCounter, connections>>
    BY <1>3 DEF ContinueBind, ConcludeBind
  <2>2. boundServices' \in [Services -> [socket : Sockets, type : ServiceTypes] \cup {None}]
    BY <2>1 DEF RegistryInv, TypeOK, Bind, BindRequest
  <2>3. sent' \in SUBSET Messages
    BY <2>1, BindReplyType
  <2>4. TypeOK'
    BY <2>1, <2>2, <2>3 DEF RegistryInv, TypeOK
  <2>5. RegisteredRun' /\ AskedUidFree'
    BY <2>1 DEF RegistryInv, TypeOK, RegisteredRun, Running, AskedUidFree, FreeClientUid
  <2>6. OwnersRegistered'
    <3>1. s \in registeredSockets
      BY DEF RegistryInv, RegisteredRun
    <3>2. ASSUME NEW n \in Services, boundServices'[n] # None
          PROVE  boundServices'[n].socket \in registeredSockets
      <4>1. CASE b.accepted[n] # None
        BY <2>1, <3>1, <4>1 DEF Bind
      <4>2. CASE b.accepted[n] = None
        BY <2>1, <3>2, <4>2 DEF Bind, RegistryInv, OwnersRegistered, Owner
      <4> QED
        BY <4>1, <4>2
    <3> QED
      BY <2>1, <3>2 DEF OwnersRegistered, Owner
  <2>7. ConnectionsPaired' /\ UidsApart'
    BY <2>1 DEF RegistryInv, ConnectionsPaired, Ends, ClientEnd, ServerEnd, UidsApart
  <2> QED
    BY <2>4, <2>5, <2>6, <2>7 DEF RegistryInv
<1> QED
  BY <1>1, <1>2, <1>3

(* A SERVICE_BIND that is not refused at once starts its loop.               *)
LEMMA ServiceBindContinues ==
  ASSUME RegistryInv, NEW s \in Sockets, NEW command \in BindRequests,
         ServiceBind(s, command)
  PROVE  /\ Running(s)
         /\ \/ Leave(s, BindReply(s, "UNAUTHORIZED"))
            \/ Leave(s, BindReply(s, "SOCKET_ALREADY_BOUND"))
            \/ \E b \in BindRequest : ContinueBind(s, b)
<1> DEFINE b == [todo |-> command.todo, accepted |-> NoServices, invalid |-> command.invalid,
                 unauthorized |-> FALSE, unavailable |-> FALSE]
<1>1. Running(s)
  BY DEF ServiceBind, Ready, Running
<1>2. b \in BindRequest
  BY RelayAssumption DEF RelayAssumption, BindCommand, BindRequest, NoServices
<1>3. \/ Leave(s, BindReply(s, "UNAUTHORIZED"))
      \/ Leave(s, BindReply(s, "SOCKET_ALREADY_BOUND"))
      \/ ContinueBind(s, b)
  BY DEF ServiceBind
<1> QED
  BY <1>1, <1>2, <1>3

(* The answer to a permission question takes the loop one service further.   *)
LEMMA BindAllowedContinues ==
  ASSUME RegistryInv, NEW s \in Sockets, BindAllowed(s)
  PROVE  /\ Running(s)
         /\ \E b \in BindRequest : ContinueBind(s, b)
<1> DEFINE b == request[s]
           r == Head(b.todo)
           n == r.service
           rest == [b EXCEPT !.todo = Tail(@)]
<1>1. Running(s)
  BY DEF BindAllowed, Running
<1>2. b \in BindRequest /\ b.todo # <<>>
  BY DEF BindAllowed, RegistryInv, TypeOK
<1>3. /\ r \in RelayService
      /\ Tail(b.todo) \in Seq(RelayService)
  BY <1>2 DEF BindRequest
<1>4. /\ rest \in BindRequest
      /\ [rest EXCEPT !.unauthorized = TRUE] \in BindRequest
      /\ [rest EXCEPT !.unavailable = TRUE] \in BindRequest
  BY <1>2, <1>3 DEF BindRequest
<1>5. [rest EXCEPT !.accepted[n] = r.type] \in BindRequest
  BY <1>2, <1>3 DEF BindRequest, RelayService
<1>6. \/ ContinueBind(s, [rest EXCEPT !.unauthorized = TRUE])
      \/ ContinueBind(s, [rest EXCEPT !.unavailable = TRUE])
      \/ ContinueBind(s, [rest EXCEPT !.accepted[n] = r.type])
  BY DEF BindAllowed
<1> QED
  BY <1>1, <1>4, <1>5, <1>6

-----------------------------------------------------------------------------
(* SERVICE_CONNECT.                                                          *)

LEMMA ConnectReplyType ==
  ASSUME NEW s \in Sockets, NEW uid \in Uids, NEW reply \in Infos
  PROVE  ConnectReply(s, uid, reply) \in SUBSET Messages
BY MessageType DEF ConnectReply, Commands

LEMMA ServiceConnectPreserves ==
  ASSUME RegistryInv, NEW s \in Sockets, NEW uid \in Uids, NEW n \in Services,
         NEW type, ServiceConnect(s, uid, n, type)
  PROVE  RegistryInv'
<1>1. \/ \E reply \in {"UNAUTHORIZED", "SERVICE_INVALID_IDENTIFIER", "SERVICE_INVALID_TYPE"} :
           Leave(s, ConnectReply(s, uid, reply))
      \/ /\ Ready(s)
         /\ FreeClientUid(s, uid)
         /\ type \in ServiceTypes
         /\ phase' = [phase EXCEPT ![s] = "connecting"]
         /\ request' = [request EXCEPT ![s] = [uid |-> uid, service |-> n, type |-> type]]
         /\ sent' = {}
         /\ UNCHANGED <<serviceBound, aborted, registryVars>>
  BY DEF ServiceConnect
<1>2. CASE \E reply \in {"UNAUTHORIZED", "SERVICE_INVALID_IDENTIFIER", "SERVICE_INVALID_TYPE"} :
             Leave(s, ConnectReply(s, uid, reply))
  BY <1>2, ConnectReplyType, LeavePreserves DEF Infos
<1>3. CASE /\ Ready(s)
           /\ FreeClientUid(s, uid)
           /\ type \in ServiceTypes
           /\ phase' = [phase EXCEPT ![s] = "connecting"]
           /\ request' = [request EXCEPT ![s] = [uid |-> uid, service |-> n, type |-> type]]
           /\ sent' = {}
           /\ UNCHANGED <<serviceBound, aborted, registryVars>>
  <2>1. [uid |-> uid, service |-> n, type |-> type] \in ConnectRequest
    BY <1>3 DEF ConnectRequest
  <2>2. TypeOK'
    BY <1>3, <2>1 DEF RegistryInv, TypeOK, registryVars
  <2>3. RegisteredRun'
    BY <1>3 DEF RegistryInv, TypeOK, RegisteredRun, Running, registryVars, Ready
  <2>4. AskedUidFree'
    BY <1>3 DEF RegistryInv, TypeOK, AskedUidFree, FreeClientUid, registryVars
  <2>5. ConnectionsPaired' /\ OwnersRegistered' /\ UidsApart'
    BY <1>3 DEF RegistryInv, registryVars, ConnectionsPaired, Ends, ClientEnd, ServerEnd,
                OwnersRegistered, Owner, UidsApart
  <2> QED
    BY <2>2, <2>3, <2>4, <2>5 DEF RegistryInv
<1> QED
  BY <1>1, <1>2, <1>3

(* The circuit that a suspended SERVICE_CONNECT is about to make.            *)
NewCircuit(s, n) == [client |-> s, clientUid |-> request[s].uid,
                     server |-> Owner(n), serverUid |-> NextServerUid(Owner(n))]

(* A new circuit takes two ends that are both free.                          *)
LEMMA LinkEnds ==
  ASSUME RegistryInv, NEW s \in Sockets, NEW n \in Services,
         phase[s] = "connecting", boundServices[n] # None,
         Link(s, request[s].uid, n)
  PROVE  LET c == NewCircuit(s, n)
         IN /\ c \in Circuit
            /\ {c.client, c.server} \subseteq registeredSockets
            /\ c.clientUid > 0
            /\ c.serverUid < 0
            /\ c.serverUid \in (-MaxLinks)..0
            /\ c.serverUid < relayCounter[c.server]
            /\ connections[c.client][c.clientUid] = None
            /\ connections[c.server][c.serverUid] = None
            /\ relayCounter' = [relayCounter EXCEPT ![c.server] = c.serverUid]
            /\ connections' = [t \in Sockets |-> [u \in Uids |->
                                 IF <<t, u>> \in Ends(c) THEN c ELSE connections[t][u]]]
            /\ sent' = {Message(ServerEnd(c), "SERVICE_LINK", "LINKED")}
            /\ UNCHANGED <<registeredSockets, boundServices>>
<1> DEFINE server == Owner(n)
           uid == NextServerUid(server)
           c == NewCircuit(s, n)
<1>1. /\ relayCounter[server] > -MaxLinks
      /\ relayCounter' = [relayCounter EXCEPT ![server] = uid]
      /\ connections' = [t \in Sockets |-> [u \in Uids |->
                           IF <<t, u>> \in Ends(c) THEN c ELSE connections[t][u]]]
      /\ sent' = {Message(ServerEnd(c), "SERVICE_LINK", "LINKED")}
      /\ UNCHANGED <<registeredSockets, boundServices>>
  BY DEF Link, NewCircuit
<1>2. /\ request[s].uid \in Uids
      /\ request[s].uid > 0
      /\ connections[s][request[s].uid] = None
  BY DEF RegistryInv, TypeOK, ConnectRequest, AskedUidFree, FreeClientUid
<1>3. /\ s \in registeredSockets
      /\ server \in registeredSockets
      /\ server \in Sockets
  BY DEF RegistryInv, TypeOK, RegisteredRun, Running, OwnersRegistered
<1>4. /\ uid \in (-MaxLinks)..0
      /\ uid \in Uids
      /\ uid < 0
      /\ uid < relayCounter[server]
      /\ uid = relayCounter[server] - 1
  BY <1>1, <1>3, UidsType, RelayAssumption
     DEF RegistryInv, TypeOK, NextServerUid, RelayAssumption
<1>5. c \in Circuit
  BY <1>2, <1>3, <1>4 DEF Circuit, NewCircuit
<1>6. connections[server][uid] = None
  <2> SUFFICES ASSUME connections[server][uid] # None PROVE FALSE
    OBVIOUS
  <2> DEFINE d == connections[server][uid]
  <2>1. /\ <<server, uid>> \in Ends(d)
        /\ d.clientUid > 0
        /\ relayCounter[d.server] <= d.serverUid
        /\ d \in Circuit
    BY <1>3, <1>4 DEF RegistryInv, ConnectionsPaired, UidsApart, TypeOK
  <2>2. \/ server = d.client /\ uid = d.clientUid
        \/ server = d.server /\ uid = d.serverUid
    BY <2>1 DEF Ends, ClientEnd, ServerEnd
  <2> QED
    BY <1>3, <1>4, <2>1, <2>2, UidsType DEF RegistryInv, TypeOK, Circuit
<1> QED
  BY <1>1, <1>2, <1>3, <1>4, <1>5, <1>6 DEF NewCircuit

LEMMA LinkPreserves ==
  ASSUME RegistryInv, NEW s \in Sockets, NEW n \in Services,
         phase[s] = "connecting", boundServices[n] # None,
         Link(s, request[s].uid, n),
         phase' = [phase EXCEPT ![s] = "loop"],
         request' = [request EXCEPT ![s] = None],
         UNCHANGED <<serviceBound, aborted>>
  PROVE  RegistryInv'
<1> DEFINE c == NewCircuit(s, n)
           server == c.server
           uid == c.serverUid
<1>1. /\ relayCounter' = [relayCounter EXCEPT ![server] = uid]
      /\ connections' = [t \in Sockets |-> [u \in Uids |->
                           IF <<t, u>> \in Ends(c) THEN c ELSE connections[t][u]]]
      /\ sent' = {Message(ServerEnd(c), "SERVICE_LINK", "LINKED")}
      /\ UNCHANGED <<registeredSockets, boundServices>>
  BY LinkEnds
<1>2. /\ c.client = s
      /\ c.clientUid = request[s].uid
      /\ request[s].uid \in Uids
      /\ request[s].uid > 0
      /\ connections[s][request[s].uid] = None
  BY LinkEnds DEF NewCircuit, Circuit
<1>3. /\ s \in registeredSockets
      /\ server \in registeredSockets
      /\ server \in Sockets
  BY LinkEnds, <1>2 DEF Circuit
<1>4. /\ uid \in (-MaxLinks)..0
      /\ uid \in Uids
      /\ uid < 0
      /\ uid < relayCounter[server]
  BY LinkEnds, UidsType
<1>5. c \in Circuit
  BY LinkEnds
<1>6. connections[server][uid] = None
  BY LinkEnds
<1> HIDE DEF c
<1>7. ASSUME NEW t \in Sockets, NEW u \in Uids
      PROVE  /\ <<t, u>> \in Ends(c) => connections'[t][u] = c /\ connections[t][u] = None
             /\ <<t, u>> \notin Ends(c) => connections'[t][u] = connections[t][u]
  BY <1>1, <1>2, <1>6 DEF Ends, ClientEnd, ServerEnd
<1>8. TypeOK'
  <2>1. connections' \in [Sockets -> [Uids -> Circuit \cup {None}]]
    BY <1>1, <1>5 DEF RegistryInv, TypeOK
  <2>2. sent' \subseteq Messages
    BY <1>1, <1>3, <1>5, EndsType, MessageType DEF Commands, Infos
  <2>3. relayCounter' \in [Sockets -> (-MaxLinks)..0]
    BY <1>1, <1>4 DEF RegistryInv, TypeOK
  <2> QED
    BY <1>1, <2>1, <2>2, <2>3 DEF RegistryInv, TypeOK
<1>9. RegisteredRun' /\ OwnersRegistered'
  BY <1>1 DEF RegistryInv, TypeOK, RegisteredRun, Running, OwnersRegistered, Owner
<1>10. AskedUidFree'
  <2> SUFFICES ASSUME NEW t \in Sockets, phase'[t] = "connecting"
               PROVE  /\ request'[t].uid > 0
                      /\ connections'[t][request'[t].uid] = None
    BY DEF AskedUidFree, FreeClientUid
  <2>1. t # s /\ phase[t] = "connecting" /\ request'[t] = request[t]
    BY DEF RegistryInv, TypeOK
  <2>2. /\ request[t].uid \in Uids
        /\ request[t].uid > 0
        /\ connections[t][request[t].uid] = None
    BY <2>1 DEF RegistryInv, TypeOK, ConnectRequest, AskedUidFree, FreeClientUid
  <2>3. <<t, request[t].uid>> \notin Ends(c)
    BY <1>2, <1>4, <2>1, <2>2, UidsType DEF Ends, ClientEnd, ServerEnd
  <2> QED
    BY <1>7, <2>1, <2>2, <2>3
<1>11. ASSUME NEW t \in Sockets, NEW u \in Uids, connections'[t][u] # None,
              connections'[t][u] # c
       PROVE  LET d == connections'[t][u]
              IN /\ d = connections[t][u]
                 /\ d \in Circuit
                 /\ <<t, u>> \in Ends(d)
                 /\ {d.client, d.server} \subseteq registeredSockets
                 /\ connections'[d.client][d.clientUid] = d
                 /\ connections'[d.server][d.serverUid] = d
  <2> DEFINE d == connections'[t][u]
  <2>1. d = connections[t][u]
    BY <1>7, <1>11
  <2>2. /\ d \in Circuit
        /\ <<t, u>> \in Ends(d)
        /\ {d.client, d.server} \subseteq registeredSockets
        /\ connections[d.client][d.clientUid] = d
        /\ connections[d.server][d.serverUid] = d
    BY <1>11, <2>1 DEF RegistryInv, TypeOK, ConnectionsPaired
  <2>3. /\ d.client \in Sockets /\ d.clientUid \in Uids
        /\ d.server \in Sockets /\ d.serverUid \in Uids
    BY <2>2 DEF Circuit
  <2>4. /\ connections'[d.client][d.clientUid] = d
        /\ connections'[d.server][d.serverUid] = d
    BY <1>7, <1>11, <2>1, <2>2, <2>3
  <2> QED
    BY <2>1, <2>2, <2>4
<1>12. ASSUME NEW t \in Sockets, NEW u \in Uids, connections'[t][u] = c
       PROVE  \/ <<t, u>> \in Ends(c)
              \/ connections[t][u] = c
  BY <1>7, <1>12
<1>13. ASSUME NEW t \in Sockets, NEW u \in Uids, connections[t][u] = c
       PROVE  c = None
  <2> SUFFICES ASSUME c # None PROVE FALSE
    OBVIOUS
  <2>1. connections[c.client][c.clientUid] = c
    BY <1>13 DEF RegistryInv, ConnectionsPaired
  <2> QED
    BY <1>2, <2>1
<1>14. connections'[s][request[s].uid] = c /\ connections'[server][uid] = c
  BY <1>2, <1>3, <1>4, <1>7 DEF Ends, ClientEnd, ServerEnd
<1>15. ConnectionsPaired'
  <2> SUFFICES ASSUME NEW t \in Sockets, NEW u \in Uids, connections'[t][u] # None
               PROVE  LET d == connections'[t][u]
                      IN /\ <<t, u>> \in Ends(d)
                         /\ {d.client, d.server} \subseteq registeredSockets
                         /\ connections'[d.client][d.clientUid] = d
                         /\ connections'[d.server][d.serverUid] = d
    <3>1. registeredSockets' = registeredSockets
      BY <1>1
    <3> QED
      BY <3>1 DEF ConnectionsPaired, Ends, ClientEnd, ServerEnd
  <2>1. CASE connections'[t][u] = c
    BY <1>2, <1>3, <1>12, <1>13, <1>14, <2>1
  <2>2. CASE connections'[t][u] # c
    BY <1>11, <2>2
  <2> QED
    BY <2>1, <2>2
<1>16. UidsApart'
  <2> SUFFICES ASSUME NEW t \in Sockets, NEW u \in Uids, connections'[t][u] # None
               PROVE  LET d == connections'[t][u]
                      IN /\ d.clientUid > 0
                         /\ d.serverUid < 0
                         /\ relayCounter'[d.server] <= d.serverUid
    BY DEF UidsApart
  <2>1. CASE connections'[t][u] = c
    BY <1>1, <1>2, <1>3, <1>4, <2>1, UidsType DEF RegistryInv, TypeOK
  <2>2. CASE connections'[t][u] # c
    <3> DEFINE d == connections[t][u]
    <3>1. connections'[t][u] = d /\ d # None /\ d \in Circuit
      BY <1>11, <2>2
    <3>2. d.clientUid > 0 /\ d.serverUid < 0 /\ relayCounter[d.server] <= d.serverUid
      BY <3>1 DEF RegistryInv, UidsApart
    <3>3. /\ d.server \in Sockets
          /\ d.serverUid \in Int
      BY <3>1, UidsType DEF Circuit
    <3>4. ASSUME NEW t2 \in Sockets
          PROVE  /\ relayCounter[t2] \in Int
                 /\ relayCounter'[t2] \in Int
                 /\ relayCounter'[t2] <= relayCounter[t2]
      BY <1>1, <1>3, <1>4 DEF RegistryInv, TypeOK
    <3> QED
      BY <3>1, <3>2, <3>3, <3>4
  <2> QED
    BY <2>1, <2>2
<1> QED
  BY <1>8, <1>9, <1>10, <1>15, <1>16 DEF RegistryInv

LEMMA ConnectAllowedPreserves ==
  ASSUME RegistryInv, NEW s \in Sockets, ConnectAllowed(s)
  PROVE  RegistryInv'
<1> DEFINE uid == request[s].uid
           n == request[s].service
<1>1. /\ phase[s] = "connecting"
      /\ uid \in Uids
      /\ n \in Services
  BY DEF ConnectAllowed, RegistryInv, TypeOK, ConnectRequest
<1>2. \/ Leave(s, ConnectReply(s, uid, "UNAUTHORIZED"))
      \/ /\ phase' = [phase EXCEPT ![s] = "loop"]
         /\ request' = [request EXCEPT ![s] = None]
         /\ UNCHANGED <<serviceBound, aborted>>
         /\ \/ /\ sent' \in {ConnectReply(s, uid, "SERVICE_NOT_FOUND"),
                             ConnectReply(s, uid, "SERVICE_INVALID_TYPE")}
               /\ UNCHANGED registryVars
            \/ /\ boundServices[n] # None
               /\ Link(s, uid, n)
  BY DEF ConnectAllowed
<1>3. CASE Leave(s, ConnectReply(s, uid, "UNAUTHORIZED"))
  BY <1>1, <1>3, ConnectReplyType, LeavePreserves DEF Infos
<1>4. CASE /\ phase' = [phase EXCEPT ![s] = "loop"]
           /\ request' = [request EXCEPT ![s] = None]
           /\ UNCHANGED <<serviceBound, aborted>>
           /\ sent' \in {ConnectReply(s, uid, "SERVICE_NOT_FOUND"),
                         ConnectReply(s, uid, "SERVICE_INVALID_TYPE")}
           /\ UNCHANGED registryVars
  <2>1. sent' \in SUBSET Messages
    BY <1>1, <1>4, ConnectReplyType DEF Infos
  <2>2. TypeOK'
    BY <1>4, <2>1 DEF RegistryInv, TypeOK, registryVars
  <2>3. RegisteredRun' /\ AskedUidFree'
    BY <1>1, <1>4 DEF RegistryInv, TypeOK, RegisteredRun, Running, AskedUidFree,
                      FreeClientUid, registryVars
  <2>4. ConnectionsPaired' /\ OwnersRegistered' /\ UidsApart'
    BY <1>4 DEF RegistryInv, registryVars, ConnectionsPaired, Ends, ClientEnd, ServerEnd,
                OwnersRegistered, Owner, UidsApart
  <2> QED
    BY <2>2, <2>3, <2>4 DEF RegistryInv
<1>5. CASE /\ phase' = [phase EXCEPT ![s] = "loop"]
           /\ request' = [request EXCEPT ![s] = None]
           /\ UNCHANGED <<serviceBound, aborted>>
           /\ boundServices[n] # None
           /\ Link(s, uid, n)
  BY <1>1, <1>5, LinkPreserves
<1> QED
  BY <1>2, <1>3, <1>4, <1>5

-----------------------------------------------------------------------------
(* Answers and streams leave the registry as it is.                          *)

LEMMA RelayedPreserves ==
  ASSUME RegistryInv, NEW s \in Sockets, NEW uid \in Uids,
         \/ \E reply \in {"SUCCESS", "FAILURE"} : ServiceLink(s, uid, reply)
         \/ ServiceStream(s, uid)
  PROVE  RegistryInv'
<1> DEFINE c == connections[s][uid]
<1>1. c # None => c \in Circuit
  BY DEF RegistryInv, TypeOK
<1>2. Gone(s, uid) \in SUBSET Messages
  BY MessageType DEF Gone, Commands, Infos
<1>3. ASSUME c # None, NEW cmd \in Commands, NEW info \in Infos
      PROVE  {Message(Target(c, s), cmd, info)} \in SUBSET Messages
  BY <1>1, <1>3, EndsType, MessageType
<1>4. \/ c # None /\ \E reply \in {"SUCCESS", "FAILURE"} :
                       Continue({Message(Target(c, s), "SERVICE_CONNECT", reply)})
      \/ c # None /\ Continue({Message(Target(c, s), "SERVICE_STREAM", "DATA")})
      \/ Continue(Gone(s, uid))
      \/ Continue({})
  BY DEF ServiceLink, ServiceStream
<1>5. CASE c # None /\ \E reply \in {"SUCCESS", "FAILURE"} :
                         Continue({Message(Target(c, s), "SERVICE_CONNECT", reply)})
  BY <1>3, <1>5, ContinuePreserves DEF Commands, Infos
<1>6. CASE c # None /\ Continue({Message(Target(c, s), "SERVICE_STREAM", "DATA")})
  BY <1>3, <1>6, ContinuePreserves DEF Commands, Infos
<1>7. CASE Continue(Gone(s, uid))
  BY <1>2, <1>7, ContinuePreserves
<1>8. CASE Continue({})
  BY <1>8, ContinuePreserves
<1> QED
  BY <1>4, <1>5, <1>6, <1>7, <1>8

-----------------------------------------------------------------------------
(* Every step keeps the invariant.                                           *)
THEOREM NextRegistryInv == RegistryInv /\ [Next]_vars => RegistryInv'
<1> SUFFICES ASSUME RegistryInv, [Next]_vars PROVE RegistryInv'
  OBVIOUS
<1>1. ASSUME NEW s \in Sockets, Connected(s) PROVE RegistryInv'
  BY <1>1, ConnectedPreserves
<1>2. ASSUME NEW s \in Sockets, Abort(s) PROVE RegistryInv'
  BY <1>2, AbortPreserves
<1>3. ASSUME NEW s \in Sockets, Malformed(s) \/ PermissionRejected(s) \/ ShiftRejected(s)
      PROVE  RegistryInv'
  <2>1. Leave(s, {})
    BY <1>3 DEF Malformed, PermissionRejected, ShiftRejected
  <2> QED
    BY <2>1, LeavePreserves
<1>4. ASSUME NEW s \in Sockets, SocketClose(s) \/ UnsupportedCommand(s)
      PROVE  RegistryInv'
  <2>1. \E cmd \in {"SOCKET_CLOSE", "UNSUPPORTED"} : Leave(s, {Plain(s, cmd, "")})
    BY <1>4 DEF SocketClose, UnsupportedCommand
  <2> QED
    BY <2>1, PlainType, LeavePreserves DEF Commands, Infos
<1>5. ASSUME NEW s \in Sockets, NEW command \in BindRequests, ServiceBind(s, command)
      PROVE  RegistryInv'
  BY <1>5, ServiceBindContinues, BindReplyType, LeavePreserves, ContinueBindPreserves
<1>6. ASSUME NEW s \in Sockets, BindAllowed(s) PROVE RegistryInv'
  BY <1>6, BindAllowedContinues, ContinueBindPreserves
<1>7. ASSUME NEW s \in Sockets, NEW uid \in Uids, NEW n \in Services,
             NEW type \in ServiceTypes \cup {InvalidType}, ServiceConnect(s, uid, n, type)
      PROVE  RegistryInv'
  BY <1>7, ServiceConnectPreserves
<1>8. ASSUME NEW s \in Sockets, ConnectAllowed(s) PROVE RegistryInv'
  BY <1>8, ConnectAllowedPreserves
<1>9. ASSUME NEW s \in Sockets, NEW uid \in Uids,
             \/ \E reply \in {"SUCCESS", "FAILURE"} : ServiceLink(s, uid, reply)
             \/ ServiceStream(s, uid)
      PROVE  RegistryInv'
  BY <1>9, RelayedPreserves
<1>10. ASSUME NEW s \in Sockets, NEW uid \in Uids,
              ServiceClosed(s, uid, "TRANSPORT_SOCKET_EOS")
       PROVE  RegistryInv'
  BY <1>10, ServiceClosedPreserves DEF Infos
<1>11. CASE UNCHANGED vars
  BY <1>11 DEF vars, handlerVars, registryVars, RegistryInv, TypeOK, RegisteredRun, Running,
               AskedUidFree, FreeClientUid, ConnectionsPaired, Ends, ClientEnd, ServerEnd,
               OwnersRegistered, Owner, UidsApart
<1> QED
  BY <1>1, <1>2, <1>3, <1>4, <1>5, <1>6, <1>7, <1>8, <1>9, <1>10, <1>11
     DEF Next, Command, Resume, AllGone

(* The registry invariant holds in every state the relay reaches.            *)
THEOREM RegistryCorrect == Spec => []RegistryInv
<1>1. Init => RegistryInv
  BY InitRegistryInv
<1>2. RegistryInv /\ [Next]_vars => RegistryInv'
  BY NextRegistryInv
<1> QED
  BY <1>1, <1>2, PTL DEF Spec

(* Type correctness of the relay's state.                                    *)
THEOREM TypesCorrect == Spec => []TypeOK
<1>1. RegistryInv => TypeOK
  BY DEF RegistryInv
<1> QED
  BY <1>1, RegistryCorrect, PTL

(* The maps of the two ends of a circuit never disagree, whatever commands   *)
(* the peers send (link, close and disconnected of createRelay).             *)
THEOREM PairedCorrect == Spec => []ConnectionsPaired
<1>1. RegistryInv => ConnectionsPaired
  BY DEF RegistryInv
<1> QED
  BY <1>1, RegistryCorrect, PTL

(* A service that can be looked up has a registered owner, so that           *)
(* relay.service and relay.link never dereference undefined.                 *)
THEOREM OwnersCorrect == Spec => []OwnersRegistered
<1>1. RegistryInv => OwnersRegistered
  BY DEF RegistryInv
<1> QED
  BY <1>1, RegistryCorrect, PTL

(* Client uids and server uids never meet, and the counter of a socket is    *)
(* never above the uid of a circuit that leads to it.                        *)
THEOREM UidsCorrect == Spec => []UidsApart
<1>1. RegistryInv => UidsApart
  BY DEF RegistryInv
<1> QED
  BY <1>1, RegistryCorrect, PTL

-----------------------------------------------------------------------------
(* The steps of Relay: what a step may do to the registry (NoTakeover,       *)
(* UidsNeverReused), and that every step is a step of the switchboard or     *)
(* none.  All of them rest on one lemma, RegistrySteps, which reduces the    *)
(* actions of the handlers to the five operations of createRelay, and on the *)
(* invariant.                                                                *)

(* The operations of createRelay, under the circumstances in which the       *)
(* handlers call them.                                                       *)
BindStep ==
  \E s \in registeredSockets, accepted \in [Services -> ServiceTypes \cup {None}] :
    /\ ~SomeBound(accepted)
    /\ Bind(s, accepted)
    /\ UNCHANGED <<registeredSockets, relayCounter, connections>>

LinkStep ==
  \E s \in Sockets, n \in Services :
    /\ phase[s] = "connecting"
    /\ n = request[s].service
    /\ MayLink(s, n)
    /\ boundServices[n] # None
    /\ boundServices[n].type = request[s].type
    /\ Link(s, request[s].uid, n)

CloseStep ==
  \E s \in Sockets, u \in Uids :
    /\ connections[s][u] # None
    /\ connections' = Without({connections[s][u]})
    /\ UNCHANGED <<registeredSockets, relayCounter, boundServices>>

RegistryStep ==
  \/ UNCHANGED registryVars
  \/ \E s \in Sockets : Connected(s)
  \/ \E s \in registeredSockets : Disconnected(s)
  \/ BindStep
  \/ LinkStep
  \/ CloseStep

LEMMA LeaveDisconnects ==
  ASSUME RegistryInv, NEW s \in Sockets, Running(s), NEW replies, Leave(s, replies)
  PROVE  RegistryStep
BY DEF RegistryInv, RegisteredRun, Leave, RegistryStep

LEMMA ContinueBindSteps ==
  ASSUME RegistryInv, NEW s \in Sockets, Running(s), NEW b \in BindRequest, ContinueBind(s, b)
  PROVE  RegistryStep
<1>1. CASE b.todo # <<>>
  BY <1>1 DEF ContinueBind, RegistryStep, registryVars
<1>2. CASE b.todo = <<>> /\ (BindVerdict(b) # "SUCCESS" \/ SomeBound(b.accepted))
  BY <1>2, LeaveDisconnects DEF ContinueBind, ConcludeBind
<1>3. CASE b.todo = <<>> /\ BindVerdict(b) = "SUCCESS" /\ ~SomeBound(b.accepted)
  <2>1. /\ Bind(s, b.accepted)
        /\ UNCHANGED <<registeredSockets, relayCounter, connections>>
    BY <1>3 DEF ContinueBind, ConcludeBind
  <2>2. s \in registeredSockets /\ b.accepted \in [Services -> ServiceTypes \cup {None}]
    BY DEF RegistryInv, RegisteredRun, BindRequest
  <2> QED
    BY <1>3, <2>1, <2>2 DEF RegistryStep, BindStep
<1> QED
  BY <1>1, <1>2, <1>3

LEMMA RegistrySteps ==
  ASSUME RegistryInv, [Next]_vars
  PROVE  RegistryStep
<1>1. ASSUME NEW s \in Sockets, Connected(s) PROVE RegistryStep
  BY <1>1 DEF RegistryStep
<1>2. ASSUME NEW s \in Sockets, Abort(s) PROVE RegistryStep
  BY <1>2 DEF Abort, RegistryStep
<1>3. ASSUME NEW s \in Sockets,
             \/ Malformed(s) \/ SocketClose(s) \/ UnsupportedCommand(s)
             \/ PermissionRejected(s) \/ ShiftRejected(s)
      PROVE  RegistryStep
  <2>1. Running(s) /\ \E replies : Leave(s, replies)
    BY <1>3 DEF Malformed, SocketClose, UnsupportedCommand, PermissionRejected, ShiftRejected,
                Ready, Running
  <2> QED
    BY <2>1, LeaveDisconnects
<1>4. ASSUME NEW s \in Sockets, NEW command \in BindRequests, ServiceBind(s, command)
      PROVE  RegistryStep
  BY <1>4, ServiceBindContinues, LeaveDisconnects, ContinueBindSteps
<1>5. ASSUME NEW s \in Sockets, BindAllowed(s) PROVE RegistryStep
  BY <1>5, BindAllowedContinues, ContinueBindSteps
<1>6. ASSUME NEW s \in Sockets, NEW uid \in Uids, NEW n \in Services,
             NEW type \in ServiceTypes \cup {InvalidType}, ServiceConnect(s, uid, n, type)
      PROVE  RegistryStep
  <2>1. Running(s)
    BY <1>6 DEF ServiceConnect, Ready, Running
  <2>2. (\E replies : Leave(s, replies)) \/ UNCHANGED registryVars
    BY <1>6 DEF ServiceConnect
  <2> QED
    BY <2>1, <2>2, LeaveDisconnects DEF RegistryStep
<1>7. ASSUME NEW s \in Sockets, ConnectAllowed(s) PROVE RegistryStep
  <2>1. Running(s) /\ phase[s] = "connecting" /\ request[s].service \in Services
    BY <1>7 DEF ConnectAllowed, Running, RegistryInv, TypeOK, ConnectRequest
  <2>2. \/ \E replies : Leave(s, replies)
        \/ UNCHANGED registryVars
        \/ /\ MayLink(s, request[s].service)
           /\ boundServices[request[s].service] # None
           /\ boundServices[request[s].service].type = request[s].type
           /\ Link(s, request[s].uid, request[s].service)
    BY <1>7 DEF ConnectAllowed
  <2> QED
    BY <2>1, <2>2, LeaveDisconnects DEF RegistryStep, LinkStep
<1>8. ASSUME NEW s \in Sockets, NEW uid \in Uids,
             \/ \E reply \in {"SUCCESS", "FAILURE"} : ServiceLink(s, uid, reply)
             \/ ServiceStream(s, uid)
      PROVE  RegistryStep
  BY <1>8 DEF ServiceLink, ServiceStream, Continue, RegistryStep
<1>9. ASSUME NEW s \in Sockets, NEW uid \in Uids,
             ServiceClosed(s, uid, "TRANSPORT_SOCKET_EOS")
      PROVE  RegistryStep
  BY <1>9 DEF ServiceClosed, Continue, RegistryStep, CloseStep
<1>10. CASE UNCHANGED vars
  BY <1>10 DEF vars, RegistryStep, registryVars
<1> QED
  BY <1>1, <1>2, <1>3, <1>4, <1>5, <1>6, <1>7, <1>8, <1>9, <1>10
     DEF Next, Command, Resume, AllGone

-----------------------------------------------------------------------------
(* The five operations, one after the other, and the two step properties.    *)

(* relay.connected of a new socket finds no entry to drop.                   *)
LEMMA ConnectedEntries ==
  ASSUME RegistryInv, NEW s \in Sockets, Connected(s)
  PROVE  /\ s \notin registeredSockets
         /\ \A t \in Sockets, u \in Uids : connections'[t][u] = connections[t][u]
<1>1. s \notin registeredSockets
  BY DEF Connected, RegistryInv, RegisteredRun, Running
<1>2. \A u \in Uids : connections[s][u] = None
  BY <1>1 DEF RegistryInv, ConnectionsPaired, Ends, ClientEnd, ServerEnd
<1> QED
  BY <1>1, <1>2 DEF RegistryInv, TypeOK, Connected

NoTakeoverStep ==
  \A n \in Services :
    boundServices[n] # None =>
      \/ boundServices'[n] = boundServices[n]
      \/ boundServices'[n] = None /\ Owner(n) \notin registeredSockets'

LEMMA NoTakeoverSteps == RegistryInv /\ [Next]_vars => NoTakeoverStep
<1> SUFFICES ASSUME RegistryInv, [Next]_vars PROVE NoTakeoverStep
  OBVIOUS
<1>1. CASE UNCHANGED registryVars
  BY <1>1 DEF registryVars, NoTakeoverStep
<1>2. ASSUME NEW s \in Sockets, Connected(s) PROVE NoTakeoverStep
  BY <1>2 DEF Connected, NoTakeoverStep
<1>3. ASSUME NEW s \in registeredSockets, Disconnected(s) PROVE NoTakeoverStep
  BY <1>3 DEF Disconnected, ServicesWithout, NoTakeoverStep
<1>4. CASE BindStep
  BY <1>4 DEF BindStep, SomeBound, Bind, NoTakeoverStep
<1>5. CASE LinkStep
  BY <1>5 DEF LinkStep, Link, NoTakeoverStep
<1>6. CASE CloseStep
  BY <1>6 DEF CloseStep, NoTakeoverStep
<1> QED
  BY <1>1, <1>2, <1>3, <1>4, <1>5, <1>6, RegistrySteps DEF RegistryStep

(* A bound service leaves its owner only when the owner is disconnected,     *)
(* although SERVICE_BIND looks at the registry and changes it on different   *)
(* sides of an await.                                                        *)
THEOREM NoTakeoverCorrect == Spec => NoTakeover
<1>1. RegistryInv /\ [Next]_vars => [NoTakeoverStep]_vars
  BY NoTakeoverSteps
<1> QED
  BY <1>1, RegistryCorrect, PTL DEF Spec, NoTakeover, NoTakeoverStep

UidsNeverReusedStep ==
  \A s \in Sockets, u \in Uids :
    LET c == connections'[s][u]
    IN /\ connections[s][u] # None /\ c # None => c = connections[s][u]
       /\ connections[s][u] = None /\ c # None /\ <<s, u>> = ServerEnd(c)
            => u < relayCounter[s]

LEMMA UidsNeverReusedSteps == RegistryInv /\ [Next]_vars => UidsNeverReusedStep
<1> SUFFICES ASSUME RegistryInv, [Next]_vars,
                    NEW t \in Sockets, NEW u \in Uids, connections'[t][u] # None,
                    connections'[t][u] # connections[t][u]
             PROVE  /\ connections[t][u] = None
                    /\ <<t, u>> = ServerEnd(connections'[t][u]) => u < relayCounter[t]
  BY DEF UidsNeverReusedStep
<1>0. TypeOK /\ ConnectionsPaired
  BY DEF RegistryInv
<1>1. CASE UNCHANGED registryVars
  BY <1>1 DEF registryVars
<1>2. ASSUME NEW s \in Sockets, Connected(s) PROVE FALSE
  BY <1>2, ConnectedEntries
<1>3. ASSUME NEW s \in registeredSockets, Disconnected(s) PROVE FALSE
  <2>1. s \in Sockets
    BY <1>0 DEF TypeOK
  <2> QED
    BY <1>0, <1>3, <2>1, DisconnectedEntries
<1>4. CASE BindStep
  BY <1>4 DEF BindStep
<1>5. CASE LinkStep
  <2>1. PICK s \in Sockets, n \in Services :
          phase[s] = "connecting" /\ boundServices[n] # None /\ Link(s, request[s].uid, n)
    BY <1>5 DEF LinkStep
  <2> DEFINE c == NewCircuit(s, n)
  <2>2. /\ c \in Circuit
        /\ c.serverUid < relayCounter[c.server]
        /\ connections[c.client][c.clientUid] = None
        /\ connections[c.server][c.serverUid] = None
        /\ connections' = [s2 \in Sockets |-> [u2 \in Uids |->
                             IF <<s2, u2>> \in Ends(c) THEN c ELSE connections[s2][u2]]]
    BY <2>1, LinkEnds
  <2> HIDE DEF c
  <2>3. <<t, u>> \in Ends(c) /\ connections'[t][u] = c
    BY <2>2
  <2> QED
    BY <2>2, <2>3 DEF Ends, ClientEnd, ServerEnd
<1>6. CASE CloseStep
  BY <1>6 DEF CloseStep, Without
<1> QED
  BY <1>1, <1>2, <1>3, <1>4, <1>5, <1>6, RegistrySteps DEF RegistryStep

(* The uid of a live circuit is never given to another one, and the relay    *)
(* never gives a socket the same uid twice.                                  *)
THEOREM UidsNeverReusedCorrect == Spec => UidsNeverReused
<1>1. RegistryInv /\ [Next]_vars => [UidsNeverReusedStep]_vars
  BY UidsNeverReusedSteps
<1> QED
  BY <1>1, RegistryCorrect, PTL DEF Spec, UidsNeverReused, UidsNeverReusedStep

-----------------------------------------------------------------------------
(* What the steps write (SpeaksOnlyOfHeldEnds, EveryLossTold,                *)
(* StreamsCrossBetweenSockets, SuccessMeansOwned).                           *)

(* A reply of the relay to the socket itself, which no circuit stands behind.*)
OwnReply(m) ==
  /\ m.cmd # "SERVICE_STREAM"
  /\ m.cmd = "SERVICE_CLOSED" => m.info = "CONNECTION_GONE"
  /\ m.cmd = "SERVICE_CONNECT" => m.info \notin {"SUCCESS", "FAILURE"}

(* A handler ends, and whatever it has to say before that is its own.        *)
LeaveStep ==
  \E s \in registeredSockets : \E replies :
    Leave(s, replies) /\ \A m \in replies : OwnReply(m)

(* No circuit goes, and nothing is said but replies.                         *)
StandingStep ==
  /\ \A t \in Sockets, u \in Uids :
       connections[t][u] # None => connections'[t][u] = connections[t][u]
  /\ \A m \in sent' : OwnReply(m)

(* A message is passed on to the other end of a circuit that stays.          *)
RelayStep ==
  \E s \in Sockets, u \in Uids : \E cmd, info :
    /\ connections[s][u] # None
    /\ sent' = {Message(Target(connections[s][u], s), cmd, info)}
    /\ UNCHANGED connections

(* A circuit is closed from one of its ends, and the other one hears of it.  *)
PartStep ==
  \E s \in Sockets, u \in Uids :
    /\ connections[s][u] # None
    /\ connections' = Without({connections[s][u]})
    /\ sent' = {CloseNotice(connections[s][u], s, "TRANSPORT_SOCKET_EOS")}
    /\ UNCHANGED registeredSockets

MessageStep == LeaveStep \/ StandingStep \/ RelayStep \/ PartStep

LEMMA ConnectRepliesAreOwn ==
  ASSUME NEW s, NEW uid, NEW info, info \notin {"SUCCESS", "FAILURE"}
  PROVE  \A m \in ConnectReply(s, uid, info) : OwnReply(m)
BY DEF OwnReply, ConnectReply, Message

LEMMA LeaveSpeaks ==
  ASSUME RegistryInv, NEW s \in Sockets, Running(s), NEW replies, Leave(s, replies),
         \A m \in replies : OwnReply(m)
  PROVE  MessageStep
BY DEF RegistryInv, RegisteredRun, MessageStep, LeaveStep

LEMMA ContinueBindSpeaks ==
  ASSUME RegistryInv, NEW s \in Sockets, Running(s), NEW b \in BindRequest, ContinueBind(s, b)
  PROVE  MessageStep
<1>1. CASE b.todo # <<>>
  BY <1>1 DEF ContinueBind, registryVars, MessageStep, StandingStep
<1>2. CASE b.todo = <<>> /\ (BindVerdict(b) # "SUCCESS" \/ SomeBound(b.accepted))
  <2>1. Leave(s, BindReply(s, BindVerdict(b)))
    BY <1>2 DEF ContinueBind, ConcludeBind
  <2>2. \A m \in BindReply(s, BindVerdict(b)) : OwnReply(m)
    BY DEF OwnReply, BindReply, Plain, Message
  <2> QED
    BY <2>1, <2>2, LeaveSpeaks
<1>3. CASE b.todo = <<>> /\ BindVerdict(b) = "SUCCESS" /\ ~SomeBound(b.accepted)
  <2>1. sent' = BindReply(s, "SUCCESS") /\ UNCHANGED connections
    BY <1>3 DEF ContinueBind, ConcludeBind
  <2>2. \A m \in BindReply(s, "SUCCESS") : OwnReply(m)
    BY DEF OwnReply, BindReply, Plain, Message
  <2> QED
    BY <2>1, <2>2 DEF MessageStep, StandingStep
<1> QED
  BY <1>1, <1>2, <1>3

(* A step that writes or takes a circuit away does it in one of four ways.   *)
LEMMA MessageSteps ==
  ASSUME RegistryInv, Next
  PROVE  MessageStep \/ UNCHANGED vars
<1>1. ASSUME NEW s \in Sockets, Connected(s) PROVE MessageStep
  BY <1>1, ConnectedEntries DEF Connected, MessageStep, StandingStep
<1>2. ASSUME NEW s \in Sockets, Abort(s) PROVE MessageStep
  BY <1>2 DEF Abort, registryVars, MessageStep, StandingStep
<1>3. ASSUME NEW s \in Sockets,
             \/ Malformed(s) \/ SocketClose(s) \/ UnsupportedCommand(s)
             \/ PermissionRejected(s) \/ ShiftRejected(s)
      PROVE  MessageStep
  <2> DEFINE last == {{}, {Plain(s, "SOCKET_CLOSE", "")}, {Plain(s, "UNSUPPORTED", "")}}
  <2>1. Running(s) /\ \E replies \in last : Leave(s, replies)
    BY <1>3 DEF Malformed, SocketClose, UnsupportedCommand, PermissionRejected, ShiftRejected,
                Ready, Running
  <2>2. ASSUME NEW replies \in last, NEW m \in replies PROVE OwnReply(m)
    <3>1. m = Plain(s, "SOCKET_CLOSE", "") \/ m = Plain(s, "UNSUPPORTED", "")
      BY <2>2
    <3>2. OwnReply(Plain(s, "SOCKET_CLOSE", "")) /\ OwnReply(Plain(s, "UNSUPPORTED", ""))
      BY DEF OwnReply, Plain, Message
    <3> QED
      BY <3>1, <3>2, Zenon
  <2> HIDE DEF last
  <2> QED
    BY <2>1, <2>2, LeaveSpeaks
<1>4. ASSUME NEW s \in Sockets, NEW command \in BindRequests, ServiceBind(s, command)
      PROVE  MessageStep
  <2>1. \A reply : \A m \in BindReply(s, reply) : OwnReply(m)
    BY DEF OwnReply, BindReply, Plain, Message
  <2> QED
    BY <1>4, <2>1, ServiceBindContinues, LeaveSpeaks, ContinueBindSpeaks
<1>5. ASSUME NEW s \in Sockets, BindAllowed(s) PROVE MessageStep
  BY <1>5, BindAllowedContinues, ContinueBindSpeaks
<1>6. ASSUME NEW s \in Sockets, NEW uid \in Uids, NEW n \in Services,
             NEW type \in ServiceTypes \cup {InvalidType}, ServiceConnect(s, uid, n, type)
      PROVE  MessageStep
  <2>1. Running(s)
    BY <1>6 DEF ServiceConnect, Ready, Running
  <2>2. \/ \E reply \in {"UNAUTHORIZED", "SERVICE_INVALID_IDENTIFIER", "SERVICE_INVALID_TYPE"} :
             Leave(s, ConnectReply(s, uid, reply))
        \/ sent' = {} /\ UNCHANGED registryVars
    BY <1>6 DEF ServiceConnect
  <2>3. ASSUME NEW reply \in {"UNAUTHORIZED", "SERVICE_INVALID_IDENTIFIER",
                              "SERVICE_INVALID_TYPE"},
               Leave(s, ConnectReply(s, uid, reply))
        PROVE  MessageStep
    BY <2>1, <2>3, ConnectRepliesAreOwn, LeaveSpeaks
  <2> QED
    BY <2>2, <2>3 DEF registryVars, MessageStep, StandingStep
<1>7. ASSUME NEW s \in Sockets, ConnectAllowed(s) PROVE MessageStep
  <2> DEFINE uid == request[s].uid
             n == request[s].service
  <2>1. Running(s) /\ phase[s] = "connecting" /\ n \in Services
    BY <1>7 DEF ConnectAllowed, Running, RegistryInv, TypeOK, ConnectRequest
  <2>2. \/ Leave(s, ConnectReply(s, uid, "UNAUTHORIZED"))
        \/ /\ sent' \in {ConnectReply(s, uid, "SERVICE_NOT_FOUND"),
                         ConnectReply(s, uid, "SERVICE_INVALID_TYPE")}
           /\ UNCHANGED registryVars
        \/ boundServices[n] # None /\ Link(s, uid, n)
    BY <1>7 DEF ConnectAllowed
  <2>3. ASSUME NEW reply \in {"UNAUTHORIZED", "SERVICE_NOT_FOUND", "SERVICE_INVALID_TYPE"},
               NEW m \in ConnectReply(s, uid, reply)
        PROVE  OwnReply(m)
    BY <2>3, ConnectRepliesAreOwn
  <2>4. CASE Leave(s, ConnectReply(s, uid, "UNAUTHORIZED"))
    BY <2>1, <2>3, <2>4, LeaveSpeaks
  <2>5. CASE /\ sent' \in {ConnectReply(s, uid, "SERVICE_NOT_FOUND"),
                           ConnectReply(s, uid, "SERVICE_INVALID_TYPE")}
             /\ UNCHANGED registryVars
    BY <2>3, <2>5 DEF registryVars, MessageStep, StandingStep
  <2>6. CASE boundServices[n] # None /\ Link(s, uid, n)
    <3> DEFINE c == NewCircuit(s, n)
    <3>1. /\ c \in Circuit
          /\ connections[c.client][c.clientUid] = None
          /\ connections[c.server][c.serverUid] = None
          /\ connections' = [t \in Sockets |-> [u \in Uids |->
                               IF <<t, u>> \in Ends(c) THEN c ELSE connections[t][u]]]
          /\ sent' = {Message(ServerEnd(c), "SERVICE_LINK", "LINKED")}
      BY <2>1, <2>6, LinkEnds
    <3> HIDE DEF c
    <3>2. \A t \in Sockets, u \in Uids :
            connections[t][u] # None => <<t, u>> \notin Ends(c)
      BY <3>1 DEF Ends, ClientEnd, ServerEnd
    <3>3. \A m \in sent' : OwnReply(m)
      BY <3>1 DEF OwnReply, Message
    <3> QED
      BY <3>1, <3>2, <3>3 DEF MessageStep, StandingStep
  <2> QED
    BY <2>2, <2>4, <2>5, <2>6
<1>8. ASSUME NEW s \in Sockets, NEW uid \in Uids,
             \/ \E reply \in {"SUCCESS", "FAILURE"} : ServiceLink(s, uid, reply)
             \/ ServiceStream(s, uid)
      PROVE  MessageStep
  <2>1. /\ UNCHANGED registryVars
        /\ \/ /\ connections[s][uid] # None
              /\ \E cmd, info : sent' = {Message(Target(connections[s][uid], s), cmd, info)}
           \/ sent' = Gone(s, uid)
           \/ sent' = {}
    BY <1>8 DEF ServiceLink, ServiceStream, Continue
  <2>2. \A m \in Gone(s, uid) : OwnReply(m)
    BY DEF OwnReply, Gone, Message
  <2> QED
    BY <2>1, <2>2 DEF registryVars, MessageStep, RelayStep, StandingStep
<1>9. ASSUME NEW s \in Sockets, NEW uid \in Uids,
             ServiceClosed(s, uid, "TRANSPORT_SOCKET_EOS")
      PROVE  MessageStep
  BY <1>9 DEF ServiceClosed, Continue, registryVars, MessageStep, StandingStep, PartStep
<1> QED
  BY <1>1, <1>2, <1>3, <1>4, <1>5, <1>6, <1>7, <1>8, <1>9 DEF Next, Command, Resume, AllGone

(* Both ends of a live circuit hold it.                                      *)
LEMMA BothHold ==
  ASSUME TypeOK, ConnectionsPaired, NEW t \in Sockets, NEW u \in Uids,
         connections[t][u] # None
  PROVE  LET c == connections[t][u]
         IN /\ c \in Circuit
            /\ <<t, u>> \in Ends(c)
            /\ c.client \in Sockets /\ c.clientUid \in Uids
            /\ c.server \in Sockets /\ c.serverUid \in Uids
            /\ {c.client, c.server} \subseteq registeredSockets
            /\ connections[c.client][c.clientUid] = c
            /\ connections[c.server][c.serverUid] = c
            /\ t \in {c.client, c.server}
            /\ \A s : Target(c, s) \in Ends(c)
<1> DEFINE c == connections[t][u]
<1>1. c \in Circuit
  BY DEF TypeOK
<1>2. /\ <<t, u>> \in Ends(c)
      /\ {c.client, c.server} \subseteq registeredSockets
      /\ connections[c.client][c.clientUid] = c
      /\ connections[c.server][c.serverUid] = c
  BY DEF ConnectionsPaired
<1>3. t \in {c.client, c.server}
  BY <1>2 DEF Ends, ClientEnd, ServerEnd
<1>4. \A s : Target(c, s) \in Ends(c)
  BY DEF Target, Ends
<1> QED
  BY <1>1, <1>2, <1>3, <1>4 DEF Circuit

(* Whoever is written to as the other end of a circuit still holds it.       *)
LEMMA TargetHolds ==
  ASSUME TypeOK, ConnectionsPaired, NEW s, NEW t \in Sockets, NEW u \in Uids,
         connections[t][u] # None, NEW cmd, NEW info
  PROVE  LET m == Message(Target(connections[t][u], s), cmd, info)
         IN connections[m.to][m.uid] # None
<1> DEFINE c == connections[t][u]
<1>1. /\ connections[c.client][c.clientUid] = c
      /\ connections[c.server][c.serverUid] = c
      /\ c # None
  BY BothHold
<1> QED
  BY <1>1 DEF Message, Target, ClientEnd, ServerEnd

SpeaksOnlyOfHeldEndsStep ==
  \A m \in sent' :
    \/ m.cmd = "SERVICE_STREAM"
    \/ m.cmd = "SERVICE_CLOSED" /\ m.info # "CONNECTION_GONE"
    \/ m.cmd = "SERVICE_CONNECT" /\ m.info \in {"SUCCESS", "FAILURE"}
    => connections[m.to][m.uid] # None

LEMMA SpeaksOnlyOfHeldEndsSteps ==
  RegistryInv /\ Next => SpeaksOnlyOfHeldEndsStep \/ UNCHANGED vars
<1> SUFFICES ASSUME RegistryInv, MessageStep,
                    NEW m \in sent', ~OwnReply(m)
             PROVE  connections[m.to][m.uid] # None
  BY MessageSteps DEF SpeaksOnlyOfHeldEndsStep, OwnReply
<1>0. TypeOK /\ ConnectionsPaired
  BY DEF RegistryInv
<1>1. CASE LeaveStep
  <2>1. PICK s \in registeredSockets :
          \E replies : Leave(s, replies) /\ \A r \in replies : OwnReply(r)
    BY <1>1 DEF LeaveStep
  <2>2. m \in DisconnectNotices(s)
    BY <2>1 DEF Leave
  <2>3. PICK c \in Held(s) : m = CloseNotice(c, s, "TRANSPORT_SOCKET_CLOSED")
    BY <2>2 DEF DisconnectNotices
  <2>4. PICK v \in Uids : connections[s][v] = c /\ c # None
    BY <2>3 DEF Held
  <2>5. s \in Sockets
    BY <1>0 DEF TypeOK
  <2> QED
    BY <1>0, <2>3, <2>4, <2>5, TargetHolds DEF CloseNotice
<1>2. CASE StandingStep
  BY <1>2 DEF StandingStep
<1>3. CASE RelayStep
  BY <1>0, <1>3, TargetHolds DEF RelayStep
<1>4. CASE PartStep
  BY <1>0, <1>4, TargetHolds DEF PartStep, CloseNotice
<1> QED
  BY <1>1, <1>2, <1>3, <1>4 DEF MessageStep

(* Nothing about a circuit is written to a socket that no longer has it.     *)
THEOREM SpeaksOnlyOfHeldEndsCorrect == Spec => SpeaksOnlyOfHeldEnds
<1>1. RegistryInv /\ [Next]_vars => [SpeaksOnlyOfHeldEndsStep]_vars
  BY SpeaksOnlyOfHeldEndsSteps
<1> QED
  BY <1>1, RegistryCorrect, PTL DEF Spec, SpeaksOnlyOfHeldEnds, SpeaksOnlyOfHeldEndsStep

EveryLossToldStep ==
  \A s \in registeredSockets, u \in Uids :
    LET c == connections[s][u]
    IN c # None /\ connections'[s][u] = None /\ c.client # c.server =>
         /\ c.client \in registeredSockets' \/ c.server \in registeredSockets'
         /\ c.client \notin registeredSockets' => ToldClosed(ServerEnd(c))
         /\ c.server \notin registeredSockets' => ToldClosed(ClientEnd(c))
         /\ \E end \in Ends(c) : ToldClosed(end)

(* The notice of a closed circuit tells the end it goes to.                  *)
LEMMA NoticeTells ==
  ASSUME NEW c, NEW s, NEW reason, CloseNotice(c, s, reason) \in sent'
  PROVE  ToldClosed(Target(c, s))
<1> DEFINE m == CloseNotice(c, s, reason)
<1>1. m.cmd = "SERVICE_CLOSED" /\ m.to = Target(c, s)[1] /\ m.uid = Target(c, s)[2]
  BY DEF CloseNotice, Message
<1>2. <<Target(c, s)[1], Target(c, s)[2]>> = Target(c, s)
  BY DEF Target, ClientEnd, ServerEnd
<1>3. m \in sent' /\ m.cmd = "SERVICE_CLOSED" /\ <<m.to, m.uid>> = Target(c, s)
  BY <1>1, <1>2
<1> HIDE DEF m
<1> QED
  BY <1>3 DEF ToldClosed

(* What relay.disconnected takes from the others are circuits of its own.    *)
LEMMA DisconnectedLosesOwn ==
  ASSUME TypeOK, ConnectionsPaired, NEW s \in Sockets, Disconnected(s),
         NEW t \in Sockets, NEW u \in Uids,
         connections[t][u] # None, connections'[t][u] = None
  PROVE  s \in {connections[t][u].client, connections[t][u].server}
<1> DEFINE c == connections[t][u]
<1>1. CASE t = s
  BY <1>1, BothHold
<1>2. CASE t # s
  <2>1. connections'[t][u] = Without(Held(s))[t][u]
    BY <1>2, WithoutType DEF Disconnected
  <2>2. PICK d \in Held(s) : <<t, u>> \in Ends(d)
    BY <2>1 DEF Without
  <2>3. PICK v \in Uids : connections[s][v] = d /\ d # None
    BY <2>2 DEF Held
  <2>4. <<t, u>> \in Ends(c) \cap Ends(d)
    BY <2>2, BothHold
  <2>5. c = d
    BY <2>3, <2>4, EndsIdentify
  <2>6. s \in {d.client, d.server}
    BY <2>3, BothHold
  <2> QED
    BY <2>5, <2>6
<1> QED
  BY <1>1, <1>2

LEMMA EveryLossToldSteps ==
  RegistryInv /\ Next => EveryLossToldStep \/ UNCHANGED vars
<1> SUFFICES ASSUME RegistryInv, MessageStep,
                    NEW t \in registeredSockets, NEW u \in Uids,
                    connections[t][u] # None, connections'[t][u] = None,
                    connections[t][u].client # connections[t][u].server
             PROVE  LET c == connections[t][u]
                    IN /\ c.client \in registeredSockets' \/ c.server \in registeredSockets'
                       /\ c.client \notin registeredSockets' => ToldClosed(ServerEnd(c))
                       /\ c.server \notin registeredSockets' => ToldClosed(ClientEnd(c))
                       /\ \E end \in Ends(c) : ToldClosed(end)
  BY MessageSteps DEF EveryLossToldStep
<1> DEFINE c == connections[t][u]
<1>0. TypeOK /\ ConnectionsPaired /\ t \in Sockets
  BY DEF RegistryInv, TypeOK
<1>1. /\ <<t, u>> \in Ends(c)
      /\ c.client \in Sockets /\ c.clientUid \in Uids
      /\ c.server \in Sockets /\ c.serverUid \in Uids
      /\ {c.client, c.server} \subseteq registeredSockets
      /\ connections[c.client][c.clientUid] = c
      /\ connections[c.server][c.serverUid] = c
      /\ \A s : Target(c, s) \in Ends(c)
  BY <1>0, BothHold
<1>2. CASE LeaveStep
  <2>1. PICK s \in registeredSockets : \E replies : Leave(s, replies)
    BY <1>2 DEF LeaveStep
  <2>2. s \in Sockets /\ Disconnected(s)
    BY <1>0, <2>1 DEF TypeOK, Leave
  <2>3. s \in {c.client, c.server}
    BY <1>0, <2>2, DisconnectedLosesOwn
  <2>4. c \in Held(s)
    BY <1>1, <2>3 DEF Held
  <2>5. CloseNotice(c, s, "TRANSPORT_SOCKET_CLOSED") \in sent'
    BY <2>1, <2>4 DEF Leave, DisconnectNotices
  <2>6. ToldClosed(Target(c, s))
    BY <2>5, NoticeTells
  <2>7. registeredSockets' = registeredSockets \ {s}
    BY <2>2 DEF Disconnected
  <2> HIDE DEF c
  <2>8. CASE s = c.client
    <3>1. Target(c, s) = ServerEnd(c)
      BY <2>8 DEF Target, c
    <3>2. c.server \in registeredSockets'
      BY <1>1, <2>7, <2>8 DEF c
    <3> QED
      BY <1>1, <2>6, <3>1, <3>2 DEF c
  <2>9. CASE s = c.server
    <3>1. Target(c, s) = ClientEnd(c)
      BY <2>9 DEF Target
    <3>2. c.client \in registeredSockets'
      BY <1>1, <2>7, <2>9 DEF c
    <3> QED
      BY <1>1, <2>6, <3>1, <3>2 DEF c
  <2> QED
    BY <2>3, <2>8, <2>9
<1>3. CASE StandingStep
  BY <1>0, <1>3 DEF StandingStep
<1>4. CASE RelayStep
  BY <1>4 DEF RelayStep
<1>5. CASE PartStep
  <2>1. PICK s \in Sockets, v \in Uids :
          /\ connections[s][v] # None
          /\ connections' = Without({connections[s][v]})
          /\ sent' = {CloseNotice(connections[s][v], s, "TRANSPORT_SOCKET_EOS")}
          /\ UNCHANGED registeredSockets
    BY <1>5 DEF PartStep
  <2>2. <<t, u>> \in Ends(connections[s][v])
    BY <1>0, <2>1 DEF Without
  <2>3. connections[s][v] = c
    BY <1>0, <1>1, <2>1, <2>2, EndsIdentify
  <2>4. ToldClosed(Target(c, s))
    BY <2>1, <2>3, NoticeTells
  <2> QED
    BY <1>1, <2>1, <2>4
<1> QED
  BY <1>2, <1>3, <1>4, <1>5 DEF MessageStep

(* No circuit between two sockets ends in silence: one of them stays and     *)
(* hears of it (close and disconnected of createRelay).                      *)
THEOREM EveryLossToldCorrect == Spec => EveryLossTold
<1>1. RegistryInv /\ [Next]_vars => [EveryLossToldStep]_vars
  BY EveryLossToldSteps
<1> QED
  BY <1>1, RegistryCorrect, PTL DEF Spec, EveryLossTold, EveryLossToldStep

StreamsCrossStep ==
  \A s \in Sockets, u \in Uids :
    LET c == connections[s][u]
    IN c # None /\ ServiceStream(s, u) /\ c.client # c.server =>
         \E end \in Ends(c) \ {<<s, u>>} :
           sent' = {Message(end, "SERVICE_STREAM", "DATA")}

LEMMA StreamsCrossSteps == RegistryInv => StreamsCrossStep
<1> SUFFICES ASSUME RegistryInv, NEW s \in Sockets, NEW u \in Uids,
                    connections[s][u] # None, ServiceStream(s, u),
                    connections[s][u].client # connections[s][u].server
             PROVE  \E end \in Ends(connections[s][u]) \ {<<s, u>>} :
                      sent' = {Message(end, "SERVICE_STREAM", "DATA")}
  BY DEF StreamsCrossStep
<1> DEFINE c == connections[s][u]
<1>1. Target(c, s) \in Ends(c) /\ s \in {c.client, c.server}
  BY BothHold DEF RegistryInv
<1>2. Target(c, s) # <<s, u>>
  BY <1>1 DEF Target, ClientEnd, ServerEnd
<1>3. sent' = {Message(Target(c, s), "SERVICE_STREAM", "DATA")}
  BY DEF ServiceStream, Continue
<1> QED
  BY <1>1, <1>2, <1>3

(* What a socket streams on a circuit that joins it to another socket goes   *)
(* to that socket (forward of createRelay).                                  *)
THEOREM StreamsCrossCorrect == Spec => StreamsCrossBetweenSockets
<1>1. RegistryInv /\ [Next]_vars => [StreamsCrossStep]_vars
  BY StreamsCrossSteps
<1> QED
  BY <1>1, RegistryCorrect, PTL DEF Spec, StreamsCrossBetweenSockets, StreamsCrossStep

-----------------------------------------------------------------------------
(* SUCCESS and ownership.                                                    *)

SuccessMeansOwnedStep ==
  \A s \in Sockets :
    /\ phase[s] = "binding"
    /\ BindReply(s, "SUCCESS") \subseteq sent'
    /\ s \in registeredSockets'
    => \A n \in Asked(request[s]) : boundServices'[n] # None /\ boundServices'[n].socket = s

(* Only the handler of a socket tells it the outcome of a SERVICE_BIND.      *)
IsBindReply(m, s) == m.cmd = "SERVICE_BIND" /\ m.to = s

LEMMA LastWords ==
  ASSUME NEW s, NEW t, NEW replies, Leave(t, replies), BindReply(s, "SUCCESS") \subseteq sent',
         \A m \in replies : ~IsBindReply(m, s)
  PROVE  FALSE
<1>1. PICK m \in sent' : m = Plain(s, "SERVICE_BIND", "SUCCESS")
  BY DEF BindReply
<1>2. IsBindReply(m, s)
  BY <1>1 DEF IsBindReply, Plain, Message
<1>3. m.cmd # "SERVICE_CLOSED"
  BY <1>1 DEF Plain, Message
<1>4. \A r \in DisconnectNotices(t) : r.cmd = "SERVICE_CLOSED"
  BY DEF DisconnectNotices, CloseNotice, Message
<1> QED
  BY <1>1, <1>2, <1>3, <1>4 DEF Leave

(* A permission question was the last one of its SERVICE_BIND, and all of    *)
(* them ended well: what was asked for is what was accepted.                 *)
LEMMA LastQuestion ==
  ASSUME RegistryInv, NEW s \in Sockets, BindAllowed(s),
         BindReply(s, "SUCCESS") \subseteq sent', s \in registeredSockets'
  PROVE  \E accepted \in [Services -> ServiceTypes \cup {None}] :
           /\ Bind(s, accepted)
           /\ \A n \in Asked(request[s]) : accepted[n] # None
<1> DEFINE b == request[s]
           r == Head(b.todo)
           rest == [b EXCEPT !.todo = Tail(@)]
           refused == [rest EXCEPT !.unauthorized = TRUE]
           taken == [rest EXCEPT !.unavailable = TRUE]
           granted == [rest EXCEPT !.accepted[r.service] = r.type]
<1>1. b \in BindRequest /\ b.todo # <<>>
  BY DEF BindAllowed, RegistryInv, TypeOK
<1>2. /\ r \in RelayService
      /\ Tail(b.todo) \in Seq(RelayService)
  BY <1>1 DEF BindRequest
<1>3. ContinueBind(s, refused) \/ ContinueBind(s, taken) \/ ContinueBind(s, granted)
  BY DEF BindAllowed
<1>4. ASSUME NEW d, ContinueBind(s, d)
      PROVE  d.todo = <<>> /\ BindVerdict(d) = "SUCCESS" /\ Bind(s, d.accepted)
  <2>1. sent' # {}
    BY DEF BindReply
  <2>2. d.todo = <<>> /\ ConcludeBind(s, d)
    BY <1>4, <2>1 DEF ContinueBind
  <2>3. ASSUME NEW replies, Leave(s, replies) PROVE FALSE
    BY <2>3 DEF Leave, Disconnected
  <2> QED
    BY <2>2, <2>3 DEF ConcludeBind
<1>5. /\ refused.unauthorized = TRUE /\ refused.todo = Tail(b.todo)
      /\ taken.unavailable = TRUE
      /\ granted.todo = Tail(b.todo)
      /\ granted.accepted = [b.accepted EXCEPT ![r.service] = r.type]
  BY <1>1 DEF BindRequest
<1>6. ~ContinueBind(s, refused)
  <2>1. BindVerdict(refused) # "SUCCESS"
    BY <1>5 DEF BindVerdict
  <2> QED
    BY <1>4, <2>1
<1>7. ~ContinueBind(s, taken)
  <2>1. BindVerdict(taken) # "SUCCESS"
    BY <1>5 DEF BindVerdict
  <2> QED
    BY <1>4, <2>1
<1>8. granted.todo = <<>> /\ Bind(s, granted.accepted)
  BY <1>3, <1>4, <1>6, <1>7
<1>9. Bind(s, [b.accepted EXCEPT ![r.service] = r.type]) /\ Tail(b.todo) = <<>>
  BY <1>5, <1>8
<1> DEFINE accepted == [b.accepted EXCEPT ![r.service] = r.type]
<1>10. /\ r.service \in Services /\ r.type \in ServiceTypes /\ r.type # None
       /\ b.accepted \in [Services -> ServiceTypes \cup {None}]
       /\ b.todo \in Seq(RelayService)
  BY <1>1, <1>2, RelayAssumption DEF RelayService, BindRequest, RelayAssumption
<1>11. accepted \in [Services -> ServiceTypes \cup {None}]
  BY <1>10
<1>12. \A i \in DOMAIN b.todo : b.todo[i] = r
  <2>1. ASSUME NEW q \in Seq(RelayService), q # <<>>, Tail(q) = <<>>
        PROVE  Len(q) = 1
    <3>1. Len(Tail(q)) = Len(q) - 1 /\ Len(q) \in Nat
      BY <2>1
    <3>2. Len(Tail(q)) = Len(<<>>)
      BY <2>1, Zenon
    <3>3. Len(<<>>) = 0
      OBVIOUS
    <3> QED
      BY <3>1, <3>2, <3>3
  <2>2. Len(b.todo) = 1
    BY <1>1, <1>9, <1>10, <2>1
  <2> QED
    BY <2>2, <1>10
<1>13. \A n \in Asked(b) : accepted[n] # None
  BY <1>10, <1>12 DEF Asked
<1> QED
  BY <1>9, <1>11, <1>13

LEMMA SuccessMeansOwnedSteps ==
  RegistryInv /\ Next => SuccessMeansOwnedStep \/ UNCHANGED vars
<1> SUFFICES ASSUME RegistryInv, Next, ~UNCHANGED vars,
                    NEW s \in Sockets,
                    phase[s] = "binding",
                    BindReply(s, "SUCCESS") \subseteq sent',
                    s \in registeredSockets'
             PROVE  \A n \in Asked(request[s]) :
                      boundServices'[n] # None /\ boundServices'[n].socket = s
  BY DEF SuccessMeansOwnedStep
<1>0. PICK said \in sent' : said = Plain(s, "SERVICE_BIND", "SUCCESS")
  BY DEF BindReply
<1>1. said.cmd = "SERVICE_BIND" /\ said.to = s /\ IsBindReply(said, s)
  BY <1>0 DEF IsBindReply, Plain, Message
<1>2. sent' # {} /\ \A t, replies : Leave(t, replies) => t # s
  BY <1>0 DEF Leave, Disconnected
<1>3. ASSUME NEW t \in Sockets, Connected(t) \/ Abort(t) PROVE FALSE
  BY <1>2, <1>3 DEF Connected, Abort
<1>4. ASSUME NEW t \in Sockets,
             \/ Malformed(t) \/ SocketClose(t) \/ UnsupportedCommand(t)
             \/ PermissionRejected(t) \/ ShiftRejected(t)
      PROVE  FALSE
  <2> DEFINE last == {{}, {Plain(t, "SOCKET_CLOSE", "")}, {Plain(t, "UNSUPPORTED", "")}}
  <2>1. \E replies \in last : Leave(t, replies)
    BY <1>4 DEF Malformed, SocketClose, UnsupportedCommand, PermissionRejected, ShiftRejected
  <2>2. ASSUME NEW replies \in last, NEW m \in replies PROVE ~IsBindReply(m, s)
    <3>1. m = Plain(t, "SOCKET_CLOSE", "") \/ m = Plain(t, "UNSUPPORTED", "")
      BY <2>2
    <3>2. /\ ~IsBindReply(Plain(t, "SOCKET_CLOSE", ""), s)
          /\ ~IsBindReply(Plain(t, "UNSUPPORTED", ""), s)
      BY DEF IsBindReply, Plain, Message
    <3> QED
      BY <3>1, <3>2, Zenon
  <2> HIDE DEF last
  <2> QED
    BY <2>1, <2>2, LastWords
<1>5. ASSUME NEW t \in Sockets, NEW b, ContinueBind(t, b) PROVE t = s
  <2>1. CASE sent' = BindReply(t, "SUCCESS")
    BY <1>1, <2>1 DEF BindReply, Plain, Message
  <2>2. CASE Leave(t, BindReply(t, BindVerdict(b)))
    <3>1. t # s
      BY <1>2, <2>2
    <3>2. \A m \in BindReply(t, BindVerdict(b)) : ~IsBindReply(m, s)
      BY <3>1 DEF BindReply, IsBindReply, Plain, Message
    <3> QED
      BY <2>2, <3>2, LastWords
  <2>3. CASE sent' = {}
    BY <1>2, <2>3
  <2> QED
    BY <1>5, <2>1, <2>2, <2>3 DEF ContinueBind, ConcludeBind
<1>6. ASSUME NEW t \in Sockets, NEW command \in BindRequests, ServiceBind(t, command)
      PROVE  FALSE
  <2>1. t # s
    BY <1>6 DEF ServiceBind, Ready
  <2>2. \A reply : \A m \in BindReply(t, reply) : ~IsBindReply(m, s)
    BY <2>1 DEF BindReply, IsBindReply, Plain, Message
  <2> QED
    BY <1>5, <1>6, <2>1, <2>2, ServiceBindContinues, LastWords
<1>7. ASSUME NEW t \in Sockets, BindAllowed(t)
      PROVE  \A n \in Asked(request[s]) :
               boundServices'[n] # None /\ boundServices'[n].socket = s
  <2>1. t = s
    BY <1>5, <1>7, BindAllowedContinues
  <2>2. PICK accepted \in [Services -> ServiceTypes \cup {None}] :
          /\ Bind(s, accepted)
          /\ \A n \in Asked(request[s]) : accepted[n] # None
    BY <1>7, <2>1, LastQuestion
  <2>3. Asked(request[s]) \subseteq Services
    <3>1. request[s].todo \in Seq(RelayService)
      BY DEF RegistryInv, TypeOK, BindRequest
    <3>2. ASSUME NEW q \in Seq(RelayService), NEW i \in DOMAIN q
          PROVE  q[i].service \in Services
      <4>1. q[i] \in RelayService
        BY <3>2
      <4> QED
        BY <4>1 DEF RelayService
    <3>3. \A i \in DOMAIN request[s].todo : request[s].todo[i].service \in Services
      BY <3>1, <3>2
    <3> QED
      BY <3>3 DEF Asked
  <2>4. \A n \in Services : accepted[n] # None =>
          boundServices'[n] = [socket |-> s, type |-> accepted[n]]
    BY <2>2 DEF Bind
  <2>5. \A type \in ServiceTypes : [socket |-> s, type |-> type] # None
    BY RelayAssumption DEF RelayAssumption
  <2>6. \A n \in Services : accepted[n] # None => accepted[n] \in ServiceTypes
    OBVIOUS
  <2>7. ASSUME NEW n \in Services, accepted[n] # None
        PROVE  boundServices'[n] # None /\ boundServices'[n].socket = s
    <3>1. boundServices'[n] = [socket |-> s, type |-> accepted[n]]
      BY <2>4, <2>7
    <3>2. [socket |-> s, type |-> accepted[n]] # None
      BY <2>5, <2>6, <2>7
    <3> QED
      BY <3>1, <3>2
  <2> QED
    BY <2>2, <2>3, <2>7
<1>8. ASSUME NEW t \in Sockets, NEW uid \in Uids, NEW n \in Services,
             NEW type \in ServiceTypes \cup {InvalidType}, ServiceConnect(t, uid, n, type)
      PROVE  FALSE
  <2>1. (\E info : Leave(t, ConnectReply(t, uid, info))) \/ sent' = {}
    BY <1>8 DEF ServiceConnect
  <2>2. \A info : \A m \in ConnectReply(t, uid, info) : ~IsBindReply(m, s)
    BY DEF ConnectReply, IsBindReply, Message
  <2> QED
    BY <1>2, <2>1, <2>2, LastWords
<1>9. ASSUME NEW t \in Sockets, ConnectAllowed(t) PROVE FALSE
  <2> DEFINE uid == request[t].uid
  <2>1. \/ Leave(t, ConnectReply(t, uid, "UNAUTHORIZED"))
        \/ \E info : sent' = ConnectReply(t, uid, info)
        \/ \E end : sent' = {Message(end, "SERVICE_LINK", "LINKED")}
    BY <1>9 DEF ConnectAllowed, Link
  <2>2. \A info : \A m \in ConnectReply(t, uid, info) : ~IsBindReply(m, s)
    BY DEF ConnectReply, IsBindReply, Message
  <2>3. \A end : Message(end, "SERVICE_LINK", "LINKED").cmd # "SERVICE_BIND"
    BY DEF Message
  <2> QED
    BY <1>1, <2>1, <2>2, <2>3, LastWords
<1>10. ASSUME NEW t \in Sockets, NEW uid \in Uids,
              \/ \E reply \in {"SUCCESS", "FAILURE"} : ServiceLink(t, uid, reply)
              \/ ServiceStream(t, uid)
              \/ ServiceClosed(t, uid, "TRANSPORT_SOCKET_EOS")
       PROVE  FALSE
  <2>1. \A m \in sent' : m.cmd # "SERVICE_BIND"
    <3> DEFINE c == connections[t][uid]
    <3>1. CASE \E reply \in {"SUCCESS", "FAILURE"} : ServiceLink(t, uid, reply)
      <4>1. \/ sent' = {}
            \/ \E reply : sent' = {Message(Target(c, t), "SERVICE_CONNECT", reply)}
            \/ sent' = {Message(<<t, uid>>, "SERVICE_CLOSED", "CONNECTION_GONE")}
        BY <3>1 DEF ServiceLink, Continue, Gone
      <4> QED
        BY <4>1 DEF Message
    <3>2. CASE ServiceStream(t, uid)
      <4>1. \/ sent' = {Message(Target(c, t), "SERVICE_STREAM", "DATA")}
            \/ sent' = {Message(<<t, uid>>, "SERVICE_CLOSED", "CONNECTION_GONE")}
        BY <3>2 DEF ServiceStream, Continue, Gone
      <4> QED
        BY <4>1 DEF Message
    <3>3. CASE ServiceClosed(t, uid, "TRANSPORT_SOCKET_EOS")
      <4>1. \/ sent' = {}
            \/ sent' = {Message(Target(c, t), "SERVICE_CLOSED", "TRANSPORT_SOCKET_EOS")}
        BY <3>3 DEF ServiceClosed, Continue, CloseNotice
      <4> QED
        BY <4>1 DEF Message
    <3> QED
      BY <1>10, <3>1, <3>2, <3>3
  <2> QED
    BY <1>1, <2>1
<1> QED
  BY <1>3, <1>4, <1>6, <1>7, <1>8, <1>9, <1>10 DEF Next, Command, Resume, AllGone

(* Whoever is told that its services are bound owns them all, although       *)
(* SUCCESS is written before relay.bind is tried.                            *)
THEOREM SuccessMeansOwnedCorrect == Spec => SuccessMeansOwned
<1>1. RegistryInv /\ [Next]_vars => [SuccessMeansOwnedStep]_vars
  BY SuccessMeansOwnedSteps
<1> QED
  BY <1>1, RegistryCorrect, PTL DEF Spec, SuccessMeansOwned, SuccessMeansOwnedStep

-----------------------------------------------------------------------------
(* Where new circuits lead.  The permission to offer a service is asked for  *)
(* long before a circuit to it is made, and nothing looks at it again, so    *)
(* LinksReachOwner needs that it is remembered: whatever is bound, and       *)
(* whatever a suspended SERVICE_BIND has accepted, was allowed.              *)
OffersAllowed ==
  /\ \A n \in Services : boundServices[n] # None => <<Owner(n), n>> \in MayBind
  /\ \A s \in Sockets :
       phase[s] = "binding" =>
         \A n \in Services : request[s].accepted[n] # None => <<s, n>> \in MayBind

AcceptedAllowed(s, b) == \A n \in Services : b.accepted[n] # None => <<s, n>> \in MayBind

(* Nothing is bound that was not, and no handler waits with more accepted.   *)
LEMMA NothingOffered ==
  ASSUME OffersAllowed,
         \A n \in Services : boundServices'[n] # None => boundServices'[n] = boundServices[n],
         \A s \in Sockets : phase'[s] = "binding" =>
                              phase[s] = "binding" /\ request'[s] = request[s]
  PROVE  OffersAllowed'
BY DEF OffersAllowed, Owner

LEMMA LeaveOffers ==
  ASSUME TypeOK, OffersAllowed, NEW s \in Sockets, NEW replies, Leave(s, replies)
  PROVE  OffersAllowed'
<1>1. \A n \in Services : boundServices'[n] # None => boundServices'[n] = boundServices[n]
  BY DEF Leave, Disconnected, ServicesWithout
<1>2. \A t \in Sockets : phase'[t] = "binding" =>
                           phase[t] = "binding" /\ request'[t] = request[t]
  BY DEF TypeOK, Leave
<1> QED
  BY <1>1, <1>2, NothingOffered

LEMMA ContinueBindOffers ==
  ASSUME TypeOK, OffersAllowed, NEW s \in Sockets, NEW b \in BindRequest, ContinueBind(s, b),
         AcceptedAllowed(s, b)
  PROVE  OffersAllowed'
<1>1. CASE b.todo # <<>>
  BY <1>1 DEF ContinueBind, registryVars, TypeOK, OffersAllowed, AcceptedAllowed, Owner
<1>2. CASE b.todo = <<>> /\ (BindVerdict(b) # "SUCCESS" \/ SomeBound(b.accepted))
  BY <1>2, LeaveOffers DEF ContinueBind, ConcludeBind
<1>3. CASE b.todo = <<>> /\ BindVerdict(b) = "SUCCESS" /\ ~SomeBound(b.accepted)
  <2>1. /\ phase' = [phase EXCEPT ![s] = "loop"]
        /\ request' = [request EXCEPT ![s] = None]
        /\ Bind(s, b.accepted)
    BY <1>3 DEF ContinueBind, ConcludeBind
  <2>2. ASSUME NEW n \in Services, boundServices'[n] # None
        PROVE  <<boundServices'[n].socket, n>> \in MayBind
    <3>1. CASE b.accepted[n] # None
      BY <2>1, <3>1 DEF Bind, AcceptedAllowed
    <3>2. CASE b.accepted[n] = None
      BY <2>1, <2>2, <3>2 DEF Bind, OffersAllowed, Owner
    <3> QED
      BY <3>1, <3>2
  <2>3. ASSUME NEW t \in Sockets, phase'[t] = "binding", NEW n \in Services,
               request'[t].accepted[n] # None
        PROVE  <<t, n>> \in MayBind
    BY <2>1, <2>3 DEF TypeOK, OffersAllowed
  <2> QED
    BY <2>2, <2>3 DEF OffersAllowed, Owner
<1> QED
  BY <1>1, <1>2, <1>3

LEMMA ServiceBindOffers ==
  ASSUME TypeOK, OffersAllowed, NEW s \in Sockets, NEW command \in BindRequests,
         ServiceBind(s, command)
  PROVE  OffersAllowed'
<1> DEFINE b == [todo |-> command.todo, accepted |-> NoServices, invalid |-> command.invalid,
                 unauthorized |-> FALSE, unavailable |-> FALSE]
<1>1. b \in BindRequest
  BY RelayAssumption DEF RelayAssumption, BindCommand, BindRequest, NoServices
<1>2. AcceptedAllowed(s, b)
  BY DEF AcceptedAllowed, NoServices
<1>3. \/ Leave(s, BindReply(s, "UNAUTHORIZED"))
      \/ Leave(s, BindReply(s, "SOCKET_ALREADY_BOUND"))
      \/ ContinueBind(s, b)
  BY DEF ServiceBind
<1> QED
  BY <1>1, <1>2, <1>3, LeaveOffers, ContinueBindOffers

LEMMA BindAllowedOffers ==
  ASSUME TypeOK, OffersAllowed, NEW s \in Sockets, BindAllowed(s)
  PROVE  OffersAllowed'
<1> DEFINE b == request[s]
           r == Head(b.todo)
           n == r.service
           rest == [b EXCEPT !.todo = Tail(@)]
           refused == [rest EXCEPT !.unauthorized = TRUE]
           taken == [rest EXCEPT !.unavailable = TRUE]
           granted == [rest EXCEPT !.accepted[n] = r.type]
<1>1. phase[s] = "binding" /\ b \in BindRequest /\ b.todo # <<>>
  BY DEF BindAllowed, TypeOK
<1>2. /\ r \in RelayService
      /\ Tail(b.todo) \in Seq(RelayService)
  BY <1>1 DEF BindRequest
<1>3. refused \in BindRequest /\ taken \in BindRequest /\ granted \in BindRequest
  BY <1>1, <1>2 DEF BindRequest, RelayService
<1>4. AcceptedAllowed(s, b)
  BY <1>1 DEF OffersAllowed, AcceptedAllowed
<1>5. /\ refused.accepted = b.accepted
      /\ taken.accepted = b.accepted
      /\ granted.accepted = [b.accepted EXCEPT ![n] = r.type]
  BY <1>1 DEF BindRequest
<1>6. AcceptedAllowed(s, refused) /\ AcceptedAllowed(s, taken)
  BY <1>4, <1>5 DEF AcceptedAllowed
<1>7. \/ ContinueBind(s, refused)
      \/ ContinueBind(s, taken)
      \/ <<s, n>> \in MayBind /\ ContinueBind(s, granted)
  BY DEF BindAllowed
<1>8. ASSUME <<s, n>> \in MayBind PROVE AcceptedAllowed(s, granted)
  <2>1. b.accepted \in [Services -> ServiceTypes \cup {None}]
    BY <1>1 DEF BindRequest
  <2>2. \A k \in Services : granted.accepted[k] = IF k = n THEN r.type ELSE b.accepted[k]
    BY <1>5, <2>1
  <2> HIDE DEF granted, b, r, n
  <2> QED
    BY <1>4, <1>8, <2>2 DEF AcceptedAllowed
<1> HIDE DEF refused, taken, granted
<1> QED
  BY <1>3, <1>6, <1>7, <1>8, ContinueBindOffers

LEMMA NextOffersAllowed == TypeOK /\ OffersAllowed /\ [Next]_vars => OffersAllowed'
<1> SUFFICES ASSUME TypeOK, OffersAllowed, [Next]_vars PROVE OffersAllowed'
  OBVIOUS
<1>1. ASSUME NEW s \in Sockets, Connected(s) PROVE OffersAllowed'
  BY <1>1, NothingOffered DEF Connected, TypeOK
<1>2. ASSUME NEW s \in Sockets, Abort(s) PROVE OffersAllowed'
  BY <1>2, NothingOffered DEF Abort, registryVars
<1>3. ASSUME NEW s \in Sockets,
             \/ Malformed(s) \/ SocketClose(s) \/ UnsupportedCommand(s)
             \/ PermissionRejected(s) \/ ShiftRejected(s)
      PROVE  OffersAllowed'
  <2>1. \E replies : Leave(s, replies)
    BY <1>3 DEF Malformed, SocketClose, UnsupportedCommand, PermissionRejected, ShiftRejected
  <2> QED
    BY <2>1, LeaveOffers
<1>4. ASSUME NEW s \in Sockets, NEW command \in BindRequests, ServiceBind(s, command)
      PROVE  OffersAllowed'
  BY <1>4, ServiceBindOffers
<1>5. ASSUME NEW s \in Sockets, BindAllowed(s) PROVE OffersAllowed'
  BY <1>5, BindAllowedOffers
<1>6. ASSUME NEW s \in Sockets, NEW uid \in Uids, NEW n \in Services,
             NEW type \in ServiceTypes \cup {InvalidType}, ServiceConnect(s, uid, n, type)
      PROVE  OffersAllowed'
  <2>1. CASE \E replies : Leave(s, replies)
    BY <2>1, LeaveOffers
  <2>2. CASE /\ phase[s] = "loop"
             /\ phase' = [phase EXCEPT ![s] = "connecting"]
             /\ request' = [request EXCEPT ![s] = [uid |-> uid, service |-> n, type |-> type]]
             /\ UNCHANGED registryVars
    <3>1. \A t \in Sockets : phase'[t] = "binding" =>
                               phase[t] = "binding" /\ request'[t] = request[t]
      BY <2>2 DEF TypeOK
    <3> QED
      BY <2>2, <3>1, NothingOffered DEF registryVars
  <2> QED
    BY <1>6, <2>1, <2>2 DEF ServiceConnect, Ready
<1>7. ASSUME NEW s \in Sockets, ConnectAllowed(s) PROVE OffersAllowed'
  <2>1. CASE \E replies : Leave(s, replies)
    BY <2>1, LeaveOffers
  <2>2. CASE /\ phase' = [phase EXCEPT ![s] = "loop"]
             /\ request' = [request EXCEPT ![s] = None]
             /\ UNCHANGED boundServices
    <3>1. \A t \in Sockets : phase'[t] = "binding" =>
                               phase[t] = "binding" /\ request'[t] = request[t]
      BY <2>2 DEF TypeOK
    <3> QED
      BY <2>2, <3>1, NothingOffered
  <2> QED
    BY <1>7, <2>1, <2>2 DEF ConnectAllowed, Link, registryVars
<1>8. ASSUME NEW s \in Sockets, NEW uid \in Uids,
             \/ \E reply \in {"SUCCESS", "FAILURE"} : ServiceLink(s, uid, reply)
             \/ ServiceStream(s, uid)
             \/ ServiceClosed(s, uid, "TRANSPORT_SOCKET_EOS")
      PROVE  OffersAllowed'
  <2>1. UNCHANGED <<handlerVars, boundServices>>
    BY <1>8 DEF ServiceLink, ServiceStream, ServiceClosed, Continue, registryVars
  <2> QED
    BY <2>1, NothingOffered DEF handlerVars
<1>9. CASE UNCHANGED vars
  BY <1>9, NothingOffered DEF vars, handlerVars, registryVars
<1> QED
  BY <1>1, <1>2, <1>3, <1>4, <1>5, <1>6, <1>7, <1>8, <1>9 DEF Next, Command, Resume, AllGone

(* No service is offered by a socket that may not offer it.                  *)
THEOREM OffersCorrect == Spec => []OffersAllowed
<1>1. Init => OffersAllowed
  BY DEF Init, OffersAllowed, NoServices
<1>2. TypeOK /\ OffersAllowed /\ [Next]_vars => OffersAllowed'
  BY NextOffersAllowed
<1> QED
  BY <1>1, <1>2, TypesCorrect, PTL DEF Spec

LinksReachOwnerStep ==
  \A s \in Sockets, u \in Uids :
    LET c == connections'[s][u]
        r == request[c.client]
    IN connections[s][u] = None /\ c # None =>
         /\ phase[c.client] = "connecting"
         /\ r.uid = c.clientUid
         /\ boundServices[r.service] = [socket |-> c.server, type |-> r.type]
         /\ <<c.client, r.service>> \in MayConnect
         /\ <<c.server, r.service>> \in MayBind
         /\ Message(ServerEnd(c), "SERVICE_LINK", "LINKED") \in sent'

LEMMA LinksReachOwnerSteps ==
  RegistryInv /\ OffersAllowed /\ [Next]_vars => LinksReachOwnerStep
<1> SUFFICES ASSUME RegistryInv, OffersAllowed, [Next]_vars,
                    NEW t \in Sockets, NEW u \in Uids,
                    connections[t][u] = None, connections'[t][u] # None
             PROVE  LET c == connections'[t][u]
                        r == request[c.client]
                    IN /\ phase[c.client] = "connecting"
                       /\ r.uid = c.clientUid
                       /\ boundServices[r.service] = [socket |-> c.server, type |-> r.type]
                       /\ <<c.client, r.service>> \in MayConnect
                       /\ <<c.server, r.service>> \in MayBind
                       /\ Message(ServerEnd(c), "SERVICE_LINK", "LINKED") \in sent'
  BY DEF LinksReachOwnerStep
<1>0. TypeOK /\ ConnectionsPaired
  BY DEF RegistryInv
<1>1. LinkStep
  <2>1. ~UNCHANGED registryVars
    BY DEF registryVars
  <2>2. ~ \E s \in Sockets : Connected(s)
    BY ConnectedEntries
  <2>3. ASSUME NEW s \in registeredSockets, Disconnected(s) PROVE FALSE
    <3>1. s \in Sockets
      BY <1>0 DEF TypeOK
    <3> QED
      BY <1>0, <2>3, <3>1, DisconnectedEntries
  <2>4. ~BindStep
    BY DEF BindStep
  <2>5. ~CloseStep
    BY DEF CloseStep, Without
  <2> QED
    BY <2>1, <2>2, <2>3, <2>4, <2>5, RegistrySteps DEF RegistryStep
<1>2. PICK s \in Sockets, n \in Services :
        /\ phase[s] = "connecting"
        /\ n = request[s].service
        /\ MayLink(s, n)
        /\ boundServices[n] # None
        /\ boundServices[n].type = request[s].type
        /\ Link(s, request[s].uid, n)
  BY <1>1 DEF LinkStep
<1> DEFINE c == NewCircuit(s, n)
<1>3. /\ connections' = [t2 \in Sockets |-> [u2 \in Uids |->
                           IF <<t2, u2>> \in Ends(c) THEN c ELSE connections[t2][u2]]]
      /\ sent' = {Message(ServerEnd(c), "SERVICE_LINK", "LINKED")}
  BY <1>2, LinkEnds
<1>4. connections'[t][u] = c
  <2> HIDE DEF c
  <2> QED
    BY <1>3
<1>5. c.client = s /\ c.clientUid = request[s].uid /\ c.server = Owner(n)
  BY DEF NewCircuit
<1>6. boundServices[n] = [socket |-> Owner(n), type |-> request[s].type]
  BY <1>0, <1>2 DEF TypeOK, Owner
<1>7. <<s, n>> \in MayConnect /\ <<Owner(n), n>> \in MayBind
  BY <1>2 DEF MayLink, OffersAllowed
<1> HIDE DEF c
<1> QED
  BY <1>2, <1>3, <1>4, <1>5, <1>6, <1>7

(* A circuit leads from a socket that may connect to the service to the one  *)
(* that owns it when the circuit is made, and that may offer it.             *)
THEOREM LinksReachOwnerCorrect == Spec => LinksReachOwner
<1>1. RegistryInv /\ OffersAllowed /\ [Next]_vars => [LinksReachOwnerStep]_vars
  BY LinksReachOwnerSteps
<1> QED
  BY <1>1, RegistryCorrect, OffersCorrect, PTL DEF Spec, LinksReachOwner, LinksReachOwnerStep


-----------------------------------------------------------------------------
(* The refinement of the switchboard.                                        *)

Circuits == UNION {Held(s) : s \in Sockets}

LEMMA CircuitsAre ==
  ASSUME NEW c
  PROVE  c \in Circuits <=> c # None /\ \E s \in Sockets, u \in Uids : connections[s][u] = c
BY DEF Circuits, Held

LEMMA CircuitsWillBe ==
  ASSUME NEW c
  PROVE  c \in Circuits' <=> c # None /\ \E s \in Sockets, u \in Uids : connections'[s][u] = c
BY DEF Circuits, Held

(* The same circuits when no entry changes.                                  *)
LEMMA CircuitsUnchanged ==
  ASSUME \A s \in Sockets, u \in Uids : connections'[s][u] = connections[s][u]
  PROVE  Circuits' = Circuits
BY CircuitsAre, CircuitsWillBe

LEMMA ArriveRefines ==
  ASSUME RegistryInv, NEW s \in Sockets, Connected(s)
  PROVE  Board!Arrive(s)
<1>1. Circuits' = Circuits
  BY ConnectedEntries, CircuitsUnchanged
<1> QED
  BY <1>1, ConnectedEntries DEF Board!Arrive, Connected, Circuits

LEMMA DepartRefines ==
  ASSUME RegistryInv, NEW s \in registeredSockets, Disconnected(s)
  PROVE  Board!Depart(s)
<1>1. s \in Sockets /\ TypeOK /\ ConnectionsPaired
  BY DEF RegistryInv, TypeOK
<1>2. ASSUME NEW c \in Circuits'
      PROVE  c \in Circuits /\ s \notin Board!Of(c)
  <2>1. PICK t \in Sockets, u \in Uids : c # None /\ connections'[t][u] = c
    BY CircuitsWillBe
  <2>2. c = connections[t][u] /\ s \notin {c.client, c.server}
    BY <1>1, <2>1, DisconnectedEntries
  <2> QED
    BY <2>1, <2>2, CircuitsAre DEF Board!Of
<1>3. ASSUME NEW c \in Circuits, s \notin Board!Of(c)
      PROVE  c \in Circuits'
  <2>1. PICK t \in Sockets, u \in Uids : c # None /\ connections[t][u] = c
    BY CircuitsAre
  <2>2. t # s
    BY <1>1, <1>3, <2>1 DEF ConnectionsPaired, Ends, ClientEnd, ServerEnd, Board!Of
  <2>3. ASSUME NEW d \in Held(s), <<t, u>> \in Ends(d) PROVE FALSE
    <3>1. PICK v \in Uids : d = connections[s][v] /\ d # None
      BY DEF Held
    <3>2. /\ <<t, u>> \in Ends(c)
          /\ <<s, v>> \in Ends(d)
      BY <1>1, <2>1, <3>1 DEF ConnectionsPaired
    <3>3. c = d
      BY <1>1, <2>1, <2>3, <3>1, <3>2, EndsIdentify
    <3> QED
      BY <1>3, <3>2, <3>3 DEF Ends, ClientEnd, ServerEnd, Board!Of
  <2>4. connections'[t][u] = c
    BY <2>1, <2>2, <2>3 DEF Disconnected, Without
  <2> QED
    BY <2>1, <2>4, CircuitsWillBe
<1>4. Circuits' = {c \in Circuits : s \notin Board!Of(c)}
  BY <1>2, <1>3
<1> QED
  BY <1>4 DEF Board!Depart, Disconnected, ServicesWithout, Owner, Circuits

LEMMA PublishRefines ==
  ASSUME BindStep
  PROVE  \E s \in registeredSockets, S \in SUBSET Services :
           \E offer \in [S -> ServiceTypes] : Board!Publish(s, offer)
<1>1. PICK s \in registeredSockets, accepted \in [Services -> ServiceTypes \cup {None}] :
        /\ ~SomeBound(accepted)
        /\ Bind(s, accepted)
        /\ UNCHANGED <<registeredSockets, relayCounter, connections>>
  BY DEF BindStep
<1> DEFINE S == {n \in Services : accepted[n] # None}
           offer == [n \in S |-> accepted[n]]
<1>2. S \in SUBSET Services /\ offer \in [S -> ServiceTypes]
  OBVIOUS
<1>3. Circuits' = Circuits
  BY <1>1 DEF Circuits, Held
<1>4. Board!Publish(s, offer)
  BY <1>1, <1>3 DEF Board!Publish, SomeBound, Bind, Circuits
<1> QED
  BY <1>2, <1>4

LEMMA JoinRefines ==
  ASSUME RegistryInv, LinkStep
  PROVE  \E c \in Circuits' \ Circuits : Board!Join(c)
<1>1. PICK s \in Sockets, n \in Services :
        phase[s] = "connecting" /\ boundServices[n] # None /\ Link(s, request[s].uid, n)
  BY DEF LinkStep
<1> DEFINE c == NewCircuit(s, n)
<1>2. c.server = Owner(n)
  BY DEF NewCircuit
<1>3. /\ c \in Circuit
      /\ {c.client, c.server} \subseteq registeredSockets
      /\ c.clientUid > 0
      /\ c.serverUid < 0
      /\ connections[c.client][c.clientUid] = None
      /\ connections[c.server][c.serverUid] = None
      /\ connections' = [t \in Sockets |-> [u \in Uids |->
                           IF <<t, u>> \in Ends(c) THEN c ELSE connections[t][u]]]
      /\ UNCHANGED <<registeredSockets, boundServices>>
  BY <1>1, LinkEnds
<1> HIDE DEF c
<1>4. /\ c # None
      /\ c.client \in Sockets /\ c.clientUid \in Uids
      /\ c.server \in Sockets /\ c.serverUid \in Uids
  BY <1>3, RelayAssumption DEF RelayAssumption, Circuit
<1>5. c \notin Circuits
  <2> SUFFICES ASSUME NEW t \in Sockets, NEW u \in Uids, connections[t][u] = c PROVE FALSE
    BY CircuitsAre
  <2>1. connections[c.client][c.clientUid] = c
    BY <1>4 DEF RegistryInv, ConnectionsPaired
  <2> QED
    BY <1>3, <1>4, <2>1
<1>6. ASSUME NEW d
      PROVE  d \in Circuits' <=> d \in Circuits \/ d = c
  <2>1. ASSUME d \in Circuits' PROVE d \in Circuits \/ d = c
    <3>1. PICK t \in Sockets, u \in Uids : d # None /\ connections'[t][u] = d
      BY <2>1, CircuitsWillBe
    <3>2. d = c \/ connections[t][u] = d
      BY <1>3, <3>1
    <3> QED
      BY <3>1, <3>2, CircuitsAre
  <2>2. ASSUME d \in Circuits PROVE d \in Circuits'
    <3>1. PICK t \in Sockets, u \in Uids : d # None /\ connections[t][u] = d
      BY <2>2, CircuitsAre
    <3>2. <<t, u>> \notin Ends(c)
      BY <1>3, <3>1 DEF Ends, ClientEnd, ServerEnd
    <3>3. connections'[t][u] = d
      BY <1>3, <3>1, <3>2
    <3> QED
      BY <3>1, <3>3, CircuitsWillBe
  <2>3. c \in Circuits'
    <3>1. connections'[c.client][c.clientUid] = c
      BY <1>3, <1>4 DEF Ends, ClientEnd, ServerEnd
    <3> QED
      BY <1>4, <3>1, CircuitsWillBe
  <2> QED
    BY <2>1, <2>2, <2>3
<1>7. ASSUME NEW d \in Circuits
      PROVE  Board!CircuitEnds(c) \cap Board!CircuitEnds(d) = {}
  <2>1. PICK t \in Sockets, u \in Uids : d # None /\ connections[t][u] = d
    BY CircuitsAre
  <2>2. /\ connections[d.client][d.clientUid] = d
        /\ connections[d.server][d.serverUid] = d
    BY <2>1 DEF RegistryInv, ConnectionsPaired
  <2> QED
    BY <1>3, <2>1, <2>2 DEF Board!CircuitEnds
<1>8. c.clientUid # c.serverUid
  <2>1. c.clientUid \in Int /\ c.serverUid \in Int
    BY <1>4, UidsType
  <2>2. c.clientUid > 0 /\ c.serverUid < 0
    BY <1>3
  <2> QED
    BY <2>1, <2>2
<1>9. boundServices[n] # None /\ boundServices[n].socket = c.server
  BY <1>1, <1>2 DEF Owner
<1>10. Circuits' = Circuits \cup {c}
  BY <1>6
<1>11. Board!Join(c)
  BY <1>3, <1>7, <1>8, <1>9, <1>10 DEF Board!Join, Board!Of, Circuits
<1> QED
  BY <1>5, <1>6, <1>11

LEMMA PartRefines ==
  ASSUME RegistryInv, CloseStep
  PROVE  \E c \in Circuits : Board!Part(c)
<1>1. PICK s \in Sockets, u \in Uids :
        /\ connections[s][u] # None
        /\ connections' = Without({connections[s][u]})
        /\ UNCHANGED <<registeredSockets, relayCounter, boundServices>>
  BY DEF CloseStep
<1> DEFINE c == connections[s][u]
<1>2. TypeOK /\ ConnectionsPaired
  BY DEF RegistryInv
<1>3. c \in Circuits
  BY <1>1, CircuitsAre
<1>4. ASSUME NEW d \in Circuits'
      PROVE  d \in Circuits /\ d # c
  <2>1. PICK t \in Sockets, v \in Uids : d # None /\ connections'[t][v] = d
    BY CircuitsWillBe
  <2>2. d = connections[t][v] /\ d \notin {c}
    <3>1. connections[t][v] = d /\ <<t, v>> \notin Ends(c)
      BY <1>1, <2>1 DEF Without
    <3>2. <<t, v>> \in Ends(d)
      BY <1>2, <2>1, <3>1 DEF ConnectionsPaired
    <3> QED
      BY <3>1, <3>2
  <2> QED
    BY <2>1, <2>2, CircuitsAre
<1>5. ASSUME NEW d \in Circuits, d # c
      PROVE  d \in Circuits'
  <2>1. PICK t \in Sockets, v \in Uids : d # None /\ connections[t][v] = d
    BY CircuitsAre
  <2>2. <<t, v>> \in Ends(d)
    BY <1>2, <2>1 DEF ConnectionsPaired
  <2>3. <<t, v>> \notin Ends(c)
    BY <1>1, <1>2, <1>5, <2>1, <2>2, EndsIdentify
  <2>4. connections'[t][v] = d
    BY <1>1, <2>1, <2>3 DEF Without
  <2> QED
    BY <2>1, <2>4, CircuitsWillBe
<1>6. Circuits' = Circuits \ {c}
  BY <1>4, <1>5
<1>7. Board!Part(c)
  BY <1>1, <1>3, <1>6 DEF Board!Part, Circuits
<1> QED
  BY <1>3, <1>7

LEMMA StepRefines == RegistryInv /\ [Next]_vars => [Board!BoardNext]_(Board!board)
<1> SUFFICES ASSUME RegistryInv, [Next]_vars PROVE [Board!BoardNext]_(Board!board)
  OBVIOUS
<1>0. registeredSockets \subseteq Sockets
  BY DEF RegistryInv, TypeOK
<1>1. CASE UNCHANGED registryVars
  BY <1>1 DEF registryVars, Board!board, Held
<1>2. ASSUME NEW s \in Sockets, Connected(s) PROVE Board!BoardNext
  BY <1>2, ArriveRefines DEF Board!BoardNext
<1>3. ASSUME NEW s \in registeredSockets, Disconnected(s) PROVE Board!BoardNext
  BY <1>0, <1>3, DepartRefines DEF Board!BoardNext
<1>4. CASE BindStep
  BY <1>0, <1>4, PublishRefines DEF Board!BoardNext
<1>5. CASE LinkStep
  BY <1>5, JoinRefines DEF Board!BoardNext, Circuits
<1>6. CASE CloseStep
  BY <1>6, PartRefines DEF Board!BoardNext, Circuits
<1> QED
  BY <1>1, <1>2, <1>3, <1>4, <1>5, <1>6, RegistrySteps DEF RegistryStep

(* The relay with its suspended handlers, its two maps per circuit and its   *)
(* uid counters behaves like the switchboard: a SERVICE_BIND publishes all   *)
(* its services at once or none, circuits are made to the publisher of a     *)
(* service at unused ends, and a socket that goes takes along exactly its    *)
(* own services and circuits.                                                *)
THEOREM SwitchboardImplemented == Spec => ImplementsSwitchboard
<1>1. Init => Board!BoardInit
  BY DEF Init, Board!BoardInit, NoServices, Held
<1>2. RegistryInv /\ [Next]_vars => [Board!BoardNext]_(Board!board)
  BY StepRefines
<1> QED
  BY <1>1, <1>2, RegistryCorrect, PTL DEF Spec, ImplementsSwitchboard, Board!BoardSpec

=============================================================================
