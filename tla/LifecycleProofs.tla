--------------------------- MODULE LifecycleProofs ---------------------------
(***************************************************************************)
(* Proofs about Lifecycle: type correctness, the clients file included, and *)
(* that createTunnelRelayServer returns only when no handler runs any more. *)
(***************************************************************************)
EXTENDS Lifecycle, TLAPS

(* ReturnsLast is not inductive.  While the server waits, each handler that  *)
(* runs is one it waits for; and no step makes a handler of a socket that    *)
(* has none, for the sockets that clients hold have one.                     *)
SocketsServed == \A c \in Clients : socket[c] # NoSocket => handler[socket[c]] # "none"

WaitsForAll ==
  /\ server \in {"draining", "returned"} => Running \subseteq waitingFor
  /\ server = "returned" => waitingFor = {}

FileInv == FileTypeOK /\ events <= edits

LifecycleInv == TypeOK /\ events <= edits /\ SocketsServed /\ WaitsForAll

-----------------------------------------------------------------------------
(* The clients file.                                                         *)

FileStep ==
  \/ \E new \in Contents \cup {Missing, Broken} : Edit(new)
  \/ StartReading \/ StopReading \/ StopWatching
  \/ ReadsOn \/ ReadFails \/ Reloaded \/ Loaded \/ NextEvent
  \/ UNCHANGED fileVars

LEMMA FileKeeps ==
  ASSUME FileInv, FileStep
  PROVE  FileInv'
<1>1. MaxEdits \in Nat
  BY ClientsFileAssumption DEF ClientsFileAssumption
<1>2. CASE \E new \in Contents \cup {Missing, Broken} : Edit(new)
  <2>1. PICK new \in Contents \cup {Missing, Broken} : Edit(new)
    BY <1>2
  <2>2. events' \in {events, events + 1} /\ edits' = edits + 1 /\ edits < MaxEdits
    BY <2>1 DEF Edit, Notified
  <2>3. events' <= edits' /\ events' \in 0..MaxEdits /\ edits' \in 0..MaxEdits
    BY <1>1, <2>2 DEF FileInv, FileTypeOK
  <2>4. watchedFrom' \in 0..edits'
    BY <1>1, <2>1, <2>2 DEF FileInv, FileTypeOK, Edit
  <2>5. file' \in Contents \cup {Missing, Broken}
    BY <2>1 DEF Edit
  <2> QED
    BY <2>1, <2>3, <2>4, <2>5 DEF FileInv, FileTypeOK, Edit
<1>3. CASE StartReading \/ StopReading \/ StopWatching
  <2>1. /\ events' = 0 /\ watching' = FALSE
        /\ reading' \in {reading, "stat", "nothing"}
        /\ permissions' \in {permissions, {}} /\ content' \in {content, {}}
        /\ UNCHANGED <<file, edits, watchedFrom>>
    BY <1>3 DEF StartReading, StopReading, StopWatching
  <2>2. watching' \in BOOLEAN
    BY <2>1, Zenon
  <2>3. events' \in 0..MaxEdits /\ events' <= edits' /\ edits' \in 0..MaxEdits
    BY <1>1, <2>1 DEF FileInv, FileTypeOK
  <2> QED
    BY <2>1, <2>2, <2>3 DEF FileInv, FileTypeOK
<1>4. CASE ReadsOn \/ ReadFails
  <2>1. /\ reading' \in {"text", "parse", "nothing"}
        /\ permissions' \in {permissions, {}} /\ content' \in Contents \cup {content}
        /\ UNCHANGED <<file, edits, events, watching, watchedFrom>>
    BY <1>4 DEF ReadsOn, ReadFails
  <2> QED
    BY <2>1 DEF FileInv, FileTypeOK
<1>5. CASE Reloaded \/ Loaded
  <2>1. /\ reading' = "nothing" /\ permissions' = content
        /\ watching' \in {watching, TRUE} /\ watchedFrom' \in {watchedFrom, edits}
        /\ UNCHANGED <<file, edits, content, events>>
    BY <1>5 DEF Reloaded, Loaded, Assigned
  <2>2. watching' \in BOOLEAN
    BY <2>1, Zenon DEF FileInv, FileTypeOK
  <2>3. watchedFrom' \in 0..edits'
    BY <1>1, <2>1 DEF FileInv, FileTypeOK
  <2> QED
    BY <2>1, <2>2, <2>3 DEF FileInv, FileTypeOK
<1>6. CASE NextEvent
  <2>1. events' \in 0..MaxEdits /\ events' <= edits'
    BY <1>1, <1>6 DEF FileInv, FileTypeOK, NextEvent
  <2> QED
    BY <1>6, <2>1 DEF FileInv, FileTypeOK, NextEvent
<1>7. CASE UNCHANGED fileVars
  BY <1>7 DEF FileInv, FileTypeOK, fileVars
<1> QED
  BY <1>2, <1>3, <1>4, <1>5, <1>6, <1>7 DEF FileStep

-----------------------------------------------------------------------------
(* The processes.                                                            *)

Servers == {"down", "loading", "serving", "stopping", "draining", "returned", "threw"}
HandlerStates == {"none", "opening", "authenticating", "session"}
ClientStates == {"pausing", "waiting", "connecting", "opening", "authenticating", "session", "ended"}

(* What a step has to say of the state for it to keep its types.             *)
ProcessTypes ==
  /\ server \in Servers
  /\ handler \in [Sockets -> HandlerStates]
  /\ waitingFor \subseteq Sockets
  /\ owner \in [Clients -> Sockets \cup {NoSocket}]
  /\ client \in [Clients -> ClientStates]
  /\ socket \in [Clients -> Sockets \cup {NoSocket}]
  /\ failed \in [Clients -> 0..MaxFailed]
  /\ stopped \in [Clients -> BOOLEAN]
  /\ faults \in 0..MaxFaults

ProcessInv == ProcessTypes /\ SocketsServed /\ WaitsForAll

LEMMA Split == LifecycleInv <=> FileInv /\ ProcessInv
BY DEF LifecycleInv, TypeOK, FileInv, ProcessInv, ProcessTypes, Servers, HandlerStates, ClientStates

LEMMA Bounds == MaxFailed \in Nat /\ MaxFaults \in Nat /\ NoSocket \notin Sockets
BY LifecycleAssumption DEF LifecycleAssumption

LEMMA InitKeeps == Init => LifecycleInv
<1> SUFFICES ASSUME Init PROVE LifecycleInv
  OBVIOUS
<1>1. watching \in BOOLEAN
  BY Zenon DEF Init, FileInit
<1>2. FileInv
  BY <1>1, ClientsFileAssumption DEF ClientsFileAssumption, Init, FileInit, FileInv, FileTypeOK
<1>3. stopped \in [Clients -> BOOLEAN]
  BY DEF Init
<1>4. ProcessInv
  BY <1>3, Bounds
  DEF Init, NoClient, ProcessInv, ProcessTypes, Servers, HandlerStates, ClientStates,
      SocketsServed, WaitsForAll
<1> QED
  BY <1>2, <1>4, Split

LEMMA EndsKeeps ==
  ASSUME ProcessInv, NEW w \in Sockets, NEW withError \in BOOLEAN, Ends(w, withError)
  PROVE  ProcessInv'
<1>1. /\ handler' = [handler EXCEPT ![w] = "none"]
      /\ owner' = OwnerWithout(w)
      /\ socket' = [c \in Clients |-> IF socket[c] = w THEN NoSocket ELSE socket[c]]
      /\ waitingFor' = waitingFor \ {w}
      /\ server' \in {server, "threw"}
      /\ UNCHANGED <<client, failed, stopped, faults>>
  BY DEF Ends
<1>2. ProcessTypes'
  BY <1>1 DEF ProcessInv, ProcessTypes, OwnerWithout, HandlerStates, Servers
<1>3. SocketsServed'
  BY <1>1 DEF ProcessInv, ProcessTypes, SocketsServed
<1>4. Running' = Running \ {w}
  BY <1>1 DEF ProcessInv, ProcessTypes, Running
<1>5. WaitsForAll'
  BY <1>1, <1>4 DEF ProcessInv, WaitsForAll
<1> QED
  BY <1>2, <1>3, <1>5 DEF ProcessInv

LEMMA FailsKeeps ==
  ASSUME ProcessInv, NEW c \in Clients, NEW stopping \in BOOLEAN, Fails(c, stopping),
         stopped' \in [Clients -> BOOLEAN], faults' = faults
  PROVE  ProcessInv'
<1>1. OneMore(failed[c]) \in 0..MaxFailed
  BY Bounds DEF ProcessInv, ProcessTypes, OneMore
<1>2. /\ client' \in [Clients -> ClientStates]
      /\ socket' \in [Clients -> Sockets \cup {NoSocket}]
      /\ failed' \in [Clients -> 0..MaxFailed]
  BY <1>1 DEF ProcessInv, ProcessTypes, Fails, ClientStates
<1>3. UNCHANGED <<server, handler, waitingFor, owner>>
  BY DEF Fails, relayVars
<1>4. ProcessTypes'
  BY <1>2, <1>3 DEF ProcessInv, ProcessTypes
<1>5. \A d \in Clients : socket'[d] \in {socket[d], NoSocket}
  BY DEF Fails, ProcessInv, ProcessTypes
<1>6. SocketsServed'
  BY <1>3, <1>5 DEF ProcessInv, SocketsServed
<1>7. WaitsForAll'
  BY <1>3 DEF ProcessInv, WaitsForAll, Running
<1> QED
  BY <1>4, <1>6, <1>7 DEF ProcessInv

LEMMA GoneKeeps ==
  ASSUME ProcessInv, Gone, faults' \in 0..MaxFaults
  PROVE  ProcessInv'
<1>1. UNCHANGED <<client, failed, stopped>>
  BY DEF Gone
<1>2. ProcessTypes'
  BY <1>1 DEF Gone, NoClient, ProcessInv, ProcessTypes, Servers, HandlerStates
<1> QED
  BY <1>2 DEF Gone, NoClient, ProcessInv, SocketsServed, WaitsForAll

(* Steps that leave the handlers and the sockets alone.                      *)
LEMMA QuietKeeps ==
  ASSUME ProcessInv, UNCHANGED <<handler, waitingFor, socket>>, ProcessTypes',
         server' \notin {"draining", "returned"} \/ server' = server
  PROVE  ProcessInv'
BY DEF ProcessInv, SocketsServed, WaitsForAll, Running

LEMMA RelayKeeps ==
  ASSUME ProcessInv, Relay
  PROVE  ProcessInv'
<1>1. CASE Launch
  BY <1>1, QuietKeeps DEF Launch, clientVars, ProcessInv, ProcessTypes, Servers
<1>2. CASE Loading
  <2>1. server' \in {"down", "serving"} \/ server' = server
    BY <1>2 DEF Loading
  <2>2. UNCHANGED <<handler, waitingFor, owner, clientVars, faults>>
    BY <1>2 DEF Loading
  <2> QED
    BY <2>1, <2>2, QuietKeeps DEF clientVars, ProcessInv, ProcessTypes, Servers
<1>3. CASE EditFile
  BY <1>3, QuietKeeps DEF EditFile, relayVars, clientVars, ProcessInv, ProcessTypes
<1>4. CASE Stop
  BY <1>4, QuietKeeps DEF Stop, clientVars, ProcessInv, ProcessTypes, Servers
<1>5. CASE HttpDone
  <2>1. ProcessTypes'
    BY <1>5 DEF HttpDone, Remaining, Running, clientVars, ProcessInv, ProcessTypes, Servers
  <2>2. SocketsServed'
    BY <1>5 DEF HttpDone, clientVars, ProcessInv, SocketsServed
  <2>3. WaitsForAll'
    BY <1>5 DEF HttpDone, Remaining, Running, WaitsForAll
  <2> QED
    BY <2>1, <2>2, <2>3 DEF ProcessInv
<1>6. CASE AllSettled
  <2>1. ProcessTypes' /\ SocketsServed'
    BY <1>6 DEF AllSettled, clientVars, ProcessInv, ProcessTypes, Servers, SocketsServed
  <2>2. WaitsForAll'
    BY <1>6 DEF AllSettled, Running, ProcessInv, WaitsForAll
  <2> QED
    BY <2>1, <2>2 DEF ProcessInv
<1>7. CASE Exit
  BY <1>7, GoneKeeps DEF Exit, ProcessInv, ProcessTypes
<1>8. CASE Crash
  <2>1. faults' \in 0..MaxFaults
    BY <1>8, Bounds DEF Crash, ProcessInv, ProcessTypes
  <2> QED
    BY <1>8, <2>1, GoneKeeps DEF Crash
<1> QED
  BY <1>1, <1>2, <1>3, <1>4, <1>5, <1>6, <1>7, <1>8 DEF Relay

LEMMA HandlerKeeps ==
  ASSUME ProcessInv, NEW w \in Sockets, Handler(w)
  PROVE  ProcessInv'
BY EndsKeeps DEF Handler, HandlerLost, HandlerAborted

(* No handler is made once the relay is stopping: the server upgrades no     *)
(* request, and a socket that opens has its handler.                         *)
LEMMA MeetsKeeps ==
  ASSUME ProcessInv, NEW c \in Clients, Meets(c)
  PROVE  ProcessInv'
<1>0. socket[c] # NoSocket => socket[c] \in Sockets /\ handler[socket[c]] # "none"
  BY DEF ProcessInv, ProcessTypes, SocketsServed
<1>1. CASE Upgrade(c)
  <2>1. PICK w \in Sockets :
          /\ handler[w] = "none"
          /\ handler' = [handler EXCEPT ![w] = "opening"]
          /\ socket' = [socket EXCEPT ![c] = w]
    BY <1>1 DEF Upgrade
  <2>2. ProcessTypes'
    BY <1>1, <2>1 DEF Upgrade, ProcessInv, ProcessTypes, HandlerStates, ClientStates
  <2>3. SocketsServed'
    BY <2>1, Bounds DEF ProcessInv, ProcessTypes, SocketsServed
  <2>4. WaitsForAll'
    BY <1>1 DEF Upgrade, WaitsForAll
  <2> QED
    BY <2>2, <2>3, <2>4 DEF ProcessInv
<1>2. ASSUME NEW new \in HandlerStates \ {"none"}, socket[c] # NoSocket,
             handler' = [handler EXCEPT ![socket[c]] = new],
             UNCHANGED <<server, waitingFor, owner, socket, failed, stopped, faults>>,
             client' \in [Clients -> ClientStates]
      PROVE  ProcessInv'
  <2>1. ProcessTypes'
    BY <1>0, <1>2 DEF ProcessInv, ProcessTypes
  <2>2. SocketsServed'
    BY <1>0, <1>2 DEF ProcessInv, ProcessTypes, SocketsServed
  <2>3. Running' = Running
    BY <1>0, <1>2 DEF ProcessInv, ProcessTypes, Running
  <2>4. WaitsForAll'
    BY <1>2, <2>3 DEF ProcessInv, WaitsForAll
  <2> QED
    BY <2>1, <2>2, <2>4 DEF ProcessInv
<1>3. CASE Open(c)
  <2>1. CASE Aborted
    BY <1>0, <1>3, <2>1, EndsKeeps DEF Open
  <2>2. CASE ~Aborted
    BY <1>2, <1>3, <2>2 DEF Open, ProcessInv, ProcessTypes, HandlerStates, ClientStates
  <2> QED
    BY <2>1, <2>2
<1>4. CASE Authenticate(c)
  <2>1. CASE MayEnter(c)
    BY <1>2, <1>4, <2>1 DEF Authenticate, clientVars, ProcessInv, ProcessTypes, HandlerStates
  <2>2. CASE ~MayEnter(c)
    BY <1>0, <1>4, <2>2, EndsKeeps DEF Authenticate
  <2> QED
    BY <2>1, <2>2
<1>5. CASE Bind(c)
  <2>1. CASE owner[c] = NoSocket
    BY <1>0, <1>5, <2>1, QuietKeeps DEF Bind, clientVars, ProcessInv, ProcessTypes
  <2>2. CASE owner[c] # NoSocket
    BY <1>0, <1>5, <2>2, EndsKeeps DEF Bind
  <2> QED
    BY <2>1, <2>2
<1> QED
  BY <1>1, <1>3, <1>4, <1>5 DEF Meets

LEMMA ClientKeeps ==
  ASSUME ProcessInv, NEW c \in Clients, Client(c)
  PROVE  ProcessInv'
<1>0. stopped[c] \in BOOLEAN /\ stopped \in [Clients -> BOOLEAN]
  BY DEF ProcessInv, ProcessTypes
<1>1. CASE ConnectFails(c)
  BY <1>0, <1>1, FailsKeeps DEF ConnectFails
<1>2. CASE SocketLost(c)
  BY <1>0, <1>2, FailsKeeps DEF SocketLost
<1>3. CASE Cut(c)
  <2>1. ProcessTypes'
    BY <1>3, Bounds DEF Cut, relayVars, ProcessInv, ProcessTypes
  <2>2. SocketsServed' /\ WaitsForAll'
    BY <1>3 DEF Cut, relayVars, ProcessInv, ProcessTypes, SocketsServed, WaitsForAll, Running
  <2> QED
    BY <2>1, <2>2 DEF ProcessInv
<1>4. CASE Enter(c)
  BY <1>4, Bounds, QuietKeeps DEF Enter, relayVars, ProcessInv, ProcessTypes, ClientStates
<1>5. CASE Ask(c)
  BY <1>5, QuietKeeps DEF Ask, relayVars, ProcessInv, ProcessTypes, ClientStates
<1>6. CASE Wait(c)
  BY <1>6, QuietKeeps DEF Wait, relayVars, ProcessInv, ProcessTypes, ClientStates
<1>7. CASE StopClient(c)
  <2>1. stopped' \in [Clients -> BOOLEAN] /\ faults' = faults
    BY <1>0, <1>7 DEF StopClient
  <2>2. CASE client[c] \in {"authenticating", "session"}
    BY <1>7, <2>1, <2>2, FailsKeeps DEF StopClient
  <2>3. CASE client[c] \notin {"authenticating", "session"}
    <3>1. /\ client' = [client EXCEPT ![c] = IF @ = "waiting" THEN "ended" ELSE @]
          /\ UNCHANGED <<fileVars, relayVars, socket, failed>>
      BY <1>7, <2>3 DEF StopClient
    <3>2. client' \in [Clients -> ClientStates]
      BY <3>1 DEF ProcessInv, ProcessTypes, ClientStates
    <3> QED
      BY <2>1, <3>1, <3>2, QuietKeeps DEF relayVars, ProcessInv, ProcessTypes
  <2> QED
    BY <2>2, <2>3
<1> QED
  BY <1>1, <1>2, <1>3, <1>4, <1>5, <1>6, <1>7 DEF Client

-----------------------------------------------------------------------------
(* All of it.                                                                *)

LEMMA StepsOfTheFile ==
  ASSUME [Next]_vars
  PROVE  FileStep
<1>1. CASE Relay
  <2>1. CASE Launch
    BY <2>1 DEF Launch, FileStep
  <2>2. CASE Loading
    BY <2>2 DEF Loading, FileStep
  <2>3. CASE EditFile
    BY <2>3 DEF EditFile, FileStep
  <2>4. CASE Stop
    BY <2>4 DEF Stop, FileStep
  <2>5. CASE HttpDone \/ AllSettled
    BY <2>5 DEF HttpDone, AllSettled, FileStep
  <2>6. CASE Exit \/ Crash
    BY <2>6 DEF Exit, Crash, Gone, FileStep
  <2> QED
    BY <1>1, <2>1, <2>2, <2>3, <2>4, <2>5, <2>6 DEF Relay
<1>2. CASE \E w \in Sockets : Handler(w)
  BY <1>2 DEF Handler, HandlerLost, HandlerAborted, Ends, FileStep
<1>3. CASE \E c \in Clients : Meets(c)
  BY <1>3 DEF Meets, Upgrade, Open, Authenticate, Bind, Ends, FileStep
<1>4. CASE \E c \in Clients : Client(c)
  BY <1>4
  DEF Client, ConnectFails, SocketLost, Cut, Enter, Ask, Wait, StopClient, Fails, FileStep
<1>5. CASE UNCHANGED vars
  BY <1>5 DEF vars, FileStep
<1> QED
  BY <1>1, <1>2, <1>3, <1>4, <1>5 DEF Next

LEMMA NextKeeps ==
  ASSUME LifecycleInv, [Next]_vars
  PROVE  LifecycleInv'
<1>1. FileInv /\ ProcessInv
  BY Split
<1>2. FileInv'
  BY <1>1, StepsOfTheFile, FileKeeps
<1>3. ASSUME UNCHANGED vars PROVE ProcessInv'
  <2>1. UNCHANGED <<server, handler, waitingFor, owner, client, socket, failed, stopped, faults>>
    BY <1>3 DEF vars, relayVars, clientVars
  <2>2. ProcessTypes'
    BY <1>1, <2>1 DEF ProcessInv, ProcessTypes
  <2> QED
    BY <1>1, <2>1, <2>2, QuietKeeps
<1>4. ProcessInv'
  <2>1. CASE Next
    BY <1>1, <2>1, RelayKeeps, HandlerKeeps, MeetsKeeps, ClientKeeps DEF Next
  <2> QED
    BY <1>3, <2>1
<1>5. LifecycleInv' <=> FileInv' /\ ProcessInv'
  BY DEF LifecycleInv, TypeOK, FileInv, ProcessInv, ProcessTypes, Servers, HandlerStates, ClientStates
<1> QED
  BY <1>2, <1>4, <1>5

(* The inductive invariant holds, for any number of clients, sockets, edits  *)
(* and faults.                                                               *)
THEOREM LifecycleCorrect == Spec => []LifecycleInv
<1>1. LifecycleInv /\ [Next]_vars => LifecycleInv'
  BY NextKeeps
<1> QED
  BY <1>1, InitKeeps, PTL DEF Spec

(* Every variable keeps its type, those of the clients file included: the    *)
(* events that are left are never more than the edits.                       *)
THEOREM TypesCorrect == Spec => []TypeOK
<1>1. LifecycleInv => TypeOK
  BY DEF LifecycleInv
<1> QED
  BY <1>1, LifecycleCorrect, PTL

(* createTunnelRelayServer returns only when no handler of a socket runs any *)
(* more, whoever comes, goes and is cut off while it stops.                  *)
THEOREM ReturnsLastCorrect == Spec => []ReturnsLast
<1>1. LifecycleInv => ReturnsLast
  BY DEF LifecycleInv, WaitsForAll, ReturnsLast
<1> QED
  BY <1>1, LifecycleCorrect, PTL

=============================================================================
