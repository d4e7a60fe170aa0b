----------------------------- MODULE Connector -----------------------------
(***************************************************************************)
(* The connecting side of a client, with one raw and one SOCKS service: the *)
(* connections that local applications open, from the listeners            *)
(* (raw-socket-server and socks-proxy-server) through the queue of those   *)
(* that wait for a session (handle) and the loop that asks the relay for a *)
(* circuit (client-service-handler) to the two pumps that carry the        *)
(* streams (handle-stream).                                                *)
(*                                                                         *)
(* A circuit is a pair of transform streams between the application's TCP  *)
(* connection and the pumps.  At each end of a stream somebody holds its   *)
(* lock while working: a pump on the relay's side, a pipe on the           *)
(* application's.  close() on a stream that is locked at both ends does    *)
(* nothing: its error is ignored.  The model keeps who holds the stream    *)
(* towards the application, for that is the one whose end closes the       *)
(* connection.                                                             *)
(*                                                                         *)
(* The queue waits through the loss of a session for the next one; uids    *)
(* start over with each session.  The relay is external: it says what      *)
(* Relay lets it say to a client, and may go on to speak of a circuit that *)
(* the client has closed, as its messages cross.                           *)
(***************************************************************************)
EXTENDS Integers, Sequences

CONSTANTS
  Clients,       (* connections of applications to the listener            *)
  SocksClients,  (* those that speak SOCKS, and get a reply before the pipe *)
  MaxSessions,   (* bound: sessions with the relay                         *)
  MaxUid,        (* bound: circuits of a session                           *)
  MaxData        (* bound: chunks of each stream                           *)

ASSUME ConnectorAssumption ==
  /\ SocksClients \subseteq Clients
  /\ {MaxSessions, MaxUid, MaxData} \subseteq Nat

Uids == 1..MaxUid

(* A listener, its queue and its loop serve one kind of connection.          *)
Services == {"raw", "socks"}
Service(k) == IF k \in SocksClients THEN "socks" ELSE "raw"

(* What the listener knows of a connection: where it is on its way to a      *)
(* session, whether its timer expired, what it was answered, the state of    *)
(* the TCP connection and whether its pipes are attached.                    *)
Client == [place : {"away", "queued", "handed", "taken", "skipped"},
           expired : BOOLEAN,
           answer : {"none", "tunnel", "refused"},
           tcp : {"none", "open", "eof", "broken", "closed"},
           attached : BOOLEAN]

(* What a session knows of a circuit.  shut: the stream to the application   *)
(* was ended; hand: the chunk the writer is busy with, 0 for none; out: the  *)
(* outputQueue; got and streamed: the chunks that the application received   *)
(* and that the relay sent; pending: chunks of the application on their way  *)
(* to the reader; told: the SERVICE_CLOSED sent to the relay.                *)
Circuit == [uid : 0..MaxUid, session : 0..MaxSessions,
            connected : BOOLEAN, finalized : BOOLEAN, shut : BOOLEAN,
            writer : {"off", "shifting", "writing", "ended"},
            reader : {"off", "reading", "ended"},
            out : Seq(1..MaxData), hand : 0..MaxData,
            got : Seq(1..MaxData), streamed : 0..MaxData,
            pending : 0..MaxData, told : 0..2]

VARIABLES
  client,       (* per connection, a Client                                *)
  circuit,      (* per connection, a Circuit                               *)
  handle,       (* per service, the connections that no session has taken  *)
  stopped,      (* the program is stopping                                 *)
  session,      (* the number of the session                               *)
  up,           (* it is authenticated and not aborted                     *)
  localUID,     (* its next uid                                            *)
  connections,  (* its circuits by uid                                     *)
  heard         (* per uid, what the relay has said of it in this session  *)

table == <<localUID, connections>>
link == <<session, up>>
vars == <<client, circuit, handle, stopped, link, table, heard>>

TypeOK ==
  /\ client \in [Clients -> Client]
  /\ circuit \in [Clients -> Circuit]
  /\ handle \in [Services -> Seq(Clients)]
  /\ stopped \in BOOLEAN
  /\ session \in 0..MaxSessions
  /\ up \in BOOLEAN
  /\ localUID \in 1..MaxUid + 1
  /\ DOMAIN connections \subseteq Uids
  /\ \A u \in DOMAIN connections : connections[u] \in Clients
  /\ heard \in [Uids -> {"nothing", "asked", "live", "gone"}]

FirstUID == 1

NoCircuit == [uid |-> 0, session |-> 0, connected |-> FALSE, finalized |-> FALSE,
              shut |-> FALSE, writer |-> "off", reader |-> "off",
              out |-> <<>>, hand |-> 0, got |-> <<>>, streamed |-> 0,
              pending |-> 0, told |-> 0]

Init ==
  /\ client = [k \in Clients |-> [place |-> "away", expired |-> FALSE, answer |-> "none",
                                  tcp |-> "none", attached |-> FALSE]]
  /\ circuit = [k \in Clients |-> NoCircuit]
  /\ handle = [s \in Services |-> <<>>]
  /\ stopped = FALSE
  /\ session = 0 /\ up = FALSE
  /\ localUID = FirstUID
  /\ connections = [u \in {} |-> u]
  /\ heard = [u \in Uids |-> "nothing"]

-----------------------------------------------------------------------------
(* Steps the actions are made of.                                           *)

Changes(k, c) == circuit' = [circuit EXCEPT ![k] = c]

Refused(c) == [c EXCEPT !.answer = "refused", !.tcp = "closed"]

(* client.emit: a promise, so that only the first answer counts.  A raw      *)
(* connection is closed, or its pipes are attached, at once; SOCKS has to    *)
(* write its reply first.                                                    *)
Answered(k, answer) ==
  IF client[k].answer # "none" THEN client[k]
  ELSE IF k \in SocksClients THEN [client[k] EXCEPT !.answer = answer]
  ELSE IF answer = "tunnel" THEN [client[k] EXCEPT !.answer = answer, !.attached = TRUE]
  ELSE Refused(client[k])

Emit(k, answer) == client' = [client EXCEPT ![k] = Answered(k, answer)]

(* The stream towards the application is locked at both ends.                *)
Locked(k) == client[k].attached /\ circuit[k].writer \in {"shifting", "writing"}

(* done.finally: the tunnel is closed, as far as its locks let it be.        *)
Finalized(k) == [circuit[k] EXCEPT !.finalized = TRUE, !.shut = @ \/ ~Locked(k)]

Without(u) == [v \in DOMAIN connections \ {u} |-> connections[v]]

PumpsEnded(c) == c.writer = "ended" /\ c.reader = "ended"

(* The circuit of k becomes c.  If it ends the second pump, done settles     *)
(* and, unless it had before, closes the tunnel, with it the pipes and the   *)
(* connection.                                                               *)
PumpStep(k, c) ==
  IF PumpsEnded(c) /\ ~c.finalized
  THEN /\ Changes(k, [c EXCEPT !.finalized = TRUE, !.shut = TRUE])
       /\ client' = [client EXCEPT ![k].tcp = IF client[k].attached THEN "closed" ELSE @]
       /\ connections' = Without(c.uid)
  ELSE Changes(k, c) /\ UNCHANGED <<client, connections>>

Unchanged == UNCHANGED <<handle, stopped, link, localUID, heard>>

-----------------------------------------------------------------------------
(* The listener.                                                            *)

Accept(k) ==
  /\ client[k].place = "away"
  /\ IF stopped
     THEN /\ client' = [client EXCEPT ![k].place = "skipped", ![k].tcp = "closed"]
          /\ UNCHANGED handle
     ELSE /\ client' = [client EXCEPT ![k].place = "queued", ![k].tcp = "open"]
          /\ handle' = [handle EXCEPT ![Service(k)] = Append(@, k)]
  /\ UNCHANGED <<circuit, stopped, link, table, heard>>

TimerArmed(k) == client[k].place = "queued" /\ ~client[k].expired

Expire(k) ==
  /\ TimerArmed(k)
  /\ client' = [client EXCEPT ![k] = [Answered(k, "refused") EXCEPT !.expired = TRUE]]
  /\ UNCHANGED <<circuit, handle, stopped, link, table, heard>>

(* The SOCKS server has the answer and writes its reply.  Then it attaches    *)
(* the pipes, or closes both the connection and the tunnel.  If the write    *)
(* fails it closes the connection and forgets the tunnel, which is not yet   *)
(* its own.                                                                  *)
Reply(k) ==
  /\ k \in SocksClients
  /\ client[k].answer # "none" /\ ~client[k].attached /\ client[k].tcp # "closed"
  /\ \/ /\ client[k].answer = "tunnel" /\ ~stopped /\ ~circuit[k].shut
        /\ client' = [client EXCEPT ![k].attached = TRUE]
        /\ UNCHANGED circuit
     \/ /\ client[k].answer = "tunnel" => stopped \/ circuit[k].shut
        /\ client' = [client EXCEPT ![k].tcp = "closed"]
        /\ circuit' = [circuit EXCEPT ![k].shut = @ \/ circuit[k].connected]
     \/ /\ client[k].tcp = "broken"
        /\ client' = [client EXCEPT ![k].tcp = "closed"]
        /\ UNCHANGED circuit
  /\ Unchanged /\ UNCHANGED connections

-----------------------------------------------------------------------------
(* The session's loop over the queue.                                       *)

Idle(s) == \A k \in Clients : Service(k) = s => client[k].place # "handed"

Take(s) ==
  /\ up /\ Idle(s)
  /\ handle[s] # <<>>
  /\ client' = [client EXCEPT ![Head(handle[s])].place = "handed"]
  /\ handle' = [handle EXCEPT ![s] = Tail(@)]
  /\ UNCHANGED <<circuit, stopped, link, table, heard>>

(* client.expired || actionSignal.aborted                                    *)
Serves(k) == ~client[k].expired /\ up

\* Mutant: generateUID does not count.
MutNextUID == localUID

NextUID == localUID + 1

(* What the loop does with the client it was given.                          *)
Serve(k) ==
  /\ client[k].place = "handed"
  /\ IF Serves(k)
     THEN /\ localUID \in Uids
          /\ client' = [client EXCEPT ![k].place = "taken"]
          /\ Changes(k, [circuit[k] EXCEPT !.uid = localUID, !.session = session])
          /\ connections' = [u \in DOMAIN connections \cup {localUID} |->
                               IF u = localUID THEN k ELSE connections[u]]
          /\ heard' = [heard EXCEPT ![localUID] = "asked"]
          /\ localUID' = NextUID
     ELSE /\ client' = [client EXCEPT ![k].place = "skipped"]
          /\ UNCHANGED <<circuit, table, heard>>
  /\ UNCHANGED <<handle, stopped, link>>

-----------------------------------------------------------------------------
(* What the relay says.                                                     *)

Says(u, before, after) ==
  /\ up
  /\ heard[u] \in before
  /\ heard' = [heard EXCEPT ![u] = after]
  /\ UNCHANGED <<handle, stopped, link, localUID>>

(* SERVICE_CONNECT with SUCCESS: onConnect answers and starts the pumps.      *)
Connected(u) ==
  /\ u \in DOMAIN connections
  /\ Says(u, {"asked"}, "live")
  /\ LET k == connections[u]
     IN /\ Emit(k, "tunnel")
        /\ Changes(k, [circuit[k] EXCEPT !.connected = TRUE, !.writer = "shifting",
                                         !.reader = "reading"])
  /\ UNCHANGED connections

\* Mutant: the circuit is closed without an answer.
MutCloseAnswer(k) == client[k]

(* done.finally answers a client whose circuit never was.                    *)
CloseAnswer(k) == IF circuit[k].connected THEN client[k] ELSE Answered(k, "refused")

Closes(u) ==
  IF u \in DOMAIN connections
  THEN LET k == connections[u]
       IN /\ client' = [client EXCEPT ![k] = CloseAnswer(k)]
          /\ Changes(k, Finalized(k))
          /\ connections' = Without(u)
  ELSE UNCHANGED <<client, circuit, connections>>

(* SERVICE_CONNECT with a failure: onError, then close.                      *)
Failed(u) == Says(u, {"asked"}, "gone") /\ Closes(u)

(* SERVICE_CLOSED, perhaps for a circuit that has not been connected.        *)
Closed(u) == Says(u, {"asked", "live"}, "gone") /\ Closes(u)

(* SERVICE_STREAM: the chunk is queued, or the relay is told that nobody is  *)
(* there.                                                                    *)
Streams(u) ==
  /\ Says(u, {"live"}, "live")
  /\ u \in DOMAIN connections =>
       /\ circuit[connections[u]].streamed < MaxData
       /\ circuit' = [circuit EXCEPT ![connections[u]].streamed = @ + 1,
                                     ![connections[u]].out = Append(@,
                                         circuit[connections[u]].streamed + 1)]
  /\ u \notin DOMAIN connections => UNCHANGED circuit
  /\ UNCHANGED <<client, connections>>

-----------------------------------------------------------------------------
(* The pumps.                                                               *)

\* Mutant: the pump takes the newest chunk first.
MutNextChunk(out) == out[Len(out)]

NextChunk(out) == Head(out)

WriterShifts(k) ==
  /\ circuit[k].writer = "shifting" /\ circuit[k].out # <<>>
  /\ Changes(k, [circuit[k] EXCEPT !.hand = NextChunk(circuit[k].out), !.out = Tail(@),
                                   !.writer = "writing"])
  /\ Unchanged /\ UNCHANGED <<client, connections>>

(* The loop goes on unless the other pump, or the session, has aborted it.    *)
WriterWrites(k) ==
  /\ circuit[k].writer = "writing" /\ ~circuit[k].shut
  /\ client[k].attached /\ client[k].tcp \in {"open", "eof"}
  /\ PumpStep(k, [circuit[k] EXCEPT !.got = Append(@, circuit[k].hand), !.hand = 0,
                    !.writer = IF circuit[k].reader = "ended" THEN "ended" ELSE "shifting"])
  /\ Unchanged

WriterEnds(c) == [c EXCEPT !.writer = "ended", !.reader = "ended"]

(* The stream was ended, or the connection broke; the relay is told.         *)
WriterFails(k) ==
  /\ circuit[k].writer = "writing"
  /\ circuit[k].shut \/ client[k].tcp \in {"broken", "closed"}
  /\ PumpStep(k, [WriterEnds(circuit[k]) EXCEPT !.hand = 0, !.told = @ + 1])
  /\ Unchanged

ReaderReads(k) ==
  /\ circuit[k].reader = "reading" /\ circuit[k].pending > 0
  /\ client[k].attached /\ client[k].tcp \in {"open", "eof"}
  /\ Changes(k, [circuit[k] EXCEPT !.pending = @ - 1])
  /\ Unchanged /\ UNCHANGED <<client, connections>>

(* read() is done, or fails.                                                 *)
ReaderDone(k) ==
  \/ circuit[k].shut
  \/ client[k].attached /\ client[k].tcp \in {"broken", "closed"}
  \/ client[k].attached /\ client[k].tcp = "eof" /\ circuit[k].pending = 0

\* Mutant: the reader ends without a word.
MutTells(c) == c

Tells(c) == [c EXCEPT !.told = @ + 1]

(* A writer that waits for the queue ends with the reader; one that is       *)
(* writing first finishes.                                                   *)
ReaderEnds(k) ==
  /\ circuit[k].reader = "reading" /\ ReaderDone(k)
  /\ PumpStep(k, [Tells(circuit[k]) EXCEPT !.reader = "ended",
                    !.writer = IF @ = "shifting" THEN "ended" ELSE @])
  /\ Unchanged

-----------------------------------------------------------------------------
(* The application.                                                         *)

AppSends(k) ==
  /\ client[k].tcp = "open"
  /\ circuit[k].pending < MaxData
  /\ Changes(k, [circuit[k] EXCEPT !.pending = @ + 1])
  /\ Unchanged /\ UNCHANGED <<client, connections>>

AppEnds(k, how) ==
  /\ client[k].tcp = "open"
  /\ client' = [client EXCEPT ![k].tcp = how]
  /\ Unchanged /\ UNCHANGED <<circuit, connections>>

-----------------------------------------------------------------------------
(* Sessions, and the end of the program.                                    *)

SessionOpens ==
  /\ ~up /\ ~stopped
  /\ session < MaxSessions
  /\ \A s \in Services : Idle(s)
  /\ session' = session + 1 /\ up' = TRUE
  /\ localUID' = FirstUID
  /\ connections' = [u \in {} |-> u]
  /\ heard' = [u \in Uids |-> "nothing"]
  /\ UNCHANGED <<client, circuit, handle, stopped>>

(* A circuit when its session is aborted.  The tunnel is closed before the    *)
(* pumps have released their locks.                                          *)
AbortedPumps(c) ==
  [c EXCEPT !.out = <<>>,
            !.writer = IF @ = "shifting" THEN "ended" ELSE @,
            !.reader = IF @ = "reading" THEN "ended" ELSE @]

AbortedCircuit(k) ==
  AbortedPumps(IF circuit[k].finalized THEN circuit[k] ELSE Finalized(k))

\* Mutant: onAbort is not registered.
MutAbortedClient(k) == client[k]

AbortedClient(k) ==
  IF circuit[k].finalized THEN client[k] ELSE CloseAnswer(k)

Aborted(k) == client[k].place = "taken" /\ circuit[k].session = session

AbortCircuits ==
  circuit' = [k \in Clients |-> IF Aborted(k) THEN AbortedCircuit(k) ELSE circuit[k]]

SessionAborts ==
  /\ up
  /\ up' = FALSE
  /\ AbortCircuits
  /\ client' = [k \in Clients |-> IF Aborted(k) THEN AbortedClient(k) ELSE client[k]]
  /\ connections' = [u \in {} |-> u]
  /\ UNCHANGED <<handle, stopped, session, localUID, heard>>

(* The queues of the listeners are aborted with the session; the SOCKS server *)
(* closes the connections it pipes.                                          *)
StoppedClient(k) ==
  IF client[k].place = "queued"
    THEN [Answered(k, "refused") EXCEPT !.expired = TRUE]
  ELSE IF k \in SocksClients /\ client[k].attached
    THEN [client[k] EXCEPT !.tcp = "closed"]
  ELSE IF up /\ Aborted(k) THEN AbortedClient(k)
  ELSE client[k]

Stop ==
  /\ ~stopped
  /\ stopped' = TRUE
  /\ up' = FALSE
  /\ IF up THEN AbortCircuits ELSE UNCHANGED circuit
  /\ client' = [k \in Clients |-> StoppedClient(k)]
  /\ handle' = [s \in Services |-> <<>>]
  /\ connections' = [u \in {} |-> u]
  /\ UNCHANGED <<session, localUID, heard>>

Done == stopped /\ (\A k \in Clients : client[k].place # "away") /\ UNCHANGED vars

Listener(k) == Expire(k) \/ Reply(k)

Pumps(k) ==
  \/ WriterShifts(k) \/ WriterWrites(k) \/ WriterFails(k)
  \/ ReaderReads(k) \/ ReaderEnds(k)

RelaySays(u) == Connected(u) \/ Failed(u) \/ Closed(u) \/ Streams(u)

Next ==
  \/ \E k \in Clients : Accept(k) \/ Listener(k) \/ Serve(k) \/ Pumps(k) \/ AppSends(k)
                          \/ AppEnds(k, "eof") \/ AppEnds(k, "broken")
  \/ \E s \in Services : Take(s)
  \/ \E u \in Uids : RelaySays(u)
  \/ SessionOpens
  \/ SessionAborts
  \/ Stop
  \/ Done

Spec == Init /\ [][Next]_vars

(* Timers expire, promises settle and an application that has not gone       *)
(* reads.  Nothing makes the relay answer, an application end or a session   *)
(* open.                                                                     *)
Fairness ==
  /\ \A s \in Services : WF_vars(Take(s))
  /\ \A k \in Clients :
       /\ WF_vars(Expire(k)) /\ WF_vars(Reply(k)) /\ WF_vars(Serve(k))
       /\ WF_vars(WriterShifts(k)) /\ WF_vars(WriterWrites(k)) /\ WF_vars(WriterFails(k))
       /\ WF_vars(ReaderReads(k)) /\ WF_vars(ReaderEnds(k))

FairSpec == Spec /\ Fairness

-----------------------------------------------------------------------------
(* Safety.                                                                   *)

(* Exactly the circuits of this session that have not ended are in its       *)
(* table, each under its own uid: a message of the relay reaches the         *)
(* application it is for, whatever earlier sessions left behind.             *)
TableMatches ==
  /\ \A u \in DOMAIN connections :
       LET k == connections[u]
       IN /\ circuit[k].uid = u /\ circuit[k].session = session
          /\ client[k].place = "taken" /\ ~circuit[k].finalized
  /\ \A k \in Clients :
       client[k].place = "taken" /\ ~circuit[k].finalized =>
         /\ up /\ circuit[k].session = session
         /\ circuit[k].uid \in DOMAIN connections
         /\ connections[circuit[k].uid] = k

(* The timer, the loop, the relay and the loss of the session race to answer *)
(* a connection.  Who expired is never asked for at the relay; who is        *)
(* answered with a tunnel is who has a circuit; and who is refused has no    *)
(* circuit that the session still keeps.                                     *)
AnswersAgree ==
  \A k \in Clients :
    /\ client[k].expired => client[k].place # "taken"
    /\ client[k].answer = "tunnel" <=> circuit[k].connected
    /\ client[k].answer = "refused" /\ client[k].place = "taken" => circuit[k].finalized
    /\ client[k].place = "taken" /\ circuit[k].finalized => client[k].answer # "none"

InHand(k) == IF circuit[k].hand = 0 THEN <<>> ELSE <<circuit[k].hand>>

(* Chunks reach the application in order and none is skipped while the       *)
(* circuit lasts; the relay is told of an end only after everything that the *)
(* application had sent before it.                                           *)
NothingCutShort ==
  \A k \in Clients :
    /\ \A i \in DOMAIN circuit[k].got : circuit[k].got[i] = i
    /\ circuit[k].writer \in {"shifting", "writing"} /\ ~circuit[k].finalized =>
         circuit[k].got \o InHand(k) \o circuit[k].out = [i \in 1..circuit[k].streamed |-> i]
    /\ circuit[k].told > 0 /\ client[k].tcp = "eof" /\ ~circuit[k].shut
         => circuit[k].pending = 0

-----------------------------------------------------------------------------
(* Liveness.                                                                 *)

(* A connection that was accepted is answered, unless the relay keeps its    *)
(* session waiting, or the session was lost in the moment between its        *)
(* leaving the queue and its being asked for (client-service-handler.ts:66). *)
EveryoneAnswered ==
  \A k \in Clients :
    []<>(\/ client[k].place \in {"away", "skipped"}
         \/ client[k].answer # "none"
         \/ up /\ client[k].place = "taken" /\ heard[circuit[k].uid] = "asked")

(* When the application ends its side the relay is told and the connection   *)
(* is closed, unless the relay closed the circuit or the session was lost.   *)
(* The exception is a SOCKS connection that breaks before its reply: its     *)
(* tunnel is forgotten and the circuit stays.                                *)
ApplicationEndReaches ==
  \A k \in Clients :
    up /\ circuit[k].connected /\ client[k].tcp \in {"eof", "broken"} ~>
      \/ circuit[k].told > 0 /\ client[k].tcp = "closed"
      \/ ~up
      \/ circuit[k].session # session
      \/ heard[circuit[k].uid] = "gone"
      \/ k \in SocksClients /\ ~client[k].attached /\ client[k].tcp = "closed"

(* What a tunnel of TCP promises: when the other end closes a circuit, or    *)
(* the session with the relay is lost, the application's connection does not *)
(* stay open, the program's own end aside.                                   *)
RemoteEndReaches ==
  \A k \in Clients :
    circuit[k].connected /\ circuit[k].finalized ~> client[k].tcp # "open" \/ stopped

=============================================================================
