--------------------------- MODULE ConnectorProofs ---------------------------
(***************************************************************************)
(* Proofs about Connector: type correctness, that the table of a session    *)
(* matches its circuits, that each connection gets one answer, the one that *)
(* its circuit calls for, and that the streams of a circuit are in order    *)
(* and complete.                                                            *)
(***************************************************************************)
EXTENDS Connector, SequenceTheorems, TLAPS

(* Neither TableMatches nor AnswersAgree is inductive.  Of a connection by    *)
(* itself: it has a circuit only once it was taken, an answer before that     *)
(* only if it expired; its pumps run only on a circuit that was connected,    *)
(* and tell the relay only as they end.                                      *)
Ended(pump) == IF pump = "ended" THEN 1 ELSE 0

AnswerInv(c, d) ==
  /\ c.expired => c.place # "taken"
  /\ c.answer = "tunnel" <=> d.connected
  /\ c.answer = "refused" /\ c.place = "taken" => d.finalized
  /\ c.place = "taken" /\ d.finalized => c.answer # "none"
  /\ c.place \in {"away", "queued", "handed"} /\ ~c.expired => c.answer = "none"
  /\ c.place # "taken" => ~d.connected /\ ~d.finalized
  /\ c.attached => c.answer = "tunnel"

PumpInv(d) ==
  /\ d.writer # "off" \/ d.reader # "off" => d.connected
  /\ d.writer = "writing" => d.hand # 0
  /\ d.told <= Ended(d.writer) + Ended(d.reader)

Inv(c, d) == c \in Client /\ d \in Circuit /\ AnswerInv(c, d) /\ PumpInv(d)

(* The queues hold each connection that waits once, each of its own service. *)
Queues ==
  /\ handle \in [Services -> Seq(Clients)]
  /\ \A s \in Services :
       /\ \A i \in 1..Len(handle[s]) : /\ client[handle[s][i]].place = "queued"
                                       /\ Service(handle[s][i]) = s
       /\ \A i, j \in 1..Len(handle[s]) : handle[s][i] = handle[s][j] => i = j

(* The table was filled with the uids that were given out; who was asked for *)
(* is not connected.                                                         *)
Entries ==
  /\ DOMAIN connections \subseteq Uids
  /\ \A u \in DOMAIN connections :
       /\ connections[u] \in Clients
       /\ u < localUID
       /\ heard[u] = "asked" => ~circuit[connections[u]].connected

Rest ==
  /\ stopped \in BOOLEAN
  /\ session \in 0..MaxSessions
  /\ up \in BOOLEAN
  /\ localUID \in 1..MaxUid + 1
  /\ heard \in [Uids -> {"nothing", "asked", "live", "gone"}]

ConnectorInv ==
  /\ client \in [Clients -> Client]
  /\ circuit \in [Clients -> Circuit]
  /\ \A k \in Clients : Inv(client[k], circuit[k])
  /\ Rest /\ Queues /\ Entries /\ TableMatches

-----------------------------------------------------------------------------
(* One connection by itself.                                                 *)

LEMMA Bounds == MaxSessions \in Nat /\ MaxUid \in Nat /\ MaxData \in Nat
BY ConnectorAssumption DEF ConnectorAssumption

LEMMA AnsweredKeeps ==
  ASSUME NEW k, client[k] \in Client, NEW answer \in {"tunnel", "refused"},
         client[k].attached => client[k].answer = "tunnel"
  PROVE  LET c == Answered(k, answer)
         IN /\ c \in Client
            /\ c.place = client[k].place /\ c.expired = client[k].expired
            /\ c.answer = IF client[k].answer = "none" THEN answer ELSE client[k].answer
            /\ c.attached => c.answer = "tunnel"
<1>1. CASE client[k].answer # "none"
  BY <1>1 DEF Answered, Client
<1>2. CASE client[k].answer = "none" /\ k \in SocksClients
  BY <1>2 DEF Answered, Client
<1>3. CASE client[k].answer = "none" /\ k \notin SocksClients
  <2>1. CASE answer = "tunnel"
    BY <1>3, <2>1 DEF Answered, Client
  <2>2. CASE answer = "refused"
    BY <1>3, <2>2 DEF Answered, Refused, Client
  <2> QED
    BY <2>1, <2>2
<1> QED
  BY <1>1, <1>2, <1>3

(* What a circuit is, but for its table entry and its end.                   *)
SameStreams(d, e) ==
  /\ d.connected = e.connected /\ d.writer = e.writer /\ d.reader = e.reader
  /\ d.hand = e.hand /\ d.told = e.told

SameEntry(d, e) == d.uid = e.uid /\ d.session = e.session

LEMMA FinalizedKeeps ==
  ASSUME NEW k, circuit[k] \in Circuit
  PROVE  /\ Finalized(k) \in Circuit /\ Finalized(k).finalized
         /\ SameStreams(Finalized(k), circuit[k]) /\ SameEntry(Finalized(k), circuit[k])
<1> DEFINE shut == circuit[k].shut \/ ~Locked(k)
<1>1. shut \in BOOLEAN
  BY Zenon
<1>2. Finalized(k) = [circuit[k] EXCEPT !.finalized = TRUE, !.shut = shut]
  BY DEF Finalized
<1> HIDE DEF shut
<1> QED
  BY <1>1, <1>2 DEF Circuit, SameStreams, SameEntry

LEMMA CloseAnswerKeeps ==
  ASSUME NEW k, Inv(client[k], circuit[k]),
         client[k].place = "taken", ~circuit[k].finalized
  PROVE  /\ Inv(CloseAnswer(k), Finalized(k))
         /\ CloseAnswer(k).place = client[k].place
         /\ Finalized(k).finalized /\ SameEntry(Finalized(k), circuit[k])
<1> DEFINE c == CloseAnswer(k)
           d == Finalized(k)
<1>1. client[k] \in Client /\ circuit[k] \in Circuit
      /\ AnswerInv(client[k], circuit[k]) /\ PumpInv(circuit[k])
  BY DEF Inv
<1>2. d \in Circuit /\ d.finalized /\ SameStreams(d, circuit[k]) /\ SameEntry(d, circuit[k])
  BY <1>1, FinalizedKeeps
<1>3. client[k].attached => client[k].answer = "tunnel"
  BY <1>1 DEF AnswerInv
<1>4. /\ c \in Client /\ c.place = client[k].place /\ c.expired = client[k].expired
      /\ c.answer = IF circuit[k].connected THEN "tunnel" ELSE "refused"
      /\ c.attached => c.answer = "tunnel"
  <2>1. CASE circuit[k].connected
    BY <1>1, <2>1 DEF CloseAnswer, AnswerInv
  <2>2. CASE ~circuit[k].connected
    <3>1. client[k].answer = "none"
      BY <1>1, <2>2 DEF AnswerInv, Client
    <3> QED
      BY <1>1, <1>3, <2>2, <3>1, AnsweredKeeps DEF CloseAnswer
  <2> QED
    BY <2>1, <2>2
<1> HIDE DEF c, d
<1>5. AnswerInv(c, d) /\ PumpInv(d)
  BY <1>1, <1>2, <1>4 DEF AnswerInv, PumpInv, SameStreams
<1>6. Inv(c, d)
  BY <1>2, <1>4, <1>5 DEF Inv
<1> QED
  BY <1>2, <1>4, <1>6 DEF c, d

LEMMA AbortedPumpsKeep ==
  ASSUME NEW d \in Circuit, PumpInv(d)
  PROVE  LET e == AbortedPumps(d)
         IN /\ e \in Circuit /\ PumpInv(e) /\ SameEntry(e, d)
            /\ e.connected = d.connected /\ e.finalized = d.finalized
<1> DEFINE e == AbortedPumps(d)
<1>1. <<>> \in Seq(1..MaxData)
  BY EmptySeq
<1>2. e \in Circuit
  BY <1>1 DEF AbortedPumps, Circuit
<1>3. /\ e.uid = d.uid /\ e.session = d.session /\ e.connected = d.connected
      /\ e.finalized = d.finalized /\ e.told = d.told /\ e.hand = d.hand
      /\ e.writer = IF d.writer = "shifting" THEN "ended" ELSE d.writer
      /\ e.reader = IF d.reader = "reading" THEN "ended" ELSE d.reader
  BY DEF AbortedPumps, Circuit
<1>4. d.told \in 0..2
  BY DEF Circuit
<1> HIDE DEF e
<1>5. PumpInv(e)
  BY <1>3, <1>4 DEF PumpInv, Ended
<1> QED
  BY <1>2, <1>3, <1>5 DEF SameEntry, e

-----------------------------------------------------------------------------
(* Steps of one connection.                                                  *)

LEMMA QueuesKeep ==
  ASSUME ConnectorInv, UNCHANGED handle,
         \A j \in Clients : client'[j].place = client[j].place
  PROVE  Queues'
<1>1. \A s \in Services : \A i \in 1..Len(handle[s]) : handle[s][i] \in Clients
  BY ElementOfSeq DEF ConnectorInv, Queues
<1>2. \A s \in Services : \A i \in 1..Len(handle[s]) :
        client[handle[s][i]].place = "queued" /\ Service(handle[s][i]) = s
  BY DEF ConnectorInv, Queues
<1>3. \A s \in Services : \A i \in 1..Len(handle[s]) :
        client'[handle[s][i]].place = "queued" /\ Service(handle[s][i]) = s
  BY <1>1, <1>2
<1> QED
  BY <1>3 DEF ConnectorInv, Queues

(* The connection of k becomes c, its circuit d; neither is taken, finalized *)
(* or connected by that.                                                     *)
LEMMA OneKeeps ==
  ASSUME ConnectorInv, NEW k \in Clients, NEW c, NEW d, Inv(c, d),
         client' = [client EXCEPT ![k] = c], circuit' = [circuit EXCEPT ![k] = d],
         c.place = client[k].place, SameEntry(d, circuit[k]),
         d.finalized = circuit[k].finalized,
         UNCHANGED <<handle, stopped, link, table>>,
         heard' \in [Uids -> {"nothing", "asked", "live", "gone"}],
         \A u \in DOMAIN connections : heard'[u] = "asked" => heard[u] = "asked",
         d.connected # circuit[k].connected /\ circuit[k].uid \in DOMAIN connections =>
           heard'[circuit[k].uid] # "asked"
  PROVE  ConnectorInv'
<1>1. c \in Client /\ d \in Circuit
  BY DEF Inv
<1>2. client' \in [Clients -> Client] /\ circuit' \in [Clients -> Circuit]
  BY <1>1 DEF ConnectorInv
<1>3. \A j \in Clients : /\ client'[j] = IF j = k THEN c ELSE client[j]
                         /\ circuit'[j] = IF j = k THEN d ELSE circuit[j]
  BY DEF ConnectorInv
<1>4. \A j \in Clients : Inv(client'[j], circuit'[j])
  BY <1>3 DEF ConnectorInv
<1>5. UNCHANGED <<handle, stopped, session, up, localUID, connections>>
  BY DEF link, table
<1>6. \A j \in Clients :
        /\ client'[j].place = client[j].place
        /\ circuit'[j].uid = circuit[j].uid /\ circuit'[j].session = circuit[j].session
        /\ circuit'[j].finalized = circuit[j].finalized
  BY <1>3 DEF SameEntry
<1>7. Rest'
  BY <1>5 DEF ConnectorInv, Rest
<1>8. Queues'
  BY <1>5, <1>6, QueuesKeep
<1>9. Entries'
  <2>1. ASSUME NEW u \in DOMAIN connections, heard'[u] = "asked"
        PROVE  ~circuit'[connections[u]].connected
    <3>1. connections[u] \in Clients /\ circuit[connections[u]].uid = u
          /\ ~circuit[connections[u]].connected
      BY <2>1 DEF ConnectorInv, Entries, TableMatches
    <3> QED
      BY <1>3, <2>1, <3>1
  <2> QED
    BY <1>5, <2>1 DEF ConnectorInv, Entries
<1>10. TableMatches'
  BY <1>5, <1>6 DEF ConnectorInv, Entries, TableMatches
<1> QED
  BY <1>2, <1>4, <1>7, <1>8, <1>9, <1>10 DEF ConnectorInv

(* The circuit of k, which has not ended yet, is finalized and leaves the    *)
(* table.                                                                    *)
LEMMA FinalizingKeeps ==
  ASSUME ConnectorInv, NEW k \in Clients, NEW c, NEW d, Inv(c, d),
         client[k].place = "taken", ~circuit[k].finalized,
         client' = [client EXCEPT ![k] = c], circuit' = [circuit EXCEPT ![k] = d],
         c.place = client[k].place, SameEntry(d, circuit[k]), d.finalized,
         connections' = Without(circuit[k].uid),
         UNCHANGED <<handle, stopped, link, localUID>>,
         heard' \in [Uids -> {"nothing", "asked", "live", "gone"}],
         \A u \in DOMAIN connections : heard'[u] = "asked" => heard[u] = "asked"
  PROVE  ConnectorInv'
<1>1. c \in Client /\ d \in Circuit
  BY DEF Inv
<1>2. client' \in [Clients -> Client] /\ circuit' \in [Clients -> Circuit]
  BY <1>1 DEF ConnectorInv
<1>3. \A j \in Clients : /\ client'[j] = IF j = k THEN c ELSE client[j]
                         /\ circuit'[j] = IF j = k THEN d ELSE circuit[j]
  BY DEF ConnectorInv
<1>4. \A j \in Clients : Inv(client'[j], circuit'[j])
  BY <1>3 DEF ConnectorInv
<1>5. UNCHANGED <<handle, stopped, session, up, localUID>>
  BY DEF link
<1>6. \A j \in Clients :
        /\ client'[j].place = client[j].place
        /\ circuit'[j].uid = circuit[j].uid /\ circuit'[j].session = circuit[j].session
  BY <1>3 DEF SameEntry
<1>7. Rest'
  BY <1>5 DEF ConnectorInv, Rest
<1>8. Queues'
  BY <1>5, <1>6, QueuesKeep
<1>9. /\ DOMAIN connections' = DOMAIN connections \ {circuit[k].uid}
      /\ \A u \in DOMAIN connections' : connections'[u] = connections[u]
  BY DEF Without
<1>10. \A u \in DOMAIN connections' : connections[u] \in Clients \ {k}
  BY <1>9 DEF ConnectorInv, Entries, TableMatches
<1>11. Entries'
  BY <1>3, <1>5, <1>9, <1>10 DEF ConnectorInv, Entries
<1>12. TableMatches'
  <2>1. \A u \in DOMAIN connections' :
          LET j == connections'[u]
          IN /\ circuit'[j].uid = u /\ circuit'[j].session = session'
             /\ client'[j].place = "taken" /\ ~circuit'[j].finalized
    BY <1>3, <1>5, <1>9, <1>10 DEF ConnectorInv, TableMatches
  <2>2. ASSUME NEW j \in Clients, client'[j].place = "taken", ~circuit'[j].finalized
        PROVE  /\ up' /\ circuit'[j].session = session'
               /\ circuit'[j].uid \in DOMAIN connections'
               /\ connections'[circuit'[j].uid] = j
    <3>1. j # k /\ client'[j] = client[j] /\ circuit'[j] = circuit[j]
      BY <1>3, <2>2
    <3>2. /\ up /\ circuit[j].session = session /\ circuit[j].uid \in DOMAIN connections
          /\ connections[circuit[j].uid] = j
      BY <2>2, <3>1 DEF ConnectorInv, TableMatches
    <3>3. connections[circuit[k].uid] = k
      BY DEF ConnectorInv, TableMatches
    <3> QED
      BY <1>5, <1>9, <3>1, <3>2, <3>3
  <2> QED
    BY <2>1, <2>2 DEF TableMatches
<1> QED
  BY <1>2, <1>4, <1>7, <1>8, <1>11, <1>12 DEF ConnectorInv


(* What the pumps and the application change of a circuit, and what not.     *)
Updated(d, e) ==
  /\ e \in Circuit /\ SameEntry(e, d)
  /\ e.connected = d.connected /\ e.finalized = d.finalized

LEMMA UpdatedKeeps ==
  ASSUME NEW c, NEW d, Inv(c, d), NEW e, Updated(d, e), PumpInv(e)
  PROVE  Inv(c, e)
BY DEF Inv, Updated, AnswerInv

LEMMA ChangesKeeps ==
  ASSUME ConnectorInv, NEW k \in Clients, NEW e, Updated(circuit[k], e), PumpInv(e),
         Changes(k, e), Unchanged, UNCHANGED <<client, connections>>
  PROVE  ConnectorInv'
<1> DEFINE c == client[k]
<1>1. client' = [client EXCEPT ![k] = c]
  BY DEF ConnectorInv
<1>2. c.place = client[k].place
  OBVIOUS
<1>3. Inv(c, circuit[k])
  BY DEF ConnectorInv
<1> HIDE DEF c
<1>4. Inv(c, e)
  BY <1>3, UpdatedKeeps
<1>5. circuit' = [circuit EXCEPT ![k] = e] /\ SameEntry(e, circuit[k])
      /\ e.finalized = circuit[k].finalized /\ e.connected = circuit[k].connected
  BY DEF Changes, Updated
<1>6. UNCHANGED <<handle, stopped, link, table>> /\ heard' = heard
  BY DEF Unchanged, table
<1>7. heard' \in [Uids -> {"nothing", "asked", "live", "gone"}]
  BY <1>6 DEF ConnectorInv, Rest
<1> QED
  BY <1>1, <1>2, <1>4, <1>5, <1>6, <1>7, OneKeeps

LEMMA PumpStepKeeps ==
  ASSUME ConnectorInv, NEW k \in Clients, NEW e, Updated(circuit[k], e), PumpInv(e),
         circuit[k].connected, PumpStep(k, e), Unchanged
  PROVE  ConnectorInv'
<1>1. CASE ~(PumpsEnded(e) /\ ~e.finalized)
  BY <1>1, ChangesKeeps DEF PumpStep
<1>2. CASE PumpsEnded(e) /\ ~e.finalized
  <2> DEFINE t == IF client[k].attached THEN "closed" ELSE client[k].tcp
             c == [client[k] EXCEPT !.tcp = t]
             d == [e EXCEPT !.finalized = TRUE, !.shut = TRUE]
  <2>1. /\ circuit' = [circuit EXCEPT ![k] = d] /\ connections' = Without(e.uid)
        /\ client' = [client EXCEPT ![k].tcp = IF client[k].attached THEN "closed" ELSE @]
    BY <1>2 DEF PumpStep, Changes
  <2>2. client' = [client EXCEPT ![k] = c]
    BY <2>1 DEF ConnectorInv
  <2>3. client[k] \in Client /\ e \in Circuit /\ AnswerInv(client[k], circuit[k])
    BY DEF ConnectorInv, Inv, Updated
  <2>4. c \in Client /\ c.place = client[k].place /\ c.expired = client[k].expired
        /\ c.answer = client[k].answer /\ c.attached = client[k].attached
    BY <2>3 DEF Client
  <2>5. d \in Circuit /\ d.finalized /\ SameStreams(d, e) /\ SameEntry(d, e)
    BY <2>3 DEF Circuit, SameStreams, SameEntry
  <2> HIDE DEF c, d, t
  <2>6. client[k].place = "taken" /\ ~circuit[k].finalized /\ d.connected
        /\ SameEntry(d, circuit[k]) /\ e.uid = circuit[k].uid
    BY <1>2, <2>3, <2>5 DEF AnswerInv, Updated, SameEntry, SameStreams
  <2>7. AnswerInv(c, d)
    BY <2>3, <2>4, <2>5, <2>6 DEF AnswerInv
  <2>8. PumpInv(d)
    BY <2>5 DEF PumpInv, SameStreams
  <2>9. Inv(c, d)
    BY <2>4, <2>5, <2>7, <2>8 DEF Inv
  <2>10. UNCHANGED <<handle, stopped, link, localUID>> /\ heard' = heard
    BY DEF Unchanged
  <2>11. heard' \in [Uids -> {"nothing", "asked", "live", "gone"}]
    BY <2>10 DEF ConnectorInv, Rest
  <2> QED
    BY <2>1, <2>2, <2>4, <2>5, <2>6, <2>9, <2>10, <2>11, FinalizingKeeps
<1> QED
  BY <1>1, <1>2

-----------------------------------------------------------------------------
(* The pumps.                                                                *)

LEMMA WriterShiftsKeeps ==
  ASSUME ConnectorInv, NEW k \in Clients, WriterShifts(k)
  PROVE  ConnectorInv'
<1> DEFINE d == circuit[k]
           h == Head(d.out)
           t == Tail(d.out)
           e == [d EXCEPT !.hand = h, !.out = t, !.writer = "writing"]
<1>1. d \in Circuit /\ PumpInv(d)
  BY DEF ConnectorInv, Inv
<1>2. d.out \in Seq(1..MaxData) /\ d.out # <<>> /\ d.writer = "shifting"
  BY <1>1 DEF WriterShifts, Circuit
<1>3. h \in 1..MaxData /\ t \in Seq(1..MaxData)
  BY <1>2, HeadTailProperties
<1>4. Changes(k, e) /\ Unchanged /\ UNCHANGED <<client, connections>>
  BY DEF WriterShifts, NextChunk
<1>5. h \in 0..MaxData /\ h # 0
  BY <1>3, Bounds
<1> HIDE DEF d, h, t
<1>6. e \in Circuit /\ e.uid = d.uid /\ e.session = d.session
      /\ e.connected = d.connected /\ e.finalized = d.finalized
      /\ e.writer = "writing" /\ e.reader = d.reader /\ e.hand = h /\ e.told = d.told
  BY <1>1, <1>3, <1>5 DEF Circuit
<1> HIDE DEF e
<1>7. Updated(d, e) /\ PumpInv(e)
  BY <1>1, <1>2, <1>5, <1>6 DEF Updated, SameEntry, PumpInv, Ended
<1> QED
  BY <1>4, <1>7, ChangesKeeps DEF d

LEMMA WriterWritesKeeps ==
  ASSUME ConnectorInv, NEW k \in Clients, WriterWrites(k)
  PROVE  ConnectorInv'
<1> DEFINE d == circuit[k]
           g == Append(d.got, d.hand)
           w == IF d.reader = "ended" THEN "ended" ELSE "shifting"
           e == [d EXCEPT !.got = g, !.hand = 0, !.writer = w]
<1>1. d \in Circuit /\ PumpInv(d) /\ d.writer = "writing"
  BY DEF ConnectorInv, Inv, WriterWrites
<1>2. d.connected /\ d.hand \in 1..MaxData /\ d.got \in Seq(1..MaxData)
  BY <1>1, Bounds DEF PumpInv, Circuit
<1>3. g \in Seq(1..MaxData) /\ 0 \in 0..MaxData
  BY <1>2, AppendProperties, Bounds
<1>4. PumpStep(k, e) /\ Unchanged
  BY DEF WriterWrites
<1>5. w \in {"ended", "shifting"}
  OBVIOUS
<1> HIDE DEF d, g, w
<1>6. e \in Circuit /\ e.uid = d.uid /\ e.session = d.session
      /\ e.connected = d.connected /\ e.finalized = d.finalized
      /\ e.writer = w /\ e.reader = d.reader /\ e.hand = 0 /\ e.told = d.told
  BY <1>1, <1>3, <1>5 DEF Circuit
<1> HIDE DEF e
<1>7. e.told \in 0..2 /\ d.told \in 0..2
  BY <1>1, <1>6 DEF Circuit
<1>8. Updated(d, e) /\ PumpInv(e)
  BY <1>1, <1>2, <1>5, <1>6, <1>7 DEF Updated, SameEntry, PumpInv, Ended
<1> QED
  BY <1>2, <1>4, <1>8, PumpStepKeeps DEF d

LEMMA WriterFailsKeeps ==
  ASSUME ConnectorInv, NEW k \in Clients, WriterFails(k)
  PROVE  ConnectorInv'
<1> DEFINE d == circuit[k]
           n == d.told + 1
           e == [WriterEnds(d) EXCEPT !.hand = 0, !.told = @ + 1]
<1>1. d \in Circuit /\ PumpInv(d) /\ d.writer = "writing"
  BY DEF ConnectorInv, Inv, WriterFails
<1>2. d.connected /\ n \in 0..2 /\ 0 \in 0..MaxData /\ n <= 2
  BY <1>1, Bounds DEF PumpInv, Circuit, Ended
<1>3. PumpStep(k, e) /\ Unchanged
  BY DEF WriterFails
<1>4. e = [d EXCEPT !.writer = "ended", !.reader = "ended", !.hand = 0, !.told = n]
  BY <1>1 DEF WriterEnds, Circuit
<1> HIDE DEF d, n, e
<1>5. e \in Circuit /\ e.uid = d.uid /\ e.session = d.session
      /\ e.connected = d.connected /\ e.finalized = d.finalized
      /\ e.writer = "ended" /\ e.reader = "ended" /\ e.hand = 0 /\ e.told = n
  BY <1>1, <1>2, <1>4 DEF Circuit
<1>6. Updated(d, e) /\ PumpInv(e)
  BY <1>1, <1>2, <1>5 DEF Updated, SameEntry, PumpInv, Ended
<1> QED
  BY <1>2, <1>3, <1>6, PumpStepKeeps DEF d

LEMMA ReaderReadsKeeps ==
  ASSUME ConnectorInv, NEW k \in Clients, ReaderReads(k)
  PROVE  ConnectorInv'
<1> DEFINE d == circuit[k]
           n == d.pending - 1
           e == [d EXCEPT !.pending = n]
<1>1. d \in Circuit /\ PumpInv(d) /\ d.pending > 0
  BY DEF ConnectorInv, Inv, ReaderReads
<1>2. n \in 0..MaxData
  BY <1>1, Bounds DEF Circuit
<1>3. Changes(k, e) /\ Unchanged /\ UNCHANGED <<client, connections>>
  BY DEF ReaderReads
<1> HIDE DEF d, n
<1>4. e \in Circuit /\ SameStreams(e, d) /\ SameEntry(e, d) /\ e.finalized = d.finalized
  BY <1>1, <1>2 DEF Circuit, SameStreams, SameEntry
<1> HIDE DEF e
<1>5. Updated(d, e) /\ PumpInv(e)
  BY <1>1, <1>4 DEF Updated, PumpInv, SameStreams
<1> QED
  BY <1>3, <1>5, ChangesKeeps DEF d

LEMMA ReaderEndsKeeps ==
  ASSUME ConnectorInv, NEW k \in Clients, ReaderEnds(k)
  PROVE  ConnectorInv'
<1> DEFINE d == circuit[k]
           n == d.told + 1
           w == IF d.writer = "shifting" THEN "ended" ELSE d.writer
           e == [Tells(d) EXCEPT !.reader = "ended", !.writer = IF @ = "shifting" THEN "ended" ELSE @]
<1>1. d \in Circuit /\ PumpInv(d) /\ d.reader = "reading"
  BY DEF ConnectorInv, Inv, ReaderEnds
<1>2. d.connected /\ n \in 0..2 /\ n <= Ended(d.writer) + 1
  BY <1>1 DEF PumpInv, Circuit, Ended
<1>3. PumpStep(k, e) /\ Unchanged
  BY DEF ReaderEnds
<1>4. e = [d EXCEPT !.told = n, !.reader = "ended", !.writer = w]
  BY <1>1 DEF Tells, Circuit
<1>5. w \in {"off", "shifting", "writing", "ended"} /\ (w = "writing" => d.writer = "writing")
      /\ Ended(d.writer) <= Ended(w)
  BY <1>1 DEF Circuit, Ended
<1> HIDE DEF d, n, w, e
<1>6. e \in Circuit /\ e.uid = d.uid /\ e.session = d.session
      /\ e.connected = d.connected /\ e.finalized = d.finalized
      /\ e.writer = w /\ e.reader = "ended" /\ e.hand = d.hand /\ e.told = n
  BY <1>1, <1>2, <1>4, <1>5 DEF Circuit
<1>7. n <= Ended(w) + Ended("ended")
  BY <1>2, <1>5 DEF Ended
<1>8. Updated(d, e) /\ PumpInv(e)
  BY <1>1, <1>2, <1>5, <1>6, <1>7 DEF Updated, SameEntry, PumpInv
<1> QED
  BY <1>2, <1>3, <1>8, PumpStepKeeps DEF d


-----------------------------------------------------------------------------
(* The application and the listener.                                         *)

LEMMA ClientKeeps ==
  ASSUME ConnectorInv, NEW k \in Clients, NEW c \in Client, AnswerInv(c, circuit[k]),
         c.place = client[k].place, client' = [client EXCEPT ![k] = c],
         UNCHANGED <<circuit, handle, stopped, link, table, heard>>
  PROVE  ConnectorInv'
<1> DEFINE d == circuit[k]
<1>1. circuit' = [circuit EXCEPT ![k] = d] /\ d = circuit[k]
  BY DEF ConnectorInv
<1>2. d \in Circuit /\ PumpInv(d)
  BY DEF ConnectorInv, Inv
<1>3. SameEntry(d, circuit[k])
  BY DEF SameEntry
<1>4. heard' = heard /\ heard \in [Uids -> {"nothing", "asked", "live", "gone"}]
  BY DEF ConnectorInv, Rest
<1>5. UNCHANGED <<handle, stopped, link, table>>
  OBVIOUS
<1> HIDE DEF d
<1>6. Inv(c, d)
  BY <1>1, <1>2 DEF Inv
<1> QED
  BY <1>1, <1>3, <1>4, <1>5, <1>6, OneKeeps

LEMMA AppSendsKeeps ==
  ASSUME ConnectorInv, NEW k \in Clients, AppSends(k)
  PROVE  ConnectorInv'
<1> DEFINE d == circuit[k]
           n == d.pending + 1
           e == [d EXCEPT !.pending = n]
<1>1. d \in Circuit /\ PumpInv(d) /\ d.pending < MaxData
  BY DEF ConnectorInv, Inv, AppSends
<1>2. n \in 0..MaxData
  BY <1>1, Bounds DEF Circuit
<1>3. Changes(k, e) /\ Unchanged /\ UNCHANGED <<client, connections>>
  BY DEF AppSends
<1> HIDE DEF d, n
<1>4. e \in Circuit /\ SameStreams(e, d) /\ SameEntry(e, d) /\ e.finalized = d.finalized
  BY <1>1, <1>2 DEF Circuit, SameStreams, SameEntry
<1> HIDE DEF e
<1>5. Updated(d, e) /\ PumpInv(e)
  BY <1>1, <1>4 DEF Updated, PumpInv, SameStreams
<1> QED
  BY <1>3, <1>5, ChangesKeeps DEF d

LEMMA AppEndsKeeps ==
  ASSUME ConnectorInv, NEW k \in Clients, NEW how \in {"eof", "broken"}, AppEnds(k, how)
  PROVE  ConnectorInv'
<1> DEFINE c == [client[k] EXCEPT !.tcp = how]
<1>1. client[k] \in Client /\ AnswerInv(client[k], circuit[k])
  BY DEF ConnectorInv, Inv
<1>2. client' = [client EXCEPT ![k] = c]
  BY DEF AppEnds, ConnectorInv
<1>3. c \in Client /\ c.place = client[k].place /\ c.expired = client[k].expired
      /\ c.answer = client[k].answer /\ c.attached = client[k].attached
  BY <1>1 DEF Client
<1>4. UNCHANGED <<circuit, handle, stopped, link, table, heard>>
  BY DEF AppEnds, Unchanged, table
<1> HIDE DEF c
<1>5. AnswerInv(c, circuit[k])
  BY <1>1, <1>3 DEF AnswerInv
<1> QED
  BY <1>2, <1>3, <1>4, <1>5, ClientKeeps

LEMMA ExpireKeeps ==
  ASSUME ConnectorInv, NEW k \in Clients, Expire(k)
  PROVE  ConnectorInv'
<1> DEFINE a == Answered(k, "refused")
           c == [a EXCEPT !.expired = TRUE]
<1>1. client[k] \in Client /\ AnswerInv(client[k], circuit[k])
      /\ client[k].place = "queued" /\ ~client[k].expired
  BY DEF ConnectorInv, Inv, Expire, TimerArmed
<1>2. client' = [client EXCEPT ![k] = c]
      /\ UNCHANGED <<circuit, handle, stopped, link, table, heard>>
  BY DEF Expire
<1>3. client[k].attached => client[k].answer = "tunnel"
  BY <1>1 DEF AnswerInv
<1>4. client[k].answer = "none" /\ ~circuit[k].connected /\ ~circuit[k].finalized
  BY <1>1 DEF AnswerInv
<1>5. /\ a \in Client /\ a.place = client[k].place /\ a.answer = "refused"
      /\ a.attached => a.answer = "tunnel"
  BY <1>1, <1>3, <1>4, AnsweredKeeps
<1> HIDE DEF a
<1>6. c \in Client /\ c.place = "queued" /\ c.expired /\ c.answer = "refused" /\ ~c.attached
  BY <1>1, <1>5 DEF Client
<1> HIDE DEF c
<1>7. AnswerInv(c, circuit[k])
  BY <1>4, <1>6 DEF AnswerInv
<1> QED
  BY <1>1, <1>2, <1>6, <1>7, ClientKeeps

LEMMA ReplyKeeps ==
  ASSUME ConnectorInv, NEW k \in Clients, Reply(k)
  PROVE  ConnectorInv'
<1>1. client[k] \in Client /\ AnswerInv(client[k], circuit[k]) /\ Inv(client[k], circuit[k])
      /\ circuit[k] \in Circuit /\ PumpInv(circuit[k])
  BY DEF ConnectorInv, Inv
<1>2. UNCHANGED <<handle, stopped, link, table, heard>>
  BY DEF Reply, Unchanged, table
<1>3. CASE client[k].answer = "tunnel" /\ client' = [client EXCEPT ![k].attached = TRUE]
           /\ UNCHANGED circuit
  <2> DEFINE c == [client[k] EXCEPT !.attached = TRUE]
  <2>1. client' = [client EXCEPT ![k] = c] /\ UNCHANGED circuit
    BY <1>3 DEF ConnectorInv
  <2>2. c \in Client /\ c.place = client[k].place /\ c.expired = client[k].expired
        /\ c.answer = client[k].answer
    BY <1>1 DEF Client
  <2> HIDE DEF c
  <2>3. AnswerInv(c, circuit[k])
    BY <1>1, <1>3, <2>2 DEF AnswerInv
  <2> QED
    BY <1>2, <2>1, <2>2, <2>3, ClientKeeps
<1>4. CASE client' = [client EXCEPT ![k].tcp = "closed"]
           /\ (\/ UNCHANGED circuit
               \/ circuit' = [circuit EXCEPT ![k].shut = @ \/ circuit[k].connected])
  <2> DEFINE c == [client[k] EXCEPT !.tcp = "closed"]
             s == circuit[k].shut \/ circuit[k].connected
             d == [circuit[k] EXCEPT !.shut = s]
  <2>1. client' = [client EXCEPT ![k] = c]
    BY <1>4 DEF ConnectorInv
  <2>2. c \in Client /\ c.place = client[k].place /\ c.expired = client[k].expired
        /\ c.answer = client[k].answer /\ c.attached = client[k].attached
    BY <1>1 DEF Client
  <2>3. s \in BOOLEAN
    BY Zenon
  <2>4. circuit' = [circuit EXCEPT ![k].shut = @ \/ circuit[k].connected] =>
          circuit' = [circuit EXCEPT ![k] = d]
    BY DEF ConnectorInv
  <2> HIDE DEF c, s
  <2>5. AnswerInv(c, circuit[k])
    BY <1>1, <2>2 DEF AnswerInv
  <2>6. d \in Circuit /\ SameStreams(d, circuit[k]) /\ SameEntry(d, circuit[k])
        /\ d.finalized = circuit[k].finalized
    BY <1>1, <2>3 DEF Circuit, SameStreams, SameEntry
  <2> HIDE DEF d
  <2>7. AnswerInv(c, d) /\ PumpInv(d)
    BY <1>1, <2>5, <2>6 DEF AnswerInv, PumpInv, SameStreams
  <2>8. Inv(c, d)
    BY <2>2, <2>6, <2>7 DEF Inv
  <2>9. heard' = heard /\ heard \in [Uids -> {"nothing", "asked", "live", "gone"}]
        /\ UNCHANGED <<handle, stopped, link, table>>
    BY <1>2 DEF ConnectorInv, Rest
  <2>10. d.connected = circuit[k].connected
    BY <2>6 DEF SameStreams
  <2>11. CASE UNCHANGED circuit
    BY <1>2, <2>1, <2>2, <2>5, <2>11, ClientKeeps
  <2>12. CASE circuit' = [circuit EXCEPT ![k] = d]
    BY <2>1, <2>2, <2>6, <2>8, <2>9, <2>10, <2>12, OneKeeps
  <2> QED
    BY <1>4, <2>4, <2>11, <2>12
<1> QED
  BY <1>3, <1>4, Zenon DEF Reply

-----------------------------------------------------------------------------
(* What the relay says.                                                      *)

LEMMA SaysKeeps ==
  ASSUME ConnectorInv, NEW u \in Uids, NEW before, NEW after \in {"live", "gone"},
         Says(u, before, after)
  PROVE  /\ UNCHANGED <<handle, stopped, link, localUID>>
         /\ heard' \in [Uids -> {"nothing", "asked", "live", "gone"}]
         /\ \A v \in DOMAIN connections : heard'[v] = "asked" => heard[v] = "asked"
         /\ heard'[u] # "asked"
BY DEF Says, ConnectorInv, Rest, Entries

(* A message for a circuit that the table no longer holds.                   *)
LEMMA AsideKeeps ==
  ASSUME ConnectorInv, UNCHANGED <<client, circuit, connections>>,
         UNCHANGED <<handle, stopped, link, localUID>>,
         heard' \in [Uids -> {"nothing", "asked", "live", "gone"}],
         \A v \in DOMAIN connections : heard'[v] = "asked" => heard[v] = "asked"
  PROVE  ConnectorInv'
<1>1. UNCHANGED <<session, up>>
  BY DEF link
<1>2. Rest'
  BY <1>1 DEF ConnectorInv, Rest
<1>3. Queues'
  BY QueuesKeep
<1>4. Entries' /\ TableMatches'
  BY <1>1 DEF ConnectorInv, Entries, TableMatches
<1> QED
  BY <1>2, <1>3, <1>4 DEF ConnectorInv

LEMMA StreamsKeeps ==
  ASSUME ConnectorInv, NEW u \in Uids, Streams(u)
  PROVE  ConnectorInv'
<1>1. Says(u, {"live"}, "live") /\ UNCHANGED <<client, connections>>
  BY DEF Streams
<1>2. /\ UNCHANGED <<handle, stopped, link, localUID>>
      /\ heard' \in [Uids -> {"nothing", "asked", "live", "gone"}]
      /\ \A v \in DOMAIN connections : heard'[v] = "asked" => heard[v] = "asked"
  BY <1>1, SaysKeeps
<1>3. UNCHANGED <<handle, stopped, link, table>>
  BY <1>1, <1>2 DEF table
<1>4. CASE u \in DOMAIN connections
  <2> DEFINE k == connections[u]
             d == circuit[k]
             n == d.streamed + 1
             o == Append(d.out, n)
             e == [d EXCEPT !.streamed = n, !.out = o]
  <2>1. k \in Clients
    BY <1>4 DEF ConnectorInv, Entries
  <2>2. d.streamed < MaxData
    BY <1>4 DEF Streams
  <2>3. circuit' = [circuit EXCEPT ![k] = e]
    BY <1>4, <2>1 DEF Streams, ConnectorInv
  <2>4. d \in Circuit /\ PumpInv(d) /\ Inv(client[k], d)
    BY <2>1 DEF ConnectorInv, Inv
  <2>5. n \in 1..MaxData /\ n \in 0..MaxData
    <3>1. d.streamed \in 0..MaxData
      BY <2>4 DEF Circuit
    <3> QED
      BY <2>2, <3>1, Bounds
  <2>6. o \in Seq(1..MaxData)
    BY <2>4, <2>5, AppendProperties DEF Circuit
  <2> HIDE DEF n, o
  <2>7. e \in Circuit /\ SameStreams(e, d) /\ SameEntry(e, d) /\ e.finalized = d.finalized
    BY <2>4, <2>5, <2>6 DEF Circuit, SameStreams, SameEntry
  <2> HIDE DEF e
  <2>8. Updated(d, e) /\ PumpInv(e) /\ e.connected = d.connected
    BY <2>4, <2>7 DEF Updated, PumpInv, SameStreams
  <2> DEFINE c == client[k]
  <2>9. client' = [client EXCEPT ![k] = c] /\ c.place = client[k].place
    BY <1>1 DEF ConnectorInv
  <2>10. Inv(c, e)
    BY <2>4, <2>8, UpdatedKeeps
  <2> HIDE DEF c
  <2> QED
    BY <1>2, <1>3, <2>1, <2>3, <2>7, <2>8, <2>9, <2>10, OneKeeps
<1>5. CASE u \notin DOMAIN connections
  <2>1. UNCHANGED circuit
    BY <1>5 DEF Streams
  <2> QED
    BY <1>1, <1>2, <2>1, AsideKeeps
<1> QED
  BY <1>4, <1>5

LEMMA ConnectedKeeps ==
  ASSUME ConnectorInv, NEW u \in Uids, Connected(u)
  PROVE  ConnectorInv'
<1> DEFINE k == connections[u]
           c == Answered(k, "tunnel")
           d == circuit[k]
           e == [d EXCEPT !.connected = TRUE, !.writer = "shifting", !.reader = "reading"]
<1>1. u \in DOMAIN connections /\ Says(u, {"asked"}, "live") /\ heard[u] = "asked"
      /\ UNCHANGED connections
  BY DEF Connected, Says
<1>2. /\ UNCHANGED <<handle, stopped, link, localUID>>
      /\ heard' \in [Uids -> {"nothing", "asked", "live", "gone"}]
      /\ \A v \in DOMAIN connections : heard'[v] = "asked" => heard[v] = "asked"
      /\ heard'[u] # "asked"
  BY <1>1, SaysKeeps
<1>3. UNCHANGED <<handle, stopped, link, table>>
  BY <1>1, <1>2 DEF table
<1>4. k \in Clients /\ d.uid = u /\ client[k].place = "taken" /\ ~d.finalized /\ ~d.connected
  BY <1>1 DEF ConnectorInv, Entries, TableMatches
<1>5. client[k] \in Client /\ d \in Circuit /\ AnswerInv(client[k], d) /\ PumpInv(d)
  BY <1>4 DEF ConnectorInv, Inv
<1>6. client[k].answer = "none" /\ ~client[k].expired /\ ~client[k].attached
  BY <1>4, <1>5 DEF AnswerInv, Client
<1>7. /\ c \in Client /\ c.place = client[k].place /\ c.expired = client[k].expired
      /\ c.answer = "tunnel"
  BY <1>5, <1>6, AnsweredKeeps
<1>8. /\ client' = [client EXCEPT ![k] = c] /\ circuit' = [circuit EXCEPT ![k] = e]
  BY DEF Connected, Emit, Changes
<1>9. d.told = 0
  BY <1>4, <1>5 DEF PumpInv, Ended, Circuit
<1> HIDE DEF k, c, d
<1>10. /\ e \in Circuit /\ SameEntry(e, d) /\ e.finalized = d.finalized /\ e.connected
       /\ e.writer = "shifting" /\ e.reader = "reading" /\ e.told = 0
  BY <1>5, <1>9 DEF Circuit, SameEntry
<1> HIDE DEF e
<1>11. AnswerInv(c, e) /\ PumpInv(e)
  BY <1>4, <1>6, <1>7, <1>10 DEF AnswerInv, PumpInv, Ended
<1>12. Inv(c, e)
  BY <1>7, <1>10, <1>11 DEF Inv
<1>13. d = circuit[k]
  BY DEF d
<1> QED
  BY <1>2, <1>3, <1>4, <1>7, <1>8, <1>10, <1>12, <1>13, OneKeeps

LEMMA ClosesKeeps ==
  ASSUME ConnectorInv, NEW u \in Uids, NEW before, Says(u, before, "gone"), Closes(u)
  PROVE  ConnectorInv'
<1>1. /\ UNCHANGED <<handle, stopped, link, localUID>>
      /\ heard' \in [Uids -> {"nothing", "asked", "live", "gone"}]
      /\ \A v \in DOMAIN connections : heard'[v] = "asked" => heard[v] = "asked"
  BY SaysKeeps
<1>2. CASE u \in DOMAIN connections
  <2> DEFINE k == connections[u]
             c == CloseAnswer(k)
             d == Finalized(k)
  <2>1. k \in Clients /\ circuit[k].uid = u /\ client[k].place = "taken" /\ ~circuit[k].finalized
    BY <1>2 DEF ConnectorInv, Entries, TableMatches
  <2>2. Inv(client[k], circuit[k])
    BY <2>1 DEF ConnectorInv
  <2>3. /\ client' = [client EXCEPT ![k] = c] /\ circuit' = [circuit EXCEPT ![k] = d]
        /\ connections' = Without(circuit[k].uid)
    BY <1>2, <2>1 DEF Closes, Changes
  <2>4. Inv(c, d) /\ c.place = client[k].place /\ d.finalized /\ SameEntry(d, circuit[k])
    BY <2>1, <2>2, CloseAnswerKeeps
  <2> HIDE DEF k, c, d
  <2> QED
    BY <1>1, <2>1, <2>3, <2>4, FinalizingKeeps
<1>3. CASE u \notin DOMAIN connections
  <2>1. UNCHANGED <<client, circuit, connections>>
    BY <1>3 DEF Closes
  <2> QED
    BY <1>1, <2>1, AsideKeeps
<1> QED
  BY <1>2, <1>3

LEMMA RelaySaysKeeps ==
  ASSUME ConnectorInv, NEW u \in Uids, RelaySays(u)
  PROVE  ConnectorInv'
BY ConnectedKeeps, ClosesKeeps, StreamsKeeps DEF RelaySays, Failed, Closed


-----------------------------------------------------------------------------
(* On the way to a session.                                                  *)

LEMMA PlaceKeeps ==
  ASSUME ConnectorInv, NEW k \in Clients, NEW c, Inv(c, circuit[k]),
         client[k].place # "taken", c.place # "taken",
         client' = [client EXCEPT ![k] = c],
         UNCHANGED <<circuit, stopped, link, table, heard>>, Queues'
  PROVE  ConnectorInv'
<1>1. c \in Client
  BY DEF Inv
<1>2. client' \in [Clients -> Client]
      /\ \A j \in Clients : client'[j] = IF j = k THEN c ELSE client[j]
  BY <1>1 DEF ConnectorInv
<1>3. UNCHANGED <<circuit, stopped, session, up, localUID, connections, heard>>
  BY DEF link, table
<1>4. \A j \in Clients : Inv(client'[j], circuit'[j])
  BY <1>2, <1>3 DEF ConnectorInv
<1>5. Rest' /\ Entries'
  BY <1>3 DEF ConnectorInv, Rest, Entries
<1>6. TableMatches'
  BY <1>2, <1>3 DEF ConnectorInv, Entries, TableMatches
<1> QED
  BY <1>2, <1>3, <1>4, <1>5, <1>6 DEF ConnectorInv

LEMMA AcceptKeeps ==
  ASSUME ConnectorInv, NEW k \in Clients, Accept(k)
  PROVE  ConnectorInv'
<1> DEFINE p == IF stopped THEN "skipped" ELSE "queued"
           t == IF stopped THEN "closed" ELSE "open"
           c == [client[k] EXCEPT !.place = p, !.tcp = t]
<1>1. client[k] \in Client /\ circuit[k] \in Circuit /\ client[k].place = "away"
      /\ AnswerInv(client[k], circuit[k]) /\ PumpInv(circuit[k])
  BY DEF ConnectorInv, Inv, Accept
<1>2. client' = [client EXCEPT ![k] = c]
  BY DEF ConnectorInv, Accept
<1>3. c \in Client /\ c.place = p /\ c.expired = client[k].expired
      /\ c.answer = client[k].answer /\ c.attached = client[k].attached
  BY <1>1 DEF Client
<1>4. p \in {"skipped", "queued"}
  OBVIOUS
<1>5. UNCHANGED <<circuit, stopped, link, table, heard>>
  BY DEF Accept
<1>6. client' \in [Clients -> Client]
      /\ \A j \in Clients : client'[j] = IF j = k THEN c ELSE client[j]
  BY <1>2, <1>3 DEF ConnectorInv
<1> HIDE DEF c, t
<1>7. Inv(c, circuit[k])
  <2>1. AnswerInv(c, circuit[k])
    BY <1>1, <1>3, <1>4 DEF AnswerInv
  <2> QED
    BY <1>1, <1>3, <2>1 DEF Inv
<1>8. \A s \in Services : \A i \in 1..Len(handle[s]) :
        /\ handle[s][i] \in Clients \ {k}
        /\ client'[handle[s][i]].place = "queued" /\ Service(handle[s][i]) = s
  <2>1. \A s \in Services : \A i \in 1..Len(handle[s]) : handle[s][i] \in Clients
    BY ElementOfSeq DEF ConnectorInv, Queues
  <2> QED
    BY <1>1, <1>6, <2>1 DEF ConnectorInv, Queues
<1>9. Queues'
  <2>1. CASE stopped
    <3>1. UNCHANGED handle
      BY <2>1 DEF Accept
    <3> QED
      BY <1>8, <3>1 DEF ConnectorInv, Queues
  <2>2. CASE ~stopped
    <3> DEFINE q == Service(k)
               h == Append(handle[q], k)
    <3>1. q \in Services /\ handle' = [handle EXCEPT ![q] = h]
      BY <2>2 DEF Accept, Service, Services, ConnectorInv, Queues
    <3>2. handle[q] \in Seq(Clients)
      BY <3>1 DEF ConnectorInv, Queues
    <3>3. /\ h \in Seq(Clients) /\ Len(h) = Len(handle[q]) + 1
          /\ \A i \in 1..Len(handle[q]) : h[i] = handle[q][i]
          /\ h[Len(handle[q]) + 1] = k
      BY <3>2, AppendProperties
    <3>4. Len(handle[q]) \in Nat
      BY <3>2, LenProperties
    <3>5. client'[k].place = "queued"
      BY <1>3, <1>6, <2>2
    <3> HIDE DEF h, p
    <3>6. handle' \in [Services -> Seq(Clients)]
          /\ \A s \in Services : handle'[s] = IF s = q THEN h ELSE handle[s]
      BY <3>1, <3>3 DEF ConnectorInv, Queues
    <3>7. \A i \in 1..Len(h) : client'[h[i]].place = "queued" /\ Service(h[i]) = q
      <4>1. TAKE i \in 1..Len(h)
      <4>2. CASE i \in 1..Len(handle[q])
        BY <1>8, <3>1, <3>3, <4>2
      <4>3. CASE i = Len(handle[q]) + 1
        BY <3>3, <3>5, <4>3
      <4> QED
        BY <3>3, <3>4, <4>1, <4>2, <4>3
    <3>8. \A i, j \in 1..Len(h) : h[i] = h[j] => i = j
      <4>1. TAKE i, j \in 1..Len(h)
      <4>2. i \in 1..Len(handle[q]) \/ i = Len(handle[q]) + 1
        BY <3>3, <3>4, <4>1
      <4>3. j \in 1..Len(handle[q]) \/ j = Len(handle[q]) + 1
        BY <3>3, <3>4, <4>1
      <4>4. CASE i \in 1..Len(handle[q]) /\ j \in 1..Len(handle[q])
        <5>1. h[i] = handle[q][i] /\ h[j] = handle[q][j]
          BY <3>3, <4>4
        <5> QED
          BY <3>1, <4>4, <5>1 DEF ConnectorInv, Queues
      <4> QED
        BY <1>8, <3>1, <3>3, <4>2, <4>3, <4>4
    <3> HIDE DEF q
    <3> QED
      BY <1>8, <3>6, <3>7, <3>8 DEF ConnectorInv, Queues
  <2> QED
    BY <2>1, <2>2
<1> QED
  BY <1>1, <1>2, <1>3, <1>4, <1>5, <1>7, <1>9, PlaceKeeps

LEMMA TakeKeeps ==
  ASSUME ConnectorInv, NEW s \in Services, Take(s)
  PROVE  ConnectorInv'
<1> DEFINE k == Head(handle[s])
           t == Tail(handle[s])
           c == [client[k] EXCEPT !.place = "handed"]
<1>1. handle[s] \in Seq(Clients) /\ handle[s] # <<>>
  BY DEF ConnectorInv, Queues, Take
<1>2. /\ k \in Clients /\ k = handle[s][1] /\ t \in Seq(Clients)
      /\ Len(t) = Len(handle[s]) - 1
      /\ \A i \in 1..Len(t) : t[i] = handle[s][i + 1]
      /\ Len(handle[s]) \in Nat /\ Len(handle[s]) # 0
  BY <1>1, HeadTailProperties, LenProperties, EmptySeq
<1>3. client[k].place = "queued" /\ Service(k) = s
  BY <1>2 DEF ConnectorInv, Queues
<1>4. client[k] \in Client /\ circuit[k] \in Circuit
      /\ AnswerInv(client[k], circuit[k]) /\ PumpInv(circuit[k])
  BY <1>2 DEF ConnectorInv, Inv
<1>5. /\ client' = [client EXCEPT ![k] = c] /\ handle' = [handle EXCEPT ![s] = t]
      /\ UNCHANGED <<circuit, stopped, link, table, heard>>
  BY <1>2 DEF ConnectorInv, Take
<1> HIDE DEF k, t
<1>6. c \in Client /\ c.place = "handed" /\ c.expired = client[k].expired
      /\ c.answer = client[k].answer /\ c.attached = client[k].attached
  BY <1>4 DEF Client
<1>7. client' \in [Clients -> Client]
      /\ \A j \in Clients : client'[j] = IF j = k THEN c ELSE client[j]
  BY <1>2, <1>5, <1>6 DEF ConnectorInv
<1>8. handle' \in [Services -> Seq(Clients)]
      /\ \A q \in Services : handle'[q] = IF q = s THEN t ELSE handle[q]
  BY <1>2, <1>5 DEF ConnectorInv, Queues
<1> HIDE DEF c
<1>9. Inv(c, circuit[k])
  <2>1. AnswerInv(c, circuit[k])
    BY <1>3, <1>4, <1>6 DEF AnswerInv
  <2> QED
    BY <1>4, <1>6, <2>1 DEF Inv
<1>10. \A q \in Services : \A i \in 1..Len(handle[q]) : handle[q][i] \in Clients
  BY ElementOfSeq DEF ConnectorInv, Queues
<1>11. Queues'
  <2>1. \A i \in 1..Len(t) : i + 1 \in 1..Len(handle[s]) /\ i + 1 # 1 /\ i \in Int
    BY <1>2
  <2>2. \A i \in 1..Len(t) : t[i] \in Clients \ {k}
    BY <1>2, <1>10, <2>1 DEF ConnectorInv, Queues
  <2>3. \A i \in 1..Len(t) : client'[t[i]].place = "queued" /\ Service(t[i]) = s
    <3>1. TAKE i \in 1..Len(t)
    <3>2. t[i] = handle[s][i + 1] /\ i + 1 \in 1..Len(handle[s])
      BY <1>2, <2>1
    <3>3. client[t[i]].place = "queued" /\ Service(t[i]) = s
      BY <3>2 DEF ConnectorInv, Queues
    <3> QED
      BY <1>7, <2>2, <3>3
  <2>4. \A i, j \in 1..Len(t) : t[i] = t[j] => i = j
    <3>1. TAKE i, j \in 1..Len(t)
    <3>2. t[i] = handle[s][i + 1] /\ t[j] = handle[s][j + 1]
      BY <1>2
    <3>3. handle[s][i + 1] = handle[s][j + 1] => i + 1 = j + 1
      BY <2>1 DEF ConnectorInv, Queues
    <3> QED
      BY <2>1, <3>2, <3>3
  <2>5. ASSUME NEW q \in Services, q # s, NEW i \in 1..Len(handle[q])
        PROVE  client'[handle[q][i]].place = "queued" /\ Service(handle[q][i]) = q
    <3>1. Service(handle[q][i]) = q /\ client[handle[q][i]].place = "queued"
      BY DEF ConnectorInv, Queues
    <3>2. handle[q][i] \in Clients /\ handle[q][i] # k
      BY <1>3, <1>10, <2>5, <3>1
    <3> QED
      BY <1>7, <3>1, <3>2
  <2>6. \A q \in Services : \A i \in 1..Len(handle'[q]) :
          client'[handle'[q][i]].place = "queued" /\ Service(handle'[q][i]) = q
    BY <1>8, <2>3, <2>5
  <2>7. \A q \in Services : \A i, j \in 1..Len(handle'[q]) :
          handle'[q][i] = handle'[q][j] => i = j
    BY <1>8, <2>4 DEF ConnectorInv, Queues
  <2> QED
    BY <1>8, <2>6, <2>7 DEF Queues
<1> QED
  BY <1>2, <1>3, <1>5, <1>6, <1>9, <1>11, PlaceKeeps


(* A connection is given its circuit.                                        *)
LEMMA ServedKeeps ==
  ASSUME ConnectorInv, NEW k \in Clients, Serve(k), Serves(k)
  PROVE  ConnectorInv'
<1> DEFINE c == [client[k] EXCEPT !.place = "taken"]
           d == [circuit[k] EXCEPT !.uid = localUID, !.session = session]
<1>1. client[k] \in Client /\ circuit[k] \in Circuit /\ client[k].place = "handed"
      /\ ~client[k].expired /\ up
      /\ AnswerInv(client[k], circuit[k]) /\ PumpInv(circuit[k])
  BY DEF ConnectorInv, Inv, Serve, Serves
<1>2. /\ localUID \in Uids /\ localUID' = localUID + 1
      /\ client' = [client EXCEPT ![k] = c] /\ circuit' = [circuit EXCEPT ![k] = d]
      /\ connections' = [u \in DOMAIN connections \cup {localUID} |->
                           IF u = localUID THEN k ELSE connections[u]]
      /\ heard' = [heard EXCEPT ![localUID] = "asked"]
      /\ UNCHANGED <<handle, stopped, session, up>>
  BY DEF Serve, Changes, NextUID, ConnectorInv, link
<1>3. c \in Client /\ c.place = "taken" /\ c.expired = client[k].expired
      /\ c.answer = client[k].answer /\ c.attached = client[k].attached
  BY <1>1 DEF Client
<1>4. localUID \in 0..MaxUid /\ session \in 0..MaxSessions
  BY <1>2, Bounds DEF Uids, ConnectorInv, Rest
<1>5. d \in Circuit /\ SameStreams(d, circuit[k]) /\ d.uid = localUID
      /\ d.session = session /\ d.finalized = circuit[k].finalized
  BY <1>1, <1>4 DEF Circuit, SameStreams
<1>6. ~circuit[k].connected /\ ~circuit[k].finalized /\ client[k].answer = "none"
  BY <1>1 DEF AnswerInv
<1> HIDE DEF c, d
<1>7. Inv(c, d)
  <2>1. AnswerInv(c, d) /\ PumpInv(d)
    BY <1>1, <1>3, <1>5, <1>6 DEF AnswerInv, PumpInv, SameStreams
  <2> QED
    BY <1>3, <1>5, <2>1 DEF Inv
<1>8. /\ client' \in [Clients -> Client] /\ circuit' \in [Clients -> Circuit]
      /\ \A j \in Clients : /\ client'[j] = IF j = k THEN c ELSE client[j]
                            /\ circuit'[j] = IF j = k THEN d ELSE circuit[j]
  BY <1>2, <1>3, <1>5 DEF ConnectorInv
<1>9. \A j \in Clients : Inv(client'[j], circuit'[j])
  BY <1>7, <1>8 DEF ConnectorInv
<1>10. Rest'
  <2>1. localUID + 1 \in 1..MaxUid + 1
    BY <1>2, Bounds DEF Uids
  <2> QED
    BY <1>2, <2>1 DEF ConnectorInv, Rest
<1>11. Queues'
  <2>1. \A s \in Services : \A i \in 1..Len(handle[s]) : handle[s][i] \in Clients
    BY ElementOfSeq DEF ConnectorInv, Queues
  <2>2. ASSUME NEW s \in Services, NEW i \in 1..Len(handle[s])
        PROVE  client'[handle[s][i]].place = "queued" /\ Service(handle[s][i]) = s
    <3>1. client[handle[s][i]].place = "queued" /\ Service(handle[s][i]) = s
      BY DEF ConnectorInv, Queues
    <3> QED
      BY <1>1, <1>8, <2>1, <3>1
  <2> QED
    BY <1>2, <2>2 DEF ConnectorInv, Queues
<1>12. localUID \notin DOMAIN connections
       /\ \A u \in DOMAIN connections : connections[u] \in Clients \ {k} /\ u \in Int /\ u < localUID
  BY <1>1, <1>2 DEF ConnectorInv, Entries, TableMatches, Uids
<1>13. /\ DOMAIN connections' = DOMAIN connections \cup {localUID}
       /\ connections'[localUID] = k
       /\ \A u \in DOMAIN connections : connections'[u] = connections[u]
  BY <1>2, <1>12
<1>14. Entries'
  <2>1. ASSUME NEW u \in DOMAIN connections
        PROVE  /\ u < localUID'
               /\ heard'[u] = "asked" => ~circuit'[connections[u]].connected
    <3>1. heard'[u] = heard[u]
      BY <1>2, <1>12 DEF ConnectorInv, Rest, Entries
    <3>2. heard[u] = "asked" => ~circuit[connections[u]].connected
      BY DEF ConnectorInv, Entries
    <3>3. u < localUID + 1
      BY <1>2, <1>12 DEF Uids
    <3> QED
      BY <1>2, <1>8, <1>12, <3>1, <3>2, <3>3
  <2>2. localUID < localUID' /\ ~circuit'[k].connected
    BY <1>2, <1>5, <1>6, <1>8 DEF Uids, SameStreams
  <2>3. DOMAIN connections' \subseteq Uids /\ \A u \in DOMAIN connections' : connections'[u] \in Clients
    BY <1>2, <1>12, <1>13 DEF ConnectorInv, Entries
  <2>4. \A u \in DOMAIN connections' :
          u < localUID' /\ (heard'[u] = "asked" => ~circuit'[connections'[u]].connected)
    BY <1>13, <2>1, <2>2
  <2> QED
    BY <2>3, <2>4 DEF Entries
<1>15. TableMatches'
  <2>1. \A u \in DOMAIN connections' :
          LET j == connections'[u]
          IN /\ circuit'[j].uid = u /\ circuit'[j].session = session'
             /\ client'[j].place = "taken" /\ ~circuit'[j].finalized
    BY <1>2, <1>3, <1>5, <1>6, <1>8, <1>12, <1>13 DEF ConnectorInv, TableMatches
  <2>2. ASSUME NEW j \in Clients, client'[j].place = "taken", ~circuit'[j].finalized
        PROVE  /\ up' /\ circuit'[j].session = session'
               /\ circuit'[j].uid \in DOMAIN connections'
               /\ connections'[circuit'[j].uid] = j
    <3>1. CASE j = k
      BY <1>1, <1>2, <1>5, <1>8, <1>13, <3>1
    <3>2. CASE j # k
      BY <1>2, <1>8, <1>13, <2>2, <3>2 DEF ConnectorInv, TableMatches
    <3> QED
      BY <3>1, <3>2
  <2> QED
    BY <2>1, <2>2 DEF TableMatches
<1> QED
  BY <1>8, <1>9, <1>10, <1>11, <1>14, <1>15 DEF ConnectorInv

LEMMA ServeKeeps ==
  ASSUME ConnectorInv, NEW k \in Clients, Serve(k)
  PROVE  ConnectorInv'
<1>1. CASE Serves(k)
  BY <1>1, ServedKeeps
<1>2. CASE ~Serves(k)
  <2> DEFINE c == [client[k] EXCEPT !.place = "skipped"]
  <2>1. client[k] \in Client /\ circuit[k] \in Circuit /\ client[k].place = "handed"
        /\ AnswerInv(client[k], circuit[k]) /\ PumpInv(circuit[k])
    BY DEF ConnectorInv, Inv, Serve
  <2>2. client' = [client EXCEPT ![k] = c]
        /\ UNCHANGED <<circuit, stopped, link, table, heard>> /\ UNCHANGED handle
    BY <1>2 DEF ConnectorInv, Serve
  <2>3. c \in Client /\ c.place = "skipped" /\ c.expired = client[k].expired
        /\ c.answer = client[k].answer /\ c.attached = client[k].attached
    BY <2>1 DEF Client
  <2> HIDE DEF c
  <2>4. Inv(c, circuit[k])
    <3>1. AnswerInv(c, circuit[k])
      BY <2>1, <2>3 DEF AnswerInv
    <3> QED
      BY <2>1, <2>3, <3>1 DEF Inv
  <2>5. Queues'
    <3>1. \A s \in Services : \A i \in 1..Len(handle[s]) : handle[s][i] \in Clients
      BY ElementOfSeq DEF ConnectorInv, Queues
    <3>2. \A j \in Clients : client'[j] = IF j = k THEN c ELSE client[j]
      BY <2>2, <2>3 DEF ConnectorInv
    <3>3. ASSUME NEW s \in Services, NEW i \in 1..Len(handle[s])
          PROVE  client'[handle[s][i]].place = "queued" /\ Service(handle[s][i]) = s
      <4>1. client[handle[s][i]].place = "queued" /\ Service(handle[s][i]) = s
        BY DEF ConnectorInv, Queues
      <4> QED
        BY <2>1, <3>1, <3>2, <4>1
    <3> QED
      BY <2>2, <3>3 DEF ConnectorInv, Queues
  <2> QED
    BY <2>1, <2>2, <2>3, <2>4, <2>5, PlaceKeeps
<1> QED
  BY <1>1, <1>2

-----------------------------------------------------------------------------
(* Sessions, and the end of the program.                                     *)

LEMMA SessionOpensKeeps ==
  ASSUME ConnectorInv, SessionOpens
  PROVE  ConnectorInv'
<1>1. ~up /\ session' = session + 1 /\ session < MaxSessions /\ up' = TRUE
      /\ localUID' = 1 /\ connections' = [u \in {} |-> u]
      /\ heard' = [u \in Uids |-> "nothing"]
      /\ UNCHANGED <<client, circuit, handle, stopped>>
  BY DEF SessionOpens, FirstUID
<1>2. session' \in 0..MaxSessions /\ localUID' \in 1..MaxUid + 1
  BY <1>1, Bounds DEF ConnectorInv, Rest
<1>3. Rest'
  BY <1>1, <1>2 DEF ConnectorInv, Rest
<1>4. Queues'
  BY <1>1, QueuesKeep
<1>5. Entries'
  BY <1>1 DEF Entries
<1>6. TableMatches'
  BY <1>1 DEF ConnectorInv, TableMatches
<1> QED
  BY <1>1, <1>3, <1>4, <1>5, <1>6 DEF ConnectorInv

LEMMA AbortedKeeps ==
  ASSUME ConnectorInv, NEW k \in Clients, client[k].place = "taken"
  PROVE  /\ Inv(AbortedClient(k), AbortedCircuit(k))
         /\ AbortedClient(k).place = "taken"
         /\ AbortedCircuit(k).finalized
<1> DEFINE c == AbortedClient(k)
           f == IF circuit[k].finalized THEN circuit[k] ELSE Finalized(k)
           d == AbortedPumps(f)
<1>1. Inv(client[k], circuit[k])
  BY DEF ConnectorInv
<1>2. Inv(c, f) /\ c.place = "taken" /\ f.finalized
  <2>1. CASE circuit[k].finalized
    BY <1>1, <2>1 DEF AbortedClient
  <2>2. CASE ~circuit[k].finalized
    BY <1>1, <2>2, CloseAnswerKeeps DEF AbortedClient
  <2> QED
    BY <2>1, <2>2
<1>3. AbortedCircuit(k) = d
  BY DEF AbortedCircuit
<1> HIDE DEF c, f
<1>4. f \in Circuit /\ PumpInv(f) /\ AnswerInv(c, f) /\ c \in Client
  BY <1>2 DEF Inv
<1>5. /\ d \in Circuit /\ PumpInv(d) /\ d.connected = f.connected
      /\ d.finalized = f.finalized
  BY <1>4, AbortedPumpsKeep
<1> HIDE DEF d
<1>6. AnswerInv(c, d)
  BY <1>4, <1>5 DEF AnswerInv
<1>7. Inv(c, d)
  BY <1>4, <1>5, <1>6 DEF Inv
<1> QED
  BY <1>2, <1>3, <1>5, <1>7 DEF c

(* The session is over: whoever it had taken has ended.                      *)
LEMMA NobodyLeft ==
  ASSUME ConnectorInv,
         client' \in [Clients -> Client], circuit' \in [Clients -> Circuit],
         \A k \in Clients : /\ Inv(client'[k], circuit'[k])
                            /\ client'[k].place = client[k].place
                            /\ client[k].place = "taken" => circuit'[k].finalized,
         connections' = [u \in {} |-> u],
         Rest', Queues'
  PROVE  ConnectorInv'
<1>1. Entries'
  BY DEF Entries
<1>2. TableMatches'
  BY DEF TableMatches
<1> QED
  BY <1>1, <1>2 DEF ConnectorInv

LEMMA NobodyGoesOn ==
  ASSUME ConnectorInv, NEW k \in Clients, client[k].place = "taken", ~(up /\ Aborted(k))
  PROVE  circuit[k].finalized
BY DEF ConnectorInv, TableMatches, Aborted

LEMMA SessionAbortsKeeps ==
  ASSUME ConnectorInv, SessionAborts
  PROVE  ConnectorInv'
<1>1. /\ up /\ up' = FALSE /\ connections' = [u \in {} |-> u]
      /\ circuit' = [k \in Clients |-> IF Aborted(k) THEN AbortedCircuit(k) ELSE circuit[k]]
      /\ client' = [k \in Clients |-> IF Aborted(k) THEN AbortedClient(k) ELSE client[k]]
      /\ UNCHANGED <<handle, stopped, session, localUID, heard>>
  BY DEF SessionAborts, AbortCircuits
<1>2. ASSUME NEW k \in Clients
      PROVE  /\ Inv(client'[k], circuit'[k])
             /\ client'[k].place = client[k].place
             /\ client[k].place = "taken" => circuit'[k].finalized
  <2>1. CASE Aborted(k)
    <3>1. client[k].place = "taken"
      BY <2>1 DEF Aborted
    <3>2. client'[k] = AbortedClient(k) /\ circuit'[k] = AbortedCircuit(k)
      BY <1>1, <2>1
    <3> QED
      BY <3>1, <3>2, AbortedKeeps
  <2>2. CASE ~Aborted(k)
    <3>1. client'[k] = client[k] /\ circuit'[k] = circuit[k]
      BY <1>1, <2>2
    <3>2. client[k].place = "taken" => circuit[k].finalized
      BY <2>2, NobodyGoesOn
    <3> QED
      BY <3>1, <3>2 DEF ConnectorInv
  <2> QED
    BY <2>1, <2>2
<1>3. client' \in [Clients -> Client] /\ circuit' \in [Clients -> Circuit]
  BY <1>1, <1>2 DEF Inv
<1>4. Rest'
  BY <1>1 DEF ConnectorInv, Rest
<1>5. Queues'
  BY <1>1, <1>2, QueuesKeep
<1> QED
  BY <1>1, <1>2, <1>3, <1>4, <1>5, NobodyLeft

LEMMA StoppedKeeps ==
  ASSUME ConnectorInv, NEW k \in Clients
  PROVE  /\ Inv(StoppedClient(k), IF up /\ Aborted(k) THEN AbortedCircuit(k) ELSE circuit[k])
         /\ StoppedClient(k).place = client[k].place
<1> DEFINE d == IF up /\ Aborted(k) THEN AbortedCircuit(k) ELSE circuit[k]
           s == StoppedClient(k)
<1>1. client[k] \in Client /\ circuit[k] \in Circuit
      /\ AnswerInv(client[k], circuit[k]) /\ PumpInv(circuit[k])
  BY DEF ConnectorInv, Inv
<1>2. CASE client[k].place = "queued"
  <2> DEFINE a == Answered(k, "refused")
             c == [a EXCEPT !.expired = TRUE]
  <2>1. s = c /\ d = circuit[k]
    BY <1>2 DEF StoppedClient, Aborted
  <2>2. client[k].attached => client[k].answer = "tunnel"
    BY <1>1 DEF AnswerInv
  <2>3. ~circuit[k].connected /\ ~circuit[k].finalized /\ client[k].answer # "tunnel"
    BY <1>1, <1>2 DEF AnswerInv
  <2>4. /\ a \in Client /\ a.place = client[k].place
        /\ a.answer = IF client[k].answer = "none" THEN "refused" ELSE client[k].answer
        /\ a.attached => a.answer = "tunnel"
    BY <1>1, <2>2, AnsweredKeeps
  <2>5. a.answer = "refused"
    BY <1>1, <2>3, <2>4 DEF Client
  <2> HIDE DEF a
  <2>6. c \in Client /\ c.place = "queued" /\ c.expired /\ c.answer = "refused" /\ ~c.attached
    BY <1>2, <2>4, <2>5 DEF Client
  <2> HIDE DEF c, s, d
  <2>7. AnswerInv(s, d)
    BY <2>1, <2>3, <2>6 DEF AnswerInv
  <2>8. Inv(s, d) /\ s.place = client[k].place
    BY <1>1, <1>2, <2>1, <2>6, <2>7 DEF Inv
  <2> QED
    BY <2>8 DEF s, d
<1>3. CASE client[k].place # "queued" /\ k \in SocksClients /\ client[k].attached
  <2> DEFINE c == [client[k] EXCEPT !.tcp = "closed"]
  <2>1. s = c
    BY <1>3 DEF StoppedClient
  <2>2. c \in Client /\ c.place = client[k].place /\ c.expired = client[k].expired
        /\ c.answer = client[k].answer /\ c.attached = client[k].attached
    BY <1>1 DEF Client
  <2> HIDE DEF c
  <2>3. CASE up /\ Aborted(k)
    <3>1. client[k].place = "taken"
      BY <2>3 DEF Aborted
    <3>2. Inv(AbortedClient(k), AbortedCircuit(k)) /\ AbortedCircuit(k).finalized
      BY <3>1, AbortedKeeps
    <3>3. d = AbortedCircuit(k)
      BY <2>3
    <3>4. circuit[k].connected
      BY <1>1, <1>3 DEF AnswerInv
    <3>5. AbortedClient(k) = client[k]
      BY <3>4 DEF AbortedClient, CloseAnswer
    <3> HIDE DEF d
    <3>6. AnswerInv(client[k], d) /\ PumpInv(d) /\ d \in Circuit
      BY <3>2, <3>3, <3>5 DEF Inv
    <3>7. AnswerInv(c, d)
      BY <2>2, <3>6 DEF AnswerInv
    <3>8. Inv(s, d) /\ s.place = client[k].place
      BY <2>1, <2>2, <3>6, <3>7 DEF Inv
    <3> QED
      BY <3>8 DEF d
  <2>4. CASE ~(up /\ Aborted(k))
    <3>1. d = circuit[k]
      BY <2>4
    <3> HIDE DEF d
    <3>2. AnswerInv(c, d)
      BY <1>1, <2>2, <3>1 DEF AnswerInv
    <3>3. Inv(s, d) /\ s.place = client[k].place
      BY <1>1, <2>1, <2>2, <3>1, <3>2 DEF Inv
    <3> QED
      BY <3>3 DEF d
  <2> QED
    BY <2>3, <2>4
<1>4. CASE client[k].place # "queued" /\ ~(k \in SocksClients /\ client[k].attached)
  <2>1. CASE up /\ Aborted(k)
    <3>1. client[k].place = "taken"
      BY <2>1 DEF Aborted
    <3>2. s = AbortedClient(k) /\ d = AbortedCircuit(k)
      BY <1>4, <2>1 DEF StoppedClient
    <3> QED
      BY <3>1, <3>2, AbortedKeeps
  <2>2. CASE ~(up /\ Aborted(k))
    <3>1. s = client[k] /\ d = circuit[k]
      BY <1>4, <2>2, Zenon DEF StoppedClient
    <3>2. Inv(client[k], circuit[k])
      BY DEF ConnectorInv
    <3> QED
      BY <3>1, <3>2
  <2> QED
    BY <2>1, <2>2
<1> QED
  BY <1>2, <1>3, <1>4

LEMMA StopKeeps ==
  ASSUME ConnectorInv, Stop
  PROVE  ConnectorInv'
<1>1. /\ stopped' = TRUE /\ up' = FALSE /\ connections' = [u \in {} |-> u]
      /\ client' = [k \in Clients |-> StoppedClient(k)]
      /\ handle' = [s \in Services |-> <<>>]
      /\ UNCHANGED <<session, localUID, heard>>
  BY DEF Stop
<1>2. ASSUME NEW k \in Clients
      PROVE  circuit'[k] = IF up /\ Aborted(k) THEN AbortedCircuit(k) ELSE circuit[k]
  <2>1. CASE up
    BY <2>1 DEF Stop, AbortCircuits
  <2>2. CASE ~up
    BY <2>2 DEF Stop
  <2> QED
    BY <2>1, <2>2
<1>3. ASSUME NEW k \in Clients
      PROVE  /\ Inv(client'[k], circuit'[k])
             /\ client'[k].place = client[k].place
             /\ client[k].place = "taken" => circuit'[k].finalized
  <2>1. client'[k] = StoppedClient(k)
    BY <1>1
  <2>2. Inv(client'[k], circuit'[k]) /\ client'[k].place = client[k].place
    BY <1>2, <2>1, StoppedKeeps
  <2>3. client[k].place = "taken" => circuit'[k].finalized
    <3>1. CASE up /\ Aborted(k)
      BY <1>2, <3>1, AbortedKeeps
    <3>2. CASE ~(up /\ Aborted(k))
      BY <1>2, <3>2, NobodyGoesOn
    <3> QED
      BY <3>1, <3>2
  <2> QED
    BY <2>2, <2>3
<1>4. client' \in [Clients -> Client]
  BY <1>1, <1>3 DEF Inv
<1>5. circuit' \in [Clients -> Circuit]
  <2>1. circuit' = [k \in Clients |-> circuit'[k]]
    <3>1. CASE up
      BY <3>1 DEF Stop, AbortCircuits
    <3>2. CASE ~up
      BY <3>2 DEF Stop, ConnectorInv
    <3> QED
      BY <3>1, <3>2
  <2> QED
    BY <1>3, <2>1 DEF Inv
<1>6. Rest'
  BY <1>1 DEF ConnectorInv, Rest
<1>7. Queues'
  <2>1. <<>> \in Seq(Clients) /\ Len(<<>>) = 0
    BY EmptySeq
  <2>2. handle' \in [Services -> Seq(Clients)] /\ \A s \in Services : Len(handle'[s]) = 0
    BY <1>1, <2>1
  <2> QED
    BY <2>2 DEF Queues
<1> QED
  BY <1>1, <1>3, <1>4, <1>5, <1>6, <1>7, NobodyLeft

-----------------------------------------------------------------------------
(* The theorems.                                                             *)

LEMMA InitInv ==
  ASSUME Init
  PROVE  ConnectorInv
<1>1. <<>> \in Seq(1..MaxData) /\ <<>> \in Seq(Clients) /\ Len(<<>>) = 0
  BY EmptySeq
<1>2. NoCircuit \in Circuit
  BY <1>1, Bounds DEF NoCircuit, Circuit
<1>3. /\ NoCircuit.connected = FALSE /\ NoCircuit.finalized = FALSE
      /\ NoCircuit.writer = "off" /\ NoCircuit.reader = "off" /\ NoCircuit.told = 0
  BY DEF NoCircuit
<1> DEFINE c == [place |-> "away", expired |-> FALSE, answer |-> "none",
                 tcp |-> "none", attached |-> FALSE]
<1>4. c \in Client /\ c.place = "away" /\ c.expired = FALSE /\ c.answer = "none"
      /\ c.attached = FALSE
  BY DEF Client
<1>5. client = [k \in Clients |-> c] /\ circuit = [k \in Clients |-> NoCircuit]
      /\ handle = [s \in Services |-> <<>>] /\ connections = [u \in {} |-> u]
  BY DEF Init
<1> HIDE DEF c
<1>6. Inv(c, NoCircuit)
  BY <1>2, <1>3, <1>4 DEF Inv, AnswerInv, PumpInv, Ended
<1>7. \A k \in Clients : Inv(client[k], circuit[k])
  BY <1>5, <1>6
<1>8. client \in [Clients -> Client] /\ circuit \in [Clients -> Circuit]
  BY <1>2, <1>4, <1>5
<1>9. Rest
  <2>1. stopped \in BOOLEAN /\ up \in BOOLEAN
    BY Zenon DEF Init
  <2>2. session \in 0..MaxSessions /\ localUID \in 1..MaxUid + 1
    BY Bounds DEF Init, FirstUID
  <2>3. heard \in [Uids -> {"nothing", "asked", "live", "gone"}]
    BY DEF Init
  <2> QED
    BY <2>1, <2>2, <2>3 DEF Rest
<1>10. Queues
  BY <1>1, <1>5 DEF Queues
<1>11. Entries /\ TableMatches
  BY <1>4, <1>5 DEF Entries, TableMatches
<1> QED
  BY <1>7, <1>8, <1>9, <1>10, <1>11 DEF ConnectorInv

LEMMA StutterKeeps ==
  ASSUME ConnectorInv, UNCHANGED vars
  PROVE  ConnectorInv'
BY Zenon DEF vars, link, table, ConnectorInv, Rest, Queues, Entries, TableMatches

LEMMA NextInv ==
  ASSUME ConnectorInv, [Next]_vars
  PROVE  ConnectorInv'
<1>1. ASSUME NEW k \in Clients,
             Accept(k) \/ Listener(k) \/ Serve(k) \/ Pumps(k) \/ AppSends(k)
               \/ AppEnds(k, "eof") \/ AppEnds(k, "broken")
      PROVE  ConnectorInv'
  <2>1. CASE Accept(k) \/ Listener(k) \/ Serve(k)
    BY <2>1, AcceptKeeps, ExpireKeeps, ReplyKeeps, ServeKeeps DEF Listener
  <2>2. CASE Pumps(k)
    BY <2>2, WriterShiftsKeeps, WriterWritesKeeps, WriterFailsKeeps, ReaderReadsKeeps,
       ReaderEndsKeeps DEF Pumps
  <2>3. CASE AppSends(k)
    BY <2>3, AppSendsKeeps
  <2>4. CASE AppEnds(k, "eof") \/ AppEnds(k, "broken")
    BY <2>4, AppEndsKeeps
  <2> QED
    BY <1>1, <2>1, <2>2, <2>3, <2>4
<1>2. CASE UNCHANGED vars
  BY <1>2, StutterKeeps
<1>3. CASE \E s \in Services : Take(s)
  BY <1>3, TakeKeeps
<1>4. CASE \E u \in Uids : RelaySays(u)
  BY <1>4, RelaySaysKeeps
<1> QED
  BY <1>1, <1>2, <1>3, <1>4, SessionOpensKeeps, SessionAbortsKeeps, StopKeeps DEF Next, Done

(* The inductive invariant holds.                                            *)
THEOREM ConnectorCorrect == Spec => []ConnectorInv
BY InitInv, NextInv, PTL DEF Spec

(* The variables keep their types: in particular a circuit tells the relay   *)
(* that it is closed at most twice, once for each pump.                      *)
THEOREM TypesCorrect == Spec => []TypeOK
<1>1. ConnectorInv => TypeOK
  BY DEF ConnectorInv, Rest, Queues, Entries, TypeOK
<1> QED
  BY <1>1, ConnectorCorrect, PTL

(* Whatever sessions came before, a uid of this session stands for exactly   *)
(* one circuit, one that has not ended, and each such circuit is in the      *)
(* table: the relay's messages reach the application they are for.           *)
THEOREM TableMatchesCorrect == Spec => []TableMatches
<1>1. ConnectorInv => TableMatches
  BY DEF ConnectorInv
<1> QED
  BY <1>1, ConnectorCorrect, PTL

(* Timer, loop, relay and session race, and each connection gets the answer  *)
(* that its circuit calls for: who expired is not asked for, a tunnel is     *)
(* answered exactly to who is connected, a refusal to who has no circuit.    *)
THEOREM AnswersAgreeCorrect == Spec => []AnswersAgree
<1>1. ConnectorInv => AnswersAgree
  BY DEF ConnectorInv, Inv, AnswerInv, AnswersAgree
<1> QED
  BY <1>1, ConnectorCorrect, PTL

-----------------------------------------------------------------------------
(* s counts on from c.  A stream is numbered as it is sent, so that nothing  *)
(* was lost, repeated or reordered exactly when what a queue holds is a run. *)
Run(s, c) == \A n \in 1..Len(s) : s[n] = c + n

LEMMA EmptyRun ==
  ASSUME NEW c
  PROVE  Len(<<>>) = 0 /\ Run(<<>>, c)
<1>1. Len(<<>>) = 0
  BY EmptySeq
<1> QED
  BY <1>1 DEF Run

(* The first number is taken.                                                *)
LEMMA Shortens ==
  ASSUME NEW S, NEW s \in Seq(S), s # <<>>, NEW c \in Int, Run(s, c)
  PROVE  /\ Head(s) \in S /\ Head(s) = c + 1
         /\ Tail(s) \in Seq(S) /\ Run(Tail(s), c + 1)
         /\ Len(s) \in Nat /\ Len(Tail(s)) \in Nat /\ Len(s) = Len(Tail(s)) + 1
<1> DEFINE t == Tail(s)
<1>1. /\ Head(s) \in S /\ t \in Seq(S) /\ Len(t) = Len(s) - 1
      /\ \A n \in 1..Len(t) : t[n] = s[n + 1]
  BY HeadTailProperties
<1>2. Len(s) \in Nat \ {0}
  BY EmptySeq
<1>3. Len(t) \in Nat /\ Len(s) = Len(t) + 1
  BY <1>1, <1>2
<1>4. Head(s) = s[1]
  OBVIOUS
<1> HIDE DEF t
<1>5. Head(s) = c + 1
  BY <1>2, <1>4 DEF Run
<1>6. ASSUME NEW n \in 1..Len(t)
      PROVE  t[n] = (c + 1) + n
  <2>1. n + 1 \in 1..Len(s) /\ n \in Int
    BY <1>3
  <2>2. s[n + 1] = c + (n + 1)
    BY <2>1 DEF Run
  <2> QED
    BY <1>1, <2>1, <2>2
<1> QED
  BY <1>1, <1>2, <1>3, <1>5, <1>6 DEF Run, t

(* The next number is added.                                                 *)
LEMMA Lengthens ==
  ASSUME NEW S, NEW s \in Seq(S), NEW c \in Int, Run(s, c),
         NEW e \in S, e = c + Len(s) + 1
  PROVE  /\ Append(s, e) \in Seq(S)
         /\ Len(s) \in Nat /\ Len(Append(s, e)) = Len(s) + 1
         /\ Run(Append(s, e), c)
<1> DEFINE t == Append(s, e)
<1>1. /\ t \in Seq(S) /\ Len(t) = Len(s) + 1
      /\ \A n \in 1..Len(s) : t[n] = s[n]
      /\ t[Len(s) + 1] = e
  BY AppendProperties
<1>2. Len(s) \in Nat
  BY LenProperties
<1> HIDE DEF t
<1>3. ASSUME NEW n \in 1..Len(t)
      PROVE  t[n] = c + n
  <2>1. n \in 1..Len(s) \/ n = Len(s) + 1
    BY <1>1, <1>2
  <2>2. CASE n \in 1..Len(s)
    BY <1>1, <2>2 DEF Run
  <2>3. CASE n = Len(s) + 1
    BY <1>1, <1>2, <2>3
  <2> QED
    BY <2>1, <2>2, <2>3
<1> QED
  BY <1>1, <1>2, <1>3 DEF Run, t

(* A run goes on where another one ended.                                    *)
LEMMA Extends ==
  ASSUME NEW s \in Seq(Int), NEW t \in Seq(Int), NEW c \in Int,
         Len(s) = c, Run(s, 0), Run(t, c)
  PROVE  /\ s \o t \in Seq(Int)
         /\ Len(s \o t) = c + Len(t)
         /\ Run(s \o t, 0)
<1> DEFINE u == s \o t
<1>1. /\ u \in Seq(Int) /\ Len(u) = Len(s) + Len(t)
      /\ \A n \in 1..Len(s) + Len(t) : u[n] = IF n <= Len(s) THEN s[n] ELSE t[n - Len(s)]
  BY ConcatProperties
<1>2. Len(s) \in Nat /\ Len(t) \in Nat
  BY LenProperties
<1> HIDE DEF u
<1>3. ASSUME NEW n \in 1..Len(u)
      PROVE  u[n] = 0 + n
  <2>1. n \in 1..Len(s) + Len(t)
    BY <1>1
  <2>2. CASE n <= Len(s)
    BY <1>1, <1>2, <2>1, <2>2 DEF Run
  <2>3. CASE ~(n <= Len(s))
    <3>1. n - Len(s) \in 1..Len(t)
      BY <1>2, <2>1, <2>3
    <3>2. u[n] = c + (n - Len(s))
      BY <1>1, <2>1, <2>3, <3>1 DEF Run
    <3> QED
      BY <1>2, <2>1, <3>2
  <2> QED
    BY <2>2, <2>3
<1> QED
  BY <1>1, <1>3 DEF Run, u

(* A run that begins at 1 is determined by its length.                       *)
LEMMA RunIs ==
  ASSUME NEW s \in Seq(Int), Run(s, 0)
  PROVE  s = [i \in 1..Len(s) |-> i] /\ Len(s) \in Nat
<1>1. s \in [1..Len(s) -> Int] /\ Len(s) \in Nat
  BY LenProperties
<1>2. \A n \in 1..Len(s) : s[n] = n
  BY <1>1 DEF Run
<1> QED
  BY <1>1, <1>2

(* What was received, the number in hand (0 for none) and what waits, when   *)
(* each goes on where the one before it ended, are all there was.            *)
LEMMA AllOfIt ==
  ASSUME NEW m, NEW got \in Seq(1..m), NEW out \in Seq(1..m), NEW hand \in 0..m,
         NEW busy \in Nat, busy = IF hand = 0 THEN 0 ELSE 1,
         hand # 0 => hand = Len(got) + 1,
         Run(got, 0), Run(out, Len(got) + busy),
         NEW sent, Len(got) + busy + Len(out) = sent
  PROVE  LET all == got \o (IF hand = 0 THEN <<>> ELSE <<hand>>) \o out
         IN  all \in Seq(Int) /\ Len(all) = sent /\ Run(all, 0)
<1> DEFINE h == IF hand = 0 THEN <<>> ELSE <<hand>>
           s == got \o h
<1>1. got \in Seq(Int) /\ out \in Seq(Int) /\ h \in Seq(Int) /\ Len(got) \in Int
  <2>1. 1..m \subseteq Int
    OBVIOUS
  <2>2. got \in Seq(Int) /\ out \in Seq(Int)
    BY <2>1, SeqMonotonic
  <2>3. Len(got) \in Int
    BY LenProperties
  <2> QED
    BY <2>2, <2>3
<1>2. Len(h) = busy /\ Run(h, Len(got))
  BY DEF Run
<1> HIDE DEF h
<1>3. s \in Seq(Int) /\ Len(s) = Len(got) + Len(h) /\ Run(s, 0)
  BY <1>1, <1>2, Extends
<1> HIDE DEF s
<1>4. Len(s) = Len(got) + busy /\ Len(got) + busy \in Int
  BY <1>1, <1>2, <1>3
<1>5. s \o out \in Seq(Int) /\ Len(s \o out) = sent /\ Run(s \o out, 0)
  BY <1>1, <1>3, <1>4, Extends
<1> QED
  BY <1>5 DEF s, h

(* The streams.  NothingCutShort speaks of what lies between the relay and    *)
(* the application only while the writer of a circuit that has not ended     *)
(* runs; but chunks arrive before the writer has started and a writer that   *)
(* is busy goes on after the end.  So what lies between has to be what comes *)
(* next as long as the writer has not ended, and nothing may be missing from *)
(* it as long as the circuit has not ended.                                  *)
Busy(d) == IF d.hand = 0 THEN 0 ELSE 1

Flow(d) ==
  /\ d.writer # "writing" => d.hand = 0
  /\ d.hand # 0 => d.hand = Len(d.got) + 1
  /\ Run(d.got, 0)
  /\ d.writer # "ended" => Run(d.out, Len(d.got) + Busy(d))

Whole(d) ==
  d.writer # "ended" /\ ~d.finalized => Len(d.got) + Busy(d) + Len(d.out) = d.streamed

(* A circuit whose stream was not closed tells the relay of the end of its   *)
(* connection, and of no other.                                              *)
ToldInv(c, d) ==
  d.told > 0 /\ ~d.shut =>
    /\ c.tcp \notin {"none", "open"}
    /\ c.tcp = "eof" => d.pending = 0

Carried(c, d) == Flow(d) /\ Whole(d) /\ ToldInv(c, d)

FlowInv == \A k \in Clients : Carried(client[k], circuit[k])

(* e carries what d carries and may have ended since; so may the connection. *)
SameFlow(d, e) ==
  /\ e.out = d.out /\ e.hand = d.hand /\ e.got = d.got /\ e.streamed = d.streamed
  /\ e.pending = d.pending /\ e.told = d.told /\ e.writer = d.writer
  /\ d.finalized => e.finalized
  /\ d.shut => e.shut

Later(c, b) == b.tcp = c.tcp \/ b.tcp = "closed"

LEMMA SameCarried ==
  ASSUME NEW c, NEW d, Carried(c, d), NEW b, NEW e, SameFlow(d, e), Later(c, b)
  PROVE  Carried(b, e)
<1>1. Busy(e) = Busy(d)
  BY DEF Busy, SameFlow
<1>2. Flow(e)
  BY <1>1 DEF Carried, Flow, SameFlow
<1>3. Whole(e)
  BY <1>1 DEF Carried, Whole, SameFlow
<1>4. ToldInv(b, e)
  BY DEF Carried, ToldInv, SameFlow, Later
<1> QED
  BY <1>2, <1>3, <1>4 DEF Carried

LEMMA StreamsTyped ==
  ASSUME NEW d \in Circuit
  PROVE  /\ d.out \in Seq(1..MaxData) /\ d.got \in Seq(1..MaxData)
         /\ Len(d.out) \in Nat /\ Len(d.got) \in Nat /\ Busy(d) \in {0, 1}
         /\ d.streamed \in 0..MaxData /\ d.told \in 0..2 /\ d.hand \in 0..MaxData
         /\ d.pending \in 0..MaxData
         /\ d.writer \in {"off", "shifting", "writing", "ended"}
         /\ d.reader \in {"off", "reading", "ended"}
<1>1. d.out \in Seq(1..MaxData) /\ d.got \in Seq(1..MaxData)
  BY DEF Circuit
<1> QED
  BY <1>1, LenProperties DEF Circuit, Busy

(* A circuit that is not connected has told nothing.                         *)
LEMMA NothingTold ==
  ASSUME NEW d \in Circuit, PumpInv(d), ~d.connected
  PROVE  d.told = 0 /\ d.writer = "off"
<1>1. d.writer = "off" /\ d.reader = "off"
  BY DEF PumpInv, Circuit
<1> QED
  BY <1>1 DEF PumpInv, Ended, Circuit

-----------------------------------------------------------------------------
(* Steps of one connection.                                                  *)

LEMMA OneFlow ==
  ASSUME ConnectorInv, FlowInv, NEW k \in Clients, NEW c, NEW d, Carried(c, d),
         client' = [client EXCEPT ![k] = c], circuit' = [circuit EXCEPT ![k] = d]
  PROVE  FlowInv'
<1>1. \A j \in Clients : /\ client'[j] = IF j = k THEN c ELSE client[j]
                         /\ circuit'[j] = IF j = k THEN d ELSE circuit[j]
  BY DEF ConnectorInv
<1>2. \A j \in Clients : Carried(client'[j], circuit'[j])
  BY <1>1 DEF FlowInv
<1> QED
  BY <1>2 DEF FlowInv, Carried, Flow, Whole, ToldInv, Busy

LEMMA CircuitFlow ==
  ASSUME ConnectorInv, FlowInv, NEW k \in Clients, NEW d, Carried(client[k], d),
         Changes(k, d), UNCHANGED client
  PROVE  FlowInv'
<1> DEFINE c == client[k]
<1>1. client' = [client EXCEPT ![k] = c] /\ circuit' = [circuit EXCEPT ![k] = d]
  BY DEF ConnectorInv, Changes
<1>2. Carried(c, d)
  OBVIOUS
<1> HIDE DEF c
<1> QED
  BY <1>1, <1>2, OneFlow

LEMMA ClientFlow ==
  ASSUME ConnectorInv, FlowInv, NEW k \in Clients, NEW c, Later(client[k], c),
         client' = [client EXCEPT ![k] = c], UNCHANGED circuit
  PROVE  FlowInv'
<1> DEFINE d == circuit[k]
<1>1. circuit' = [circuit EXCEPT ![k] = d]
  BY DEF ConnectorInv
<1>2. Carried(client[k], d) /\ SameFlow(d, d)
  BY DEF FlowInv, SameFlow
<1> HIDE DEF d
<1>3. Carried(c, d)
  BY <1>2, SameCarried
<1> QED
  BY <1>1, <1>3, OneFlow

LEMMA AnsweredLater ==
  ASSUME NEW k, client[k] \in Client, NEW answer \in {"tunnel", "refused"}
  PROVE  Later(client[k], Answered(k, answer))
<1>1. CASE client[k].answer # "none"
  BY <1>1 DEF Answered, Later
<1>2. CASE client[k].answer = "none" /\ k \in SocksClients
  BY <1>2 DEF Answered, Later, Client
<1>3. CASE client[k].answer = "none" /\ k \notin SocksClients
  <2>1. CASE answer = "tunnel"
    BY <1>3, <2>1 DEF Answered, Later, Client
  <2>2. CASE answer = "refused"
    BY <1>3, <2>2 DEF Answered, Refused, Later, Client
  <2> QED
    BY <2>1, <2>2
<1> QED
  BY <1>1, <1>2, <1>3

LEMMA FinalizedFlow ==
  ASSUME NEW k, circuit[k] \in Circuit
  PROVE  SameFlow(circuit[k], Finalized(k)) /\ Finalized(k).finalized
         /\ Finalized(k) \in Circuit
<1> DEFINE shut == circuit[k].shut \/ ~Locked(k)
<1>1. shut \in BOOLEAN /\ (circuit[k].shut => shut)
  BY Zenon
<1>2. Finalized(k) = [circuit[k] EXCEPT !.finalized = TRUE, !.shut = shut]
  BY DEF Finalized
<1> HIDE DEF shut
<1> QED
  BY <1>1, <1>2 DEF Circuit, SameFlow

LEMMA PumpStepFlow ==
  ASSUME ConnectorInv, FlowInv, NEW k \in Clients, NEW e \in Circuit, Carried(client[k], e),
         PumpStep(k, e)
  PROVE  FlowInv'
<1>1. CASE ~(PumpsEnded(e) /\ ~e.finalized)
  BY <1>1, CircuitFlow DEF PumpStep
<1>2. CASE PumpsEnded(e) /\ ~e.finalized
  <2> DEFINE t == IF client[k].attached THEN "closed" ELSE client[k].tcp
             c == [client[k] EXCEPT !.tcp = t]
             d == [e EXCEPT !.finalized = TRUE, !.shut = TRUE]
  <2>1. /\ circuit' = [circuit EXCEPT ![k] = d]
        /\ client' = [client EXCEPT ![k].tcp = IF client[k].attached THEN "closed" ELSE @]
    BY <1>2 DEF PumpStep, Changes
  <2>2. client' = [client EXCEPT ![k] = c]
    BY <2>1 DEF ConnectorInv
  <2>3. client[k] \in Client
    BY DEF ConnectorInv
  <2>4. Later(client[k], c)
    BY <2>3 DEF Client, Later
  <2>5. SameFlow(e, d)
    BY DEF Circuit, SameFlow
  <2> HIDE DEF c, d
  <2>6. Carried(c, d)
    BY <2>4, <2>5, SameCarried
  <2> QED
    BY <2>1, <2>2, <2>6, OneFlow
<1> QED
  BY <1>1, <1>2

-----------------------------------------------------------------------------
(* The pumps.                                                                *)

LEMMA WriterShiftsFlow ==
  ASSUME ConnectorInv, FlowInv, NEW k \in Clients, WriterShifts(k)
  PROVE  FlowInv'
<1> DEFINE d == circuit[k]
           h == Head(d.out)
           t == Tail(d.out)
           e == [d EXCEPT !.hand = h, !.out = t, !.writer = "writing"]
<1>1. /\ d \in Circuit /\ Carried(client[k], d) /\ d.writer = "shifting" /\ d.out # <<>>
      /\ Changes(k, e) /\ UNCHANGED client
  BY DEF ConnectorInv, FlowInv, WriterShifts, NextChunk
<1>2. /\ d.out \in Seq(1..MaxData) /\ Len(d.out) \in Nat /\ Len(d.got) \in Nat
      /\ d.hand = 0 /\ Busy(d) = 0
  BY <1>1, StreamsTyped DEF Carried, Flow, Busy
<1>3. Run(d.out, Len(d.got) + Busy(d)) /\ Len(d.got) + Busy(d) \in Int
  BY <1>1, <1>2 DEF Carried, Flow
<1>4. /\ h \in 1..MaxData /\ h = Len(d.got) + Busy(d) + 1
      /\ t \in Seq(1..MaxData) /\ Run(t, Len(d.got) + Busy(d) + 1)
      /\ Len(t) \in Nat /\ Len(d.out) = Len(t) + 1
  <2>1. d.out \in Seq(1..MaxData) /\ d.out # <<>>
    BY <1>1, <1>2
  <2> HIDE DEF d
  <2> QED
    BY <1>3, <2>1, Shortens, Zenon
<1> HIDE DEF d, h, t
<1>5. h = Len(d.got) + 1 /\ h # 0 /\ h \in 0..MaxData
  BY <1>2, <1>4
<1>6. Len(d.got) + Busy(d) + 1 = Len(d.got) + 1
  BY <1>2
<1>7. /\ e.out = t /\ e.hand = h /\ e.got = d.got /\ e.streamed = d.streamed
      /\ e.told = d.told /\ e.pending = d.pending /\ e.writer = "writing"
      /\ e.finalized = d.finalized /\ e.shut = d.shut
  BY <1>1 DEF Circuit
<1> HIDE DEF e
<1>8. Busy(e) = 1
  BY <1>5, <1>7 DEF Busy
<1>9. Flow(e)
  BY <1>1, <1>4, <1>5, <1>6, <1>7, <1>8 DEF Carried, Flow
<1>10. Len(e.got) + Busy(e) + Len(e.out) = Len(d.got) + Busy(d) + Len(d.out)
  <2>1. Len(d.got) \in Nat /\ Len(t) \in Nat
    BY <1>2, <1>4
  <2>2. \A m, n \in Nat : m + 1 + n = m + 0 + (n + 1)
    OBVIOUS
  <2> QED
    BY <1>2, <1>4, <1>7, <1>8, <2>1, <2>2
<1>11. Carried(client[k], e)
  BY <1>1, <1>7, <1>9, <1>10 DEF Carried, Whole, ToldInv
<1> QED
  BY <1>1, <1>11, CircuitFlow

LEMMA WriterWritesFlow ==
  ASSUME ConnectorInv, FlowInv, NEW k \in Clients, WriterWrites(k)
  PROVE  FlowInv'
<1> DEFINE d == circuit[k]
           g == Append(d.got, d.hand)
           w == IF d.reader = "ended" THEN "ended" ELSE "shifting"
           e == [d EXCEPT !.got = g, !.hand = 0, !.writer = w]
<1>1. /\ d \in Circuit /\ Carried(client[k], d) /\ d.writer = "writing" /\ PumpStep(k, e)
      /\ d.hand # 0
  BY DEF ConnectorInv, Inv, PumpInv, FlowInv, WriterWrites
<1>2. /\ d.got \in Seq(1..MaxData) /\ Len(d.got) \in Nat /\ Len(d.out) \in Nat
      /\ d.hand = Len(d.got) + 1 /\ Busy(d) = 1 /\ d.hand \in 0..MaxData /\ d.hand \in 1..MaxData
  BY <1>1, Bounds, StreamsTyped DEF Carried, Flow, Busy
<1>3. Run(d.got, 0) /\ d.hand = 0 + Len(d.got) + 1 /\ 0 \in Int
  BY <1>1, <1>2 DEF Carried, Flow
<1>4. /\ g \in Seq(1..MaxData) /\ Len(g) = Len(d.got) + 1 /\ Run(g, 0)
  <2>1. d.got \in Seq(1..MaxData) /\ d.hand \in 1..MaxData
    BY <1>2
  <2> HIDE DEF d
  <2> QED
    BY <1>3, <2>1, Lengthens, Zenon
<1>5. w \in {"ended", "shifting"} /\ 0 \in 0..MaxData
  BY Bounds
<1> HIDE DEF d, g, w
<1>6. /\ e \in Circuit /\ e.out = d.out /\ e.hand = 0 /\ e.got = g /\ e.streamed = d.streamed
      /\ e.told = d.told /\ e.pending = d.pending /\ e.writer = w
      /\ e.finalized = d.finalized /\ e.shut = d.shut
  BY <1>1, <1>4, <1>5 DEF Circuit
<1> HIDE DEF e
<1>7. Busy(e) = 0 /\ Len(e.got) + Busy(e) = Len(d.got) + Busy(d)
  <2>1. Len(d.got) + 1 + 0 = Len(d.got) + 1
    BY <1>2
  <2>2. Busy(e) = 0
    BY <1>6 DEF Busy
  <2> QED
    BY <1>2, <1>4, <1>6, <2>1, <2>2
<1>8. Run(e.out, Len(e.got) + Busy(e))
  BY <1>1, <1>6, <1>7 DEF Carried, Flow
<1>9. Flow(e)
  BY <1>4, <1>6, <1>8 DEF Flow
<1>10. Carried(client[k], e)
  BY <1>1, <1>6, <1>7, <1>9 DEF Carried, Whole, ToldInv
<1> QED
  BY <1>1, <1>6, <1>10, PumpStepFlow

LEMMA WriterFailsFlow ==
  ASSUME ConnectorInv, FlowInv, NEW k \in Clients, WriterFails(k)
  PROVE  FlowInv'
<1> DEFINE d == circuit[k]
           n == d.told + 1
           e == [WriterEnds(d) EXCEPT !.hand = 0, !.told = @ + 1]
<1>1. /\ d \in Circuit /\ PumpInv(d) /\ Carried(client[k], d) /\ d.writer = "writing"
      /\ d.shut \/ client[k].tcp \in {"broken", "closed"}
      /\ PumpStep(k, e)
  BY DEF ConnectorInv, Inv, FlowInv, WriterFails
<1>2. n \in 0..2 /\ 0 \in 0..MaxData
  BY <1>1, Bounds DEF PumpInv, Circuit, Ended
<1>3. e = [d EXCEPT !.writer = "ended", !.reader = "ended", !.hand = 0, !.told = n]
  BY <1>1 DEF WriterEnds, Circuit
<1> HIDE DEF d, n, e
<1>4. e \in Circuit /\ e.writer = "ended" /\ e.hand = 0 /\ e.got = d.got /\ e.shut = d.shut
  BY <1>1, <1>2, <1>3 DEF Circuit
<1>5. Flow(e) /\ Whole(e)
  BY <1>1, <1>4 DEF Carried, Flow, Whole
<1>6. ToldInv(client[k], e)
  BY <1>1, <1>4 DEF ToldInv
<1> QED
  BY <1>1, <1>4, <1>5, <1>6, PumpStepFlow DEF Carried

LEMMA ReaderReadsFlow ==
  ASSUME ConnectorInv, FlowInv, NEW k \in Clients, ReaderReads(k)
  PROVE  FlowInv'
<1> DEFINE d == circuit[k]
           n == d.pending - 1
           e == [d EXCEPT !.pending = n]
<1>1. /\ d \in Circuit /\ Carried(client[k], d) /\ d.pending > 0
      /\ client[k].tcp \in {"open", "eof"} /\ Changes(k, e) /\ UNCHANGED client
  BY DEF ConnectorInv, FlowInv, ReaderReads
<1>2. ~(d.told > 0 /\ ~d.shut)
  <2>1. d.pending # 0
    BY <1>1 DEF Circuit
  <2> QED
    BY <1>1, <2>1 DEF Carried, ToldInv
<1> HIDE DEF d, n
<1>3. /\ e.out = d.out /\ e.hand = d.hand /\ e.got = d.got /\ e.streamed = d.streamed
      /\ e.told = d.told /\ e.writer = d.writer
      /\ e.finalized = d.finalized /\ e.shut = d.shut
  BY <1>1 DEF Circuit
<1> HIDE DEF e
<1>4. Busy(e) = Busy(d)
  BY <1>3 DEF Busy
<1>5. Flow(e) /\ Whole(e)
  BY <1>1, <1>3, <1>4 DEF Carried, Flow, Whole
<1>6. ToldInv(client[k], e)
  BY <1>2, <1>3 DEF ToldInv
<1> QED
  BY <1>1, <1>5, <1>6, CircuitFlow DEF Carried

LEMMA ReaderEndsFlow ==
  ASSUME ConnectorInv, FlowInv, NEW k \in Clients, ReaderEnds(k)
  PROVE  FlowInv'
<1> DEFINE d == circuit[k]
           n == d.told + 1
           w == IF d.writer = "shifting" THEN "ended" ELSE d.writer
           e == [Tells(d) EXCEPT !.reader = "ended", !.writer = IF @ = "shifting" THEN "ended" ELSE @]
<1>1. /\ d \in Circuit /\ PumpInv(d) /\ Carried(client[k], d) /\ d.reader = "reading"
      /\ PumpStep(k, e)
      /\ \/ d.shut
         \/ client[k].tcp \in {"broken", "closed"}
         \/ client[k].tcp = "eof" /\ d.pending = 0
  BY DEF ConnectorInv, Inv, FlowInv, ReaderEnds, ReaderDone
<1>2. n \in 0..2
  BY <1>1 DEF PumpInv, Circuit, Ended
<1>3. e = [d EXCEPT !.told = n, !.reader = "ended", !.writer = w]
  BY <1>1 DEF Tells, Circuit
<1>4. w \in {"off", "writing", "ended"} /\ (w # "ended" => d.writer = w)
      /\ (w = "writing" <=> d.writer = "writing")
  BY <1>1 DEF Circuit
<1> HIDE DEF d, n, w, e
<1>5. /\ e \in Circuit /\ e.out = d.out /\ e.hand = d.hand /\ e.got = d.got
      /\ e.streamed = d.streamed /\ e.pending = d.pending /\ e.writer = w
      /\ e.finalized = d.finalized /\ e.shut = d.shut
  BY <1>1, <1>2, <1>3, <1>4 DEF Circuit
<1>6. Busy(e) = Busy(d)
  BY <1>5 DEF Busy
<1>7. Flow(e) /\ Whole(e)
  BY <1>1, <1>4, <1>5, <1>6 DEF Carried, Flow, Whole
<1>8. ToldInv(client[k], e)
  BY <1>1, <1>5 DEF ToldInv
<1> QED
  BY <1>1, <1>5, <1>7, <1>8, PumpStepFlow DEF Carried

-----------------------------------------------------------------------------
(* The application, the listener and the way to a session.                   *)

LEMMA AppSendsFlow ==
  ASSUME ConnectorInv, FlowInv, NEW k \in Clients, AppSends(k)
  PROVE  FlowInv'
<1> DEFINE d == circuit[k]
           n == d.pending + 1
           e == [d EXCEPT !.pending = n]
<1>1. /\ d \in Circuit /\ Carried(client[k], d) /\ client[k].tcp = "open"
      /\ Changes(k, e) /\ UNCHANGED client
  BY DEF ConnectorInv, FlowInv, AppSends
<1>2. ~(d.told > 0 /\ ~d.shut)
  BY <1>1 DEF Carried, ToldInv
<1> HIDE DEF d, n
<1>3. /\ e.out = d.out /\ e.hand = d.hand /\ e.got = d.got /\ e.streamed = d.streamed
      /\ e.told = d.told /\ e.writer = d.writer
      /\ e.finalized = d.finalized /\ e.shut = d.shut
  BY <1>1 DEF Circuit
<1> HIDE DEF e
<1>4. Busy(e) = Busy(d)
  BY <1>3 DEF Busy
<1>5. Flow(e) /\ Whole(e)
  BY <1>1, <1>3, <1>4 DEF Carried, Flow, Whole
<1>6. ToldInv(client[k], e)
  BY <1>2, <1>3 DEF ToldInv
<1> QED
  BY <1>1, <1>5, <1>6, CircuitFlow DEF Carried

(* A connection whose circuit, if any, has told nothing of its end.          *)
LEMMA UntoldFlow ==
  ASSUME ConnectorInv, FlowInv, NEW k \in Clients, NEW c,
         ~(circuit[k].told > 0 /\ ~circuit[k].shut),
         client' = [client EXCEPT ![k] = c], UNCHANGED circuit
  PROVE  FlowInv'
<1> DEFINE d == circuit[k]
<1>1. circuit' = [circuit EXCEPT ![k] = d]
  BY DEF ConnectorInv
<1>2. Carried(c, d)
  BY DEF FlowInv, Carried, ToldInv
<1> HIDE DEF d
<1> QED
  BY <1>1, <1>2, OneFlow

LEMMA AppEndsFlow ==
  ASSUME ConnectorInv, FlowInv, NEW k \in Clients, NEW how \in {"eof", "broken"}, AppEnds(k, how)
  PROVE  FlowInv'
<1> DEFINE c == [client[k] EXCEPT !.tcp = how]
<1>1. client' = [client EXCEPT ![k] = c] /\ UNCHANGED circuit /\ client[k].tcp = "open"
  BY DEF AppEnds, ConnectorInv
<1>2. ~(circuit[k].told > 0 /\ ~circuit[k].shut)
  BY <1>1 DEF FlowInv, Carried, ToldInv
<1> HIDE DEF c
<1> QED
  BY <1>1, <1>2, UntoldFlow

LEMMA AcceptFlow ==
  ASSUME ConnectorInv, FlowInv, NEW k \in Clients, Accept(k)
  PROVE  FlowInv'
<1> DEFINE p == IF stopped THEN "skipped" ELSE "queued"
           t == IF stopped THEN "closed" ELSE "open"
           c == [client[k] EXCEPT !.place = p, !.tcp = t]
<1>1. client' = [client EXCEPT ![k] = c] /\ UNCHANGED circuit /\ client[k].place = "away"
  BY DEF Accept, ConnectorInv
<1>2. circuit[k] \in Circuit /\ PumpInv(circuit[k]) /\ ~circuit[k].connected
  BY <1>1 DEF ConnectorInv, Inv, AnswerInv
<1>3. ~(circuit[k].told > 0 /\ ~circuit[k].shut)
  <2>1. circuit[k].told = 0
    BY <1>2, NothingTold
  <2> QED
    BY <2>1
<1> HIDE DEF c
<1> QED
  BY <1>1, <1>3, UntoldFlow

LEMMA ExpireFlow ==
  ASSUME ConnectorInv, FlowInv, NEW k \in Clients, Expire(k)
  PROVE  FlowInv'
<1> DEFINE a == Answered(k, "refused")
           c == [a EXCEPT !.expired = TRUE]
<1>1. client' = [client EXCEPT ![k] = c] /\ UNCHANGED circuit
  BY DEF Expire
<1>2. client[k] \in Client /\ Inv(client[k], circuit[k])
  BY DEF ConnectorInv
<1>3. client[k].attached => client[k].answer = "tunnel"
  BY <1>2 DEF Inv, AnswerInv
<1>4. a \in Client /\ Later(client[k], a)
  BY <1>2, <1>3, AnsweredKeeps, AnsweredLater
<1> HIDE DEF a
<1>5. Later(client[k], c)
  BY <1>4 DEF Later, Client
<1> HIDE DEF c
<1> QED
  BY <1>1, <1>5, ClientFlow

LEMMA ReplyFlow ==
  ASSUME ConnectorInv, FlowInv, NEW k \in Clients, Reply(k)
  PROVE  FlowInv'
<1>1. client[k] \in Client /\ circuit[k] \in Circuit
  BY DEF ConnectorInv
<1>2. CASE client' = [client EXCEPT ![k].attached = TRUE] /\ UNCHANGED circuit
  <2> DEFINE c == [client[k] EXCEPT !.attached = TRUE]
  <2>1. client' = [client EXCEPT ![k] = c] /\ Later(client[k], c)
    BY <1>1, <1>2 DEF ConnectorInv, Later, Client
  <2> HIDE DEF c
  <2> QED
    BY <1>2, <2>1, ClientFlow
<1>3. CASE client' = [client EXCEPT ![k].tcp = "closed"]
           /\ (\/ UNCHANGED circuit
               \/ circuit' = [circuit EXCEPT ![k].shut = @ \/ circuit[k].connected])
  <2> DEFINE c == [client[k] EXCEPT !.tcp = "closed"]
             s == circuit[k].shut \/ circuit[k].connected
             d == [circuit[k] EXCEPT !.shut = s]
  <2>1. client' = [client EXCEPT ![k] = c] /\ Later(client[k], c)
    BY <1>1, <1>3 DEF ConnectorInv, Later, Client
  <2>2. s \in BOOLEAN /\ (circuit[k].shut => s)
    BY Zenon
  <2>3. circuit' = [circuit EXCEPT ![k].shut = @ \/ circuit[k].connected] =>
          circuit' = [circuit EXCEPT ![k] = d]
    BY DEF ConnectorInv
  <2> HIDE DEF c, s
  <2>4. SameFlow(circuit[k], d)
    BY <1>1, <2>2 DEF Circuit, SameFlow
  <2>5. Carried(client[k], circuit[k])
    BY DEF FlowInv
  <2> HIDE DEF d
  <2>6. Carried(c, d)
    BY <2>1, <2>4, <2>5, SameCarried
  <2> QED
    BY <1>3, <2>1, <2>3, <2>6, ClientFlow, OneFlow
<1> QED
  BY <1>2, <1>3, Zenon DEF Reply

LEMMA TakeFlow ==
  ASSUME ConnectorInv, FlowInv, NEW s \in Services, Take(s)
  PROVE  FlowInv'
<1> DEFINE k == Head(handle[s])
           c == [client[k] EXCEPT !.place = "handed"]
<1>1. handle[s] \in Seq(Clients) /\ handle[s] # <<>>
  BY DEF ConnectorInv, Queues, Take
<1>2. k \in Clients
  BY <1>1, HeadTailProperties
<1>3. client' = [client EXCEPT ![k] = c] /\ UNCHANGED circuit
  BY <1>2 DEF ConnectorInv, Take
<1> HIDE DEF k
<1>4. Later(client[k], c)
  BY <1>2 DEF ConnectorInv, Client, Later
<1> HIDE DEF c
<1> QED
  BY <1>2, <1>3, <1>4, ClientFlow

LEMMA ServeFlow ==
  ASSUME ConnectorInv, FlowInv, NEW k \in Clients, Serve(k)
  PROVE  FlowInv'
<1> DEFINE c == [client[k] EXCEPT !.place = "taken"]
           b == [client[k] EXCEPT !.place = "skipped"]
           d == [circuit[k] EXCEPT !.uid = localUID, !.session = session]
<1>1. client[k] \in Client /\ circuit[k] \in Circuit /\ Carried(client[k], circuit[k])
  BY DEF ConnectorInv, FlowInv
<1>2. Later(client[k], c) /\ Later(client[k], b) /\ SameFlow(circuit[k], d)
  BY <1>1 DEF Client, Circuit, Later, SameFlow
<1>3. CASE Serves(k)
  <2>1. client' = [client EXCEPT ![k] = c] /\ circuit' = [circuit EXCEPT ![k] = d]
    BY <1>3 DEF Serve, Changes, ConnectorInv
  <2> HIDE DEF c, d
  <2>2. Carried(c, d)
    BY <1>1, <1>2, SameCarried
  <2> QED
    BY <2>1, <2>2, OneFlow
<1>4. CASE ~Serves(k)
  <2>1. client' = [client EXCEPT ![k] = b] /\ UNCHANGED circuit
    BY <1>4 DEF Serve, ConnectorInv
  <2> HIDE DEF b
  <2> QED
    BY <1>2, <2>1, ClientFlow
<1> QED
  BY <1>3, <1>4

-----------------------------------------------------------------------------
(* What the relay says.                                                      *)

LEMMA StreamsFlow ==
  ASSUME ConnectorInv, FlowInv, NEW u \in Uids, Streams(u)
  PROVE  FlowInv'
<1>1. CASE u \in DOMAIN connections
  <2> DEFINE k == connections[u]
             d == circuit[k]
             n == d.streamed + 1
             o == Append(d.out, n)
             e == [d EXCEPT !.streamed = n, !.out = o]
  <2>1. k \in Clients /\ ~d.finalized
    BY <1>1 DEF ConnectorInv, Entries, TableMatches
  <2>2. d \in Circuit /\ Carried(client[k], d) /\ d.streamed < MaxData
        /\ Changes(k, e) /\ UNCHANGED client
    BY <1>1, <2>1 DEF ConnectorInv, FlowInv, Streams, Changes
  <2> HIDE DEF k
  <2>3. /\ d.out \in Seq(1..MaxData) /\ Len(d.out) \in Nat /\ Len(d.got) \in Nat
        /\ Busy(d) \in {0, 1} /\ d.streamed \in 0..MaxData
    BY <2>2, StreamsTyped
  <2>4. n \in 1..MaxData
    BY <2>2, <2>3, Bounds
  <2>5. d.writer # "ended" => Run(d.out, Len(d.got) + Busy(d))
    BY <2>2 DEF Carried, Flow
  <2>6. d.writer # "ended" => n = Len(d.got) + Busy(d) + Len(d.out) + 1
    BY <2>1, <2>2 DEF Carried, Whole
  <2> HIDE DEF d, n
  <2>7. Len(d.got) + Busy(d) \in Int
    BY <2>3
  <2>8. o \in Seq(1..MaxData) /\ Len(o) = Len(d.out) + 1
    BY <2>3, <2>4, AppendProperties
  <2>9. d.writer # "ended" => Run(o, Len(d.got) + Busy(d))
    BY <2>3, <2>4, <2>5, <2>6, <2>7, Lengthens
  <2> HIDE DEF o
  <2>10. /\ e.out = o /\ e.hand = d.hand /\ e.got = d.got /\ e.streamed = n
         /\ e.told = d.told /\ e.pending = d.pending /\ e.writer = d.writer
         /\ e.finalized = d.finalized /\ e.shut = d.shut
    BY <2>2 DEF Circuit
  <2> HIDE DEF e
  <2>11. Busy(e) = Busy(d)
    BY <2>10 DEF Busy
  <2>12. Flow(e)
    BY <2>2, <2>9, <2>10, <2>11 DEF Carried, Flow
  <2>13. Whole(e)
    <3>1. SUFFICES ASSUME d.writer # "ended"
                   PROVE  Len(e.got) + Busy(e) + Len(e.out) = e.streamed
      BY <2>10 DEF Whole
    <3>2. \A x, y, z \in Nat : x + y + (z + 1) = x + y + z + 1
      OBVIOUS
    <3>3. Len(d.got) \in Nat /\ Busy(d) \in Nat /\ Len(d.out) \in Nat
      BY <2>3
    <3>4. Len(d.got) + Busy(d) + (Len(d.out) + 1) = n
      BY <2>6, <3>1, <3>2, <3>3
    <3> QED
      BY <2>8, <2>10, <2>11, <3>4
  <2>14. Carried(client[k], e)
    BY <2>2, <2>10, <2>12, <2>13 DEF Carried, ToldInv
  <2> QED
    BY <2>1, <2>2, <2>14, CircuitFlow
<1>2. CASE u \notin DOMAIN connections
  <2>1. UNCHANGED <<client, circuit>>
    BY <1>2 DEF Streams
  <2> QED
    BY <2>1 DEF FlowInv, Carried, Flow, Whole, ToldInv, Busy
<1> QED
  BY <1>1, <1>2

LEMMA ConnectedFlow ==
  ASSUME ConnectorInv, FlowInv, NEW u \in Uids, Connected(u)
  PROVE  FlowInv'
<1> DEFINE k == connections[u]
           c == Answered(k, "tunnel")
           d == circuit[k]
           e == [d EXCEPT !.connected = TRUE, !.writer = "shifting", !.reader = "reading"]
<1>1. u \in DOMAIN connections /\ heard[u] = "asked"
  BY DEF Connected, Says
<1>2. k \in Clients /\ ~d.connected
  BY <1>1 DEF ConnectorInv, Entries
<1>3. d \in Circuit /\ PumpInv(d) /\ Carried(client[k], d) /\ client[k] \in Client
  BY <1>2 DEF ConnectorInv, Inv, FlowInv
<1>4. client' = [client EXCEPT ![k] = c] /\ circuit' = [circuit EXCEPT ![k] = e]
  BY DEF Connected, Emit, Changes
<1>5. d.told = 0 /\ d.writer = "off"
  BY <1>2, <1>3, NothingTold
<1> HIDE DEF k, c, d
<1>6. /\ e.out = d.out /\ e.hand = d.hand /\ e.got = d.got /\ e.streamed = d.streamed
      /\ e.told = 0 /\ e.writer = "shifting" /\ e.finalized = d.finalized
  BY <1>3, <1>5 DEF Circuit
<1> HIDE DEF e
<1>7. Busy(e) = Busy(d)
  BY <1>6 DEF Busy
<1>8. Flow(e) /\ Whole(e)
  BY <1>3, <1>5, <1>6, <1>7 DEF Carried, Flow, Whole
<1>9. Carried(c, e)
  BY <1>6, <1>8 DEF Carried, ToldInv
<1> QED
  BY <1>2, <1>4, <1>9, OneFlow

LEMMA CloseAnswerLater ==
  ASSUME NEW k, client[k] \in Client
  PROVE  Later(client[k], CloseAnswer(k))
<1>1. Later(client[k], client[k])
  BY DEF Later
<1> QED
  BY <1>1, AnsweredLater DEF CloseAnswer

LEMMA ClosesFlow ==
  ASSUME ConnectorInv, FlowInv, NEW u \in Uids, Closes(u)
  PROVE  FlowInv'
<1>1. CASE u \in DOMAIN connections
  <2> DEFINE k == connections[u]
             c == CloseAnswer(k)
             d == Finalized(k)
  <2>1. k \in Clients
    BY <1>1 DEF ConnectorInv, Entries
  <2>2. client[k] \in Client /\ circuit[k] \in Circuit /\ Carried(client[k], circuit[k])
    BY <2>1 DEF ConnectorInv, FlowInv
  <2>3. client' = [client EXCEPT ![k] = c] /\ circuit' = [circuit EXCEPT ![k] = d]
    BY <1>1 DEF Closes, Changes
  <2>4. Later(client[k], c) /\ SameFlow(circuit[k], d)
    BY <2>2, CloseAnswerLater, FinalizedFlow
  <2> HIDE DEF k, c, d
  <2>5. Carried(c, d)
    BY <2>2, <2>4, SameCarried
  <2> QED
    BY <2>1, <2>3, <2>5, OneFlow
<1>2. CASE u \notin DOMAIN connections
  <2>1. UNCHANGED <<client, circuit>>
    BY <1>2 DEF Closes
  <2> QED
    BY <2>1 DEF FlowInv, Carried, Flow, Whole, ToldInv, Busy
<1> QED
  BY <1>1, <1>2

-----------------------------------------------------------------------------
(* The loss of the session, and the end of the program.                      *)

LEMMA AbortedFlow ==
  ASSUME NEW c, NEW k, circuit[k] \in Circuit, Carried(c, circuit[k]), NEW b, Later(c, b)
  PROVE  Carried(b, AbortedCircuit(k))
<1> DEFINE f == IF circuit[k].finalized THEN circuit[k] ELSE Finalized(k)
           e == AbortedPumps(f)
<1>1. f \in Circuit /\ SameFlow(circuit[k], f) /\ f.finalized
  <2>1. SameFlow(circuit[k], circuit[k])
    BY DEF SameFlow
  <2> QED
    BY <2>1, FinalizedFlow
<1>2. AbortedCircuit(k) = e
  BY DEF AbortedCircuit
<1> HIDE DEF f
<1>3. Carried(b, f)
  BY <1>1, SameCarried
<1>4. /\ e.out = <<>> /\ e.hand = f.hand /\ e.got = f.got /\ e.told = f.told
      /\ e.pending = f.pending /\ e.finalized = f.finalized /\ e.shut = f.shut
      /\ e.writer = IF f.writer = "shifting" THEN "ended" ELSE f.writer
  BY <1>1 DEF AbortedPumps, Circuit
<1> HIDE DEF e
<1>5. Run(e.out, Len(e.got) + Busy(e))
  BY <1>4, EmptyRun
<1>6. Flow(e) /\ Whole(e)
  BY <1>1, <1>3, <1>4, <1>5 DEF Carried, Flow, Whole
<1>7. ToldInv(b, e)
  BY <1>3, <1>4 DEF Carried, ToldInv
<1> QED
  BY <1>2, <1>6, <1>7 DEF Carried

LEMMA AbortedClientLater ==
  ASSUME NEW k, client[k] \in Client
  PROVE  Later(client[k], AbortedClient(k))
<1>1. Later(client[k], client[k])
  BY DEF Later
<1> QED
  BY <1>1, CloseAnswerLater DEF AbortedClient

LEMMA SessionAbortsFlow ==
  ASSUME ConnectorInv, FlowInv, SessionAborts
  PROVE  FlowInv'
<1>1. ASSUME NEW k \in Clients
      PROVE  Carried(client'[k], circuit'[k])
  <2>1. client[k] \in Client /\ circuit[k] \in Circuit /\ Carried(client[k], circuit[k])
    BY DEF ConnectorInv, FlowInv
  <2>2. CASE Aborted(k)
    <3>1. client'[k] = AbortedClient(k) /\ circuit'[k] = AbortedCircuit(k)
      BY <2>2 DEF SessionAborts, AbortCircuits
    <3> QED
      BY <2>1, <3>1, AbortedClientLater, AbortedFlow
  <2>3. CASE ~Aborted(k)
    <3>1. client'[k] = client[k] /\ circuit'[k] = circuit[k]
      BY <2>3 DEF SessionAborts, AbortCircuits
    <3> QED
      BY <2>1, <3>1
  <2> QED
    BY <2>2, <2>3
<1> QED
  BY <1>1 DEF FlowInv, Carried, Flow, Whole, ToldInv, Busy

LEMMA StoppedLater ==
  ASSUME ConnectorInv, NEW k \in Clients
  PROVE  Later(client[k], StoppedClient(k))
<1>1. client[k] \in Client /\ Inv(client[k], circuit[k])
  BY DEF ConnectorInv
<1>2. client[k].attached => client[k].answer = "tunnel"
  BY <1>1 DEF Inv, AnswerInv
<1>3. Later(client[k], [Answered(k, "refused") EXCEPT !.expired = TRUE])
  <2> DEFINE a == Answered(k, "refused")
  <2>1. a \in Client /\ Later(client[k], a)
    BY <1>1, <1>2, AnsweredKeeps, AnsweredLater
  <2> HIDE DEF a
  <2>2. Later(client[k], [a EXCEPT !.expired = TRUE])
    BY <2>1 DEF Later, Client
  <2> QED
    BY <2>2 DEF a
<1>4. Later(client[k], [client[k] EXCEPT !.tcp = "closed"])
  BY <1>1 DEF Later, Client
<1>5. Later(client[k], AbortedClient(k)) /\ Later(client[k], client[k])
  BY <1>1, AbortedClientLater DEF Later
<1> QED
  BY <1>3, <1>4, <1>5, Zenon DEF StoppedClient

LEMMA StopFlow ==
  ASSUME ConnectorInv, FlowInv, Stop
  PROVE  FlowInv'
<1>1. ASSUME NEW k \in Clients
      PROVE  Carried(client'[k], circuit'[k])
  <2>1. client[k] \in Client /\ circuit[k] \in Circuit /\ Carried(client[k], circuit[k])
    BY DEF ConnectorInv, FlowInv
  <2>2. client'[k] = StoppedClient(k)
    BY DEF Stop
  <2>3. Later(client[k], client'[k])
    BY <2>2, StoppedLater
  <2>4. CASE up /\ Aborted(k)
    <3>1. circuit'[k] = AbortedCircuit(k)
      BY <2>4 DEF Stop, AbortCircuits
    <3> QED
      BY <2>1, <2>3, <3>1, AbortedFlow
  <2>5. CASE ~(up /\ Aborted(k))
    <3>1. circuit'[k] = circuit[k]
      BY <2>5 DEF Stop, AbortCircuits
    <3>2. SameFlow(circuit[k], circuit[k])
      BY DEF SameFlow
    <3> QED
      BY <2>1, <2>3, <3>1, <3>2, SameCarried
  <2> QED
    BY <2>4, <2>5
<1> QED
  BY <1>1 DEF FlowInv, Carried, Flow, Whole, ToldInv, Busy

-----------------------------------------------------------------------------
LEMMA InitFlow ==
  ASSUME Init
  PROVE  FlowInv
<1>1. \A k \in Clients : circuit[k] = NoCircuit
  BY DEF Init
<1>2. /\ NoCircuit.out = <<>> /\ NoCircuit.got = <<>> /\ NoCircuit.hand = 0
      /\ NoCircuit.streamed = 0 /\ NoCircuit.told = 0
  BY DEF NoCircuit
<1>3. Len(NoCircuit.out) = 0 /\ Len(NoCircuit.got) = 0 /\ Busy(NoCircuit) = 0
      /\ Run(NoCircuit.got, 0) /\ Run(NoCircuit.out, 0 + 0)
  BY <1>2, EmptyRun DEF Busy
<1>4. Flow(NoCircuit) /\ Whole(NoCircuit)
  BY <1>2, <1>3 DEF Flow, Whole
<1>5. \A c : ToldInv(c, NoCircuit)
  BY <1>2 DEF ToldInv
<1> QED
  BY <1>1, <1>4, <1>5 DEF FlowInv, Carried

LEMMA NextFlow ==
  ASSUME ConnectorInv, FlowInv, [Next]_vars
  PROVE  FlowInv'
<1>1. ASSUME NEW k \in Clients,
             Accept(k) \/ Listener(k) \/ Serve(k) \/ Pumps(k) \/ AppSends(k)
               \/ AppEnds(k, "eof") \/ AppEnds(k, "broken")
      PROVE  FlowInv'
  <2>1. CASE Accept(k) \/ Listener(k) \/ Serve(k)
    BY <2>1, AcceptFlow, ExpireFlow, ReplyFlow, ServeFlow DEF Listener
  <2>2. CASE Pumps(k)
    BY <2>2, WriterShiftsFlow, WriterWritesFlow, WriterFailsFlow, ReaderReadsFlow,
       ReaderEndsFlow DEF Pumps
  <2>3. CASE AppSends(k)
    BY <2>3, AppSendsFlow
  <2>4. CASE AppEnds(k, "eof") \/ AppEnds(k, "broken")
    BY <2>4, AppEndsFlow
  <2> QED
    BY <1>1, <2>1, <2>2, <2>3, <2>4
<1>2. CASE UNCHANGED vars \/ SessionOpens
  <2>1. UNCHANGED <<client, circuit>>
    BY <1>2 DEF vars, SessionOpens
  <2> QED
    BY <2>1 DEF FlowInv, Carried, Flow, Whole, ToldInv, Busy
<1>3. CASE \E s \in Services : Take(s)
  BY <1>3, TakeFlow
<1>4. CASE \E u \in Uids : RelaySays(u)
  BY <1>4, ConnectedFlow, ClosesFlow, StreamsFlow DEF RelaySays, Failed, Closed
<1> QED
  BY <1>1, <1>2, <1>3, <1>4, SessionAbortsFlow, StopFlow DEF Next, Done

(* What lies between the relay and the application is what comes next until  *)
(* the writer has ended, and all of it until the circuit has.                *)
THEOREM StreamsCorrect == Spec => [](ConnectorInv /\ FlowInv)
<1>1. Init => ConnectorInv /\ FlowInv
  BY InitInv, InitFlow
<1>2. (ConnectorInv /\ FlowInv) /\ [Next]_vars => (ConnectorInv /\ FlowInv)'
  BY NextInv, NextFlow
<1> QED
  BY <1>1, <1>2, PTL DEF Spec

(* Chunks reach the application in order and none is skipped while the       *)
(* circuit lasts; the relay is told of an end only after everything that the *)
(* application had sent before it.                                           *)
THEOREM NothingCutShortCorrect == Spec => []NothingCutShort
<1>1. ConnectorInv /\ FlowInv => NothingCutShort
  <2> SUFFICES ASSUME ConnectorInv, FlowInv, NEW k \in Clients
               PROVE  /\ \A i \in DOMAIN circuit[k].got : circuit[k].got[i] = i
                      /\ circuit[k].writer \in {"shifting", "writing"} /\ ~circuit[k].finalized =>
                           circuit[k].got \o InHand(k) \o circuit[k].out
                             = [i \in 1..circuit[k].streamed |-> i]
                      /\ circuit[k].told > 0 /\ client[k].tcp = "eof" /\ ~circuit[k].shut
                           => circuit[k].pending = 0
    BY DEF NothingCutShort
  <2>1. circuit[k] \in Circuit /\ Carried(client[k], circuit[k])
    BY DEF ConnectorInv, FlowInv
  <2>2. \A i \in DOMAIN circuit[k].got : circuit[k].got[i] = i
    <3>1. circuit[k].got \in Seq(1..MaxData) /\ Run(circuit[k].got, 0)
      BY <2>1, StreamsTyped DEF Carried, Flow
    <3>2. DOMAIN circuit[k].got = 1..Len(circuit[k].got)
      BY <3>1, LenProperties
    <3> QED
      BY <3>1, <3>2 DEF Run
  <2>3. ASSUME circuit[k].writer \in {"shifting", "writing"}, ~circuit[k].finalized
        PROVE  circuit[k].got \o InHand(k) \o circuit[k].out = [i \in 1..circuit[k].streamed |-> i]
    <3>1. /\ circuit[k].writer # "ended" /\ Flow(circuit[k])
          /\ Len(circuit[k].got) + Busy(circuit[k]) + Len(circuit[k].out) = circuit[k].streamed
      BY <2>1, <2>3 DEF Carried, Whole
    <3> DEFINE got == circuit[k].got
               out == circuit[k].out
               hand == circuit[k].hand
               busy == Busy(circuit[k])
               sent == circuit[k].streamed
    <3>2. /\ got \in Seq(1..MaxData) /\ out \in Seq(1..MaxData)
          /\ hand \in 0..MaxData /\ busy \in Nat
      BY <2>1, StreamsTyped
    <3>3. busy = IF hand = 0 THEN 0 ELSE 1
      BY DEF Busy
    <3>4. /\ hand # 0 => hand = Len(got) + 1
          /\ Run(got, 0) /\ Run(out, Len(got) + busy)
      BY <2>1, <3>1 DEF Flow
    <3>5. Len(got) + busy + Len(out) = sent
      BY <3>1
    <3> DEFINE all == got \o (IF hand = 0 THEN <<>> ELSE <<hand>>) \o out
    <3>6. circuit[k].got \o InHand(k) \o circuit[k].out = all
      BY DEF InHand
    <3> HIDE DEF got, out, hand, busy, sent
    <3>7. all \in Seq(Int) /\ Len(all) = sent /\ Run(all, 0)
      BY <3>2, <3>3, <3>4, <3>5, AllOfIt
    <3> HIDE DEF all
    <3>8. all = [i \in 1..sent |-> i]
      BY <3>7, RunIs
    <3> QED
      BY <3>6, <3>8 DEF sent
  <2> QED
    BY <2>1, <2>2, <2>3 DEF Carried, ToldInv
<1> QED
  BY <1>1, StreamsCorrect, PTL

===============================================================================
