------------------------ MODULE SecureChannelProofs ------------------------
(***************************************************************************)
(* Proofs about SecureChannel: the two directions of a connection, and all *)
(* the packets of each, have nonces of their own; the memory that          *)
(* decrypted commands may take is bounded; the counters of the two sides   *)
(* stay in step; and no message is lost, repeated or swapped.              *)
(***************************************************************************)
EXTENDS SecureChannel, SequenceTheorems, TLAPS

(* Up to 2^88 packets of a session no nonce is used twice, neither by one    *)
(* side nor by both: encodeIV loses neither the role nor a bit of the        *)
(* counter.                                                                  *)
THEOREM NoncesDistinct ==
  ASSUME NEW r1 \in {"relay", "client"}, NEW r2 \in {"relay", "client"},
         NEW c1 \in 0..(HighSpace * LowSpace - 1), NEW c2 \in 0..(HighSpace * LowSpace - 1),
         EncodeIV(r1, c1) = EncodeIV(r2, c2)
  PROVE  r1 = r2 /\ c1 = c2
<1>1. HighSpace * LowSpace \in Nat
  BY ChannelAssumption DEF ChannelAssumption
<1>2. c1 % (HighSpace * LowSpace) = c1 /\ c2 % (HighSpace * LowSpace) = c2
  BY <1>1
<1>3. /\ c1 = LowSpace * (c1 \div LowSpace) + (c1 % LowSpace)
      /\ c2 = LowSpace * (c2 \div LowSpace) + (c2 % LowSpace)
  BY <1>1, ChannelAssumption DEF ChannelAssumption
<1> QED
  BY <1>2, <1>3 DEF EncodeIV

-----------------------------------------------------------------------------
(* Bounded is not inductive: a pump that was released pushes without looking *)
(* again, so there must be room as long as it is; and the packet it pushes   *)
(* must be there.                                                            *)
PumpReady ==
  /\ pump \in {"got", "blocked", "released"} => Len(held) = 1
  /\ pump = "released" => Queued < DecryptQueueSize
  /\ decryptAborted => Queued = 0

ChannelInv == TypeOK /\ PumpReady /\ Bounded

LEMMA EncodeIVType ==
  ASSUME NEW c \in Nat
  PROVE  EncodeIV(Role, c) \in IVs
<1>1. HighSpace * LowSpace \in Nat \ {0}
  BY ChannelAssumption DEF ChannelAssumption
<1>2. c % (HighSpace * LowSpace) \in 0..(HighSpace * LowSpace - 1)
  BY <1>1
<1>3. ASSUME NEW d \in 0..(HighSpace * LowSpace - 1)
      PROVE  d \div LowSpace \in 0..(HighSpace - 1) /\ d % LowSpace \in 0..(LowSpace - 1)
  BY <1>1, ChannelAssumption DEF ChannelAssumption
<1> QED
  BY <1>2, <1>3 DEF EncodeIV, IVs

LEMMA SeqFacts ==
  ASSUME NEW S, NEW s \in Seq(S)
  PROVE  /\ <<>> \in Seq(S) /\ Len(<<>>) = 0
         /\ Len(s) \in Nat
         /\ \A n \in 1..Len(s) : s[n] \in S
         /\ s # <<>> => /\ Len(s) > 0
                        /\ Head(s) \in S
                        /\ Tail(s) \in Seq(S)
                        /\ Len(Tail(s)) = Len(s) - 1
         /\ \A x \in S : /\ Append(s, x) \in Seq(S)
                         /\ Len(Append(s, x)) = Len(s) + 1
                         /\ <<x>> \in Seq(S) /\ Len(<<x>>) = 1
         /\ \A t \in Seq(S) : s \o t \in Seq(S)
BY EmptySeq

LEMMA InitChannelInv == Init => ChannelInv
<1> SUFFICES ASSUME Init PROVE ChannelInv
  OBVIOUS
<1>1. /\ written = 0 /\ outbox = <<>> /\ writer = "shifting" /\ sealing = <<>>
      /\ localCounter = FirstCounter /\ wire = <<>> /\ ciphered = <<>>
      /\ pump = "shifting" /\ held = <<>> /\ pipeline = <<>>
      /\ remoteCounter = FirstCounter /\ ready = <<>> /\ handler = "shifting" /\ handled = <<>>
  BY DEF Init
<1>2. /\ writerAborted \in BOOLEAN /\ sendable \in BOOLEAN /\ garbage \in BOOLEAN
      /\ queueAborted \in BOOLEAN /\ decryptAborted \in BOOLEAN
  BY Zenon DEF Init
<1>3. /\ <<>> \in Seq(Messages) /\ <<>> \in Seq(Packets) /\ <<>> \in Seq(Jobs)
      /\ <<>> \in Seq(Messages \cup {Failure}) /\ Len(<<>>) = 0
  BY EmptySeq
<1>4. Queued = 0
  BY <1>1, <1>3 DEF Queued
<1>5. TypeOK
  BY <1>1, <1>2, <1>3, ChannelAssumption DEF ChannelAssumption, TypeOK
<1>6. PumpReady /\ Bounded
  BY <1>1, <1>4, ChannelAssumption DEF ChannelAssumption, PumpReady, Bounded
<1> QED
  BY <1>5, <1>6 DEF ChannelInv

-----------------------------------------------------------------------------
(* The sender's steps touch neither queue of the receiver.                   *)
LEMMA SenderSteps ==
  ASSUME ChannelInv, UNCHANGED <<queueVars, decryptVars>>, TypeOK'
  PROVE  ChannelInv'
BY DEF ChannelInv, PumpReady, Bounded, Queued, queueVars, decryptVars

LEMMA EncryptType ==
  ASSUME TypeOK, NEW m \in Messages, Encrypt(m)
  PROVE  /\ writer' = "sealing"
         /\ sealing' \in Seq(Packets)
         /\ localCounter' \in Nat
<1>1. [message |-> m, iv |-> EncodeIV(Role, localCounter)] \in Packets
  BY EncodeIVType DEF TypeOK, Packets
<1> QED
  BY <1>1 DEF TypeOK, Encrypt

LEMMA WriteKeeps == ChannelInv /\ Write => ChannelInv'
<1> SUFFICES ASSUME ChannelInv, Write PROVE ChannelInv'
  OBVIOUS
<1>1. TypeOK
  BY DEF ChannelInv
<1>2. written + 1 \in Messages /\ written' \in 0..MaxMessages
  BY <1>1, ChannelAssumption DEF ChannelAssumption, TypeOK, Write, Messages
<1>3. /\ outbox' \in Seq(Messages)
      /\ writer' \in {"shifting", "sealing", "stopped"}
      /\ sealing' \in Seq(Packets)
      /\ localCounter' \in Nat
  <2>1. CASE UNCHANGED <<outbox, writer, sealing, localCounter>>
    BY <1>1, <2>1 DEF TypeOK
  <2>2. CASE Encrypt(written + 1) /\ UNCHANGED outbox
    BY <1>1, <1>2, <2>2, EncryptType DEF TypeOK
  <2>3. CASE outbox' = Append(outbox, written + 1) /\ UNCHANGED <<writer, sealing, localCounter>>
    BY <1>1, <1>2, <2>3 DEF TypeOK
  <2> QED
    BY <2>1, <2>2, <2>3 DEF Write
<1>4. UNCHANGED <<writerAborted, sendable, wire, garbage, queueVars, decryptVars>>
  BY DEF Write
<1>5. TypeOK'
  BY <1>1, <1>2, <1>3, <1>4 DEF TypeOK, queueVars, decryptVars
<1> QED
  BY <1>4, <1>5, SenderSteps

LEMMA SendKeeps == ChannelInv /\ Send => ChannelInv'
<1> SUFFICES ASSUME ChannelInv, Send PROVE ChannelInv'
  OBVIOUS
<1>1. TypeOK
  BY DEF ChannelInv
<1>2. /\ outbox' \in Seq(Messages)
      /\ writer' \in {"shifting", "sealing", "stopped"}
      /\ sealing' \in Seq(Packets)
      /\ localCounter' \in Nat
  <2>1. CASE /\ writer' \in {"shifting", "stopped"}
             /\ sealing' = <<>>
             /\ UNCHANGED <<outbox, localCounter>>
    BY <1>1, <2>1, EmptySeq DEF TypeOK
  <2>2. CASE outbox # <<>> /\ Encrypt(Head(outbox)) /\ outbox' = Tail(outbox)
    <3>1. Head(outbox) \in Messages /\ Tail(outbox) \in Seq(Messages)
      BY <1>1, <2>2, SeqFacts DEF TypeOK
    <3> QED
      BY <1>1, <2>2, <3>1, EncryptType
  <2> QED
    BY <2>1, <2>2 DEF Send, WriterShifts
<1>3. wire' \in Seq(Packets)
  <2>1. wire \in Seq(Packets) /\ sealing \in Seq(Packets)
    BY <1>1 DEF TypeOK
  <2>2. wire \o sealing \in Seq(Packets)
    BY <2>1, SeqFacts
  <2>3. wire' = wire \o sealing \/ wire' = wire
    BY DEF Send
  <2> QED
    BY <2>1, <2>2, <2>3
<1>4. UNCHANGED <<written, writerAborted, sendable, garbage, queueVars, decryptVars>>
  BY DEF Send
<1>5. TypeOK'
  BY <1>1, <1>2, <1>3, <1>4 DEF TypeOK, queueVars, decryptVars
<1> QED
  BY <1>4, <1>5, SenderSteps

LEMMA SenderEventsKeep ==
  ChannelInv /\ (WriterAborts \/ SocketLost \/ SendGarbage) => ChannelInv'
<1> SUFFICES ASSUME ChannelInv, WriterAborts \/ SocketLost \/ SendGarbage PROVE ChannelInv'
  OBVIOUS
<1>1. TypeOK
  BY DEF ChannelInv
<1>2. UNCHANGED <<queueVars, decryptVars>>
  BY DEF WriterAborts, SocketLost, SendGarbage
<1>3. CASE WriterAborts
  <2>1. outbox' \in Seq(Messages)
    BY <1>3, EmptySeq DEF WriterAborts
  <2>2. TypeOK'
    BY <1>1, <1>3, <2>1 DEF TypeOK, WriterAborts, queueVars, decryptVars
  <2> QED
    BY <1>2, <2>2, SenderSteps
<1>4. CASE SocketLost
  <2>1. TypeOK'
    BY <1>1, <1>4 DEF TypeOK, SocketLost, queueVars, decryptVars
  <2> QED
    BY <1>2, <2>1, SenderSteps
<1>5. CASE SendGarbage
  <2>1. [message |-> 1, iv |-> Foreign] \in Packets
    BY ChannelAssumption DEF ChannelAssumption, Packets, Messages
  <2>2. TypeOK'
    BY <1>1, <1>5, <2>1 DEF TypeOK, SendGarbage, senderVars, queueVars, decryptVars
  <2> QED
    BY <1>2, <2>2, SenderSteps
<1> QED
  BY <1>3, <1>4, <1>5

-----------------------------------------------------------------------------
(* The receiver's steps.                                                     *)

LEMMA QueuedType ==
  ASSUME TypeOK
  PROVE  Queued \in Nat /\ Len(pipeline) \in Nat /\ Len(ready) \in Nat
BY LenProperties DEF TypeOK, Queued

LEMMA ArriveKeeps == ChannelInv /\ Arrive => ChannelInv'
<1> SUFFICES ASSUME ChannelInv, Arrive PROVE ChannelInv'
  OBVIOUS
<1>1. TypeOK
  BY DEF ChannelInv
<1>2. /\ wire \in Seq(Packets) /\ wire # <<>> /\ wire' = Tail(wire)
      /\ UNCHANGED <<senderVars, garbage, decryptVars>>
  BY <1>1 DEF TypeOK, Arrive
<1>3. wire' \in Seq(Packets) /\ Head(wire) \in Packets
  BY <1>2, SeqFacts
<1>4. /\ <<Head(wire)>> \in Seq(Packets) /\ Len(<<Head(wire)>>) = 1
      /\ Append(ciphered, Head(wire)) \in Seq(Packets)
  BY <1>1, <1>3, SeqFacts DEF TypeOK
<1>5. /\ ciphered' \in Seq(Packets) /\ queueAborted' \in BOOLEAN /\ held' \in Seq(Packets)
      /\ pump' \in {"shifting", "got", "blocked", "released", "failed", "done"}
  BY <1>1, <1>4 DEF TypeOK, Arrive, queueVars
<1>6. TypeOK'
  BY <1>1, <1>2, <1>3, <1>5 DEF TypeOK, senderVars, decryptVars
<1>7. (pump' = pump /\ held' = held) \/ (pump' = "got" /\ Len(held') = 1)
  BY <1>4 DEF Arrive, queueVars
<1> QED
  BY <1>2, <1>6, <1>7 DEF ChannelInv, PumpReady, Bounded, Queued, decryptVars

LEMMA PumpBlocksKeeps == ChannelInv /\ PumpBlocks => ChannelInv'
<1> SUFFICES ASSUME ChannelInv, PumpBlocks PROVE ChannelInv'
  OBVIOUS
<1>1. UNCHANGED <<senderVars, wire, garbage, ciphered, queueAborted, held, decryptVars>>
  BY DEF PumpBlocks
<1>2. TypeOK'
  BY <1>1 DEF ChannelInv, TypeOK, PumpBlocks, senderVars, decryptVars
<1> QED
  BY <1>1, <1>2 DEF ChannelInv, PumpReady, Bounded, Queued, PumpBlocks, decryptVars

LEMMA PumpPushesKeeps == ChannelInv /\ PumpPushes => ChannelInv'
<1> SUFFICES ASSUME ChannelInv, PumpPushes PROVE ChannelInv'
  OBVIOUS
<1>1. /\ TypeOK
      /\ UNCHANGED <<senderVars, wire, garbage, queueAborted, ready, decryptAborted, handler, handled>>
  BY DEF ChannelInv, PumpPushes
<1>2. /\ ciphered' \in Seq(Packets) /\ held' \in Seq(Packets)
      /\ pump' \in {"failed", "got", "shifting"}
      /\ pump' = "got" => Len(held') = 1
  <2>1. <<>> \in Seq(Packets)
    BY EmptySeq
  <2>2. ciphered # <<>> =>
          /\ Head(ciphered) \in Packets /\ Tail(ciphered) \in Seq(Packets)
          /\ <<Head(ciphered)>> \in Seq(Packets) /\ Len(<<Head(ciphered)>>) = 1
    <3>1. ciphered \in Seq(Packets)
      BY <1>1 DEF TypeOK
    <3>2. ciphered # <<>> => Head(ciphered) \in Packets /\ Tail(ciphered) \in Seq(Packets)
      BY <3>1, SeqFacts
    <3> QED
      BY <3>1, <3>2, SeqFacts
  <2> QED
    BY <1>1, <2>1, <2>2 DEF TypeOK, PumpPushes, PumpShifts
<1>3. /\ pipeline' \in Seq(Jobs) /\ remoteCounter' \in Nat
      /\ Queued' <= DecryptQueueSize
      /\ decryptAborted' => Queued' = 0
  <2>1. CASE decryptAborted
    BY <1>1, <2>1 DEF ChannelInv, PumpReady, Bounded, TypeOK, PumpPushes, Queued
  <2>2. CASE ~decryptAborted
    <3>1. Queued \in Nat /\ Len(pipeline) \in Nat /\ Len(ready) \in Nat
      BY <1>1, QueuedType
    <3>2. Queued < DecryptQueueSize
      BY <3>1, ChannelAssumption
      DEF ChannelAssumption, ChannelInv, PumpReady, PumpPushes, Full
    <3>3. Len(held) = 1 /\ held \in Seq(Packets)
      BY <1>1 DEF ChannelInv, PumpReady, PumpPushes, TypeOK
    <3>4. held[1] \in Packets
      BY <3>3
    <3> DEFINE job == [message |-> held[1].message, iv |-> held[1].iv, counter |-> remoteCounter]
    <3>5. job \in Jobs
      BY <1>1, <3>4 DEF TypeOK, Packets, Jobs
    <3>6. pipeline' = Append(pipeline, job) /\ remoteCounter' = remoteCounter + 1
      BY <2>2 DEF PumpPushes, Decrypt
    <3> HIDE DEF job
    <3>7. pipeline' \in Seq(Jobs) /\ Len(pipeline') = Len(pipeline) + 1
      BY <1>1, <3>5, <3>6, SeqFacts DEF TypeOK
    <3>8. Queued' = Queued + 1
      BY <1>1, <3>1, <3>7 DEF Queued
    <3> QED
      BY <1>1, <2>2, <3>1, <3>2, <3>6, <3>7, <3>8, ChannelAssumption DEF ChannelAssumption, TypeOK
  <2> QED
    BY <2>1, <2>2
<1>4. TypeOK'
  BY <1>1, <1>2, <1>3 DEF TypeOK, senderVars
<1> QED
  BY <1>2, <1>3, <1>4 DEF ChannelInv, PumpReady, Bounded

(* Aborting the queues empties them.                                         *)
LEMMA AbortQueuesType ==
  ASSUME TypeOK, AbortQueues
  PROVE  /\ queueAborted' \in BOOLEAN /\ decryptAborted' \in BOOLEAN
         /\ ciphered' \in Seq(Packets) /\ pipeline' \in Seq(Jobs)
         /\ ready' \in Seq(Messages \cup {Failure})
         /\ Queued' = 0
         /\ remoteCounter' = remoteCounter /\ handled' = handled
<1>1. ciphered' = <<>> /\ pipeline' = <<>> /\ ready' = <<>>
  BY DEF AbortQueues
<1>2. Queued' = 0
  BY <1>1, EmptySeq DEF Queued
<1>3. /\ <<>> \in Seq(Packets) /\ <<>> \in Seq(Jobs) /\ <<>> \in Seq(Messages \cup {Failure})
  BY EmptySeq
<1> QED
  BY <1>1, <1>2, <1>3 DEF AbortQueues

LEMMA AbortKeeps ==
  ASSUME ChannelInv, AbortQueues, UNCHANGED <<senderVars, garbage, held>>,
         wire' \in Seq(Packets),
         pump' \in {"failed", "done", pump}, handler' \in {"gone", handler}
  PROVE  ChannelInv'
<1>1. TypeOK
  BY DEF ChannelInv
<1>2. TypeOK'
  BY <1>1, AbortQueuesType DEF TypeOK, senderVars
<1> QED
  BY <1>1, <1>2, AbortQueuesType, ChannelAssumption
  DEF ChannelAssumption, ChannelInv, PumpReady, Bounded

LEMMA PumpEndsKeeps == ChannelInv /\ PumpEnds => ChannelInv'
BY AbortKeeps DEF PumpEnds, ChannelInv, TypeOK

LEMMA ReceiverAbortsKeeps == ChannelInv /\ ReceiverAborts => ChannelInv'
BY AbortKeeps DEF ReceiverAborts, PumpRejected, ChannelInv, TypeOK

LEMMA LeaveKeeps ==
  ChannelInv /\ Leave /\ UNCHANGED <<senderVars, wire, garbage>> => ChannelInv'
BY AbortKeeps DEF Leave, PumpRejected, ChannelInv, TypeOK

LEMMA SocketClosesKeeps == ChannelInv /\ SocketCloses => ChannelInv'
<1> SUFFICES ASSUME ChannelInv, SocketCloses PROVE ChannelInv'
  OBVIOUS
<1>1. /\ TypeOK
      /\ ciphered' = <<>> /\ queueAborted' \in BOOLEAN
      /\ pump' \in {"failed", pump}
      /\ UNCHANGED <<senderVars, wire, garbage, held, decryptVars>>
  BY DEF ChannelInv, SocketCloses, Noticed
<1>2. TypeOK'
  <2>1. ciphered' \in Seq(Packets)
    BY <1>1, EmptySeq
  <2> QED
    BY <1>1, <2>1 DEF TypeOK, senderVars, decryptVars
<1> QED
  BY <1>1, <1>2 DEF ChannelInv, PumpReady, Bounded, Queued, decryptVars

(* A command that the handler takes leaves room for the pump.                *)
LEMMA TakeKeeps ==
  ASSUME ChannelInv, ~decryptAborted,
         NEW result \in Messages, Receive(result), result # Failure,
         pipeline' \in Seq(Jobs), ready' \in Seq(Messages \cup {Failure}),
         Queued' = Queued - 1, Queued > 0,
         UNCHANGED <<senderVars, wire, garbage>>
  PROVE  ChannelInv'
<1>1. TypeOK /\ Queued \in Nat /\ Queued <= DecryptQueueSize
  BY QueuedType DEF ChannelInv, Bounded
<1>2. /\ handler' = "busy"
      /\ handled' \in Seq(Messages)
      /\ pump' \in {pump, "released"}
      /\ pump' = "released" => pump \in {"blocked", "released"}
      /\ UNCHANGED <<ciphered, queueAborted, held, remoteCounter, decryptAborted>>
  <2>1. /\ handler' = "busy"
        /\ handled' = Append(handled, result)
        /\ pump' = Released
        /\ UNCHANGED <<ciphered, queueAborted, held, remoteCounter, decryptAborted>>
    BY DEF Receive
  <2>2. handled' \in Seq(Messages)
    BY <1>1, <2>1, SeqFacts DEF TypeOK
  <2> QED
    BY <2>1, <2>2 DEF Released
<1>3. TypeOK'
  BY <1>1, <1>2 DEF TypeOK, senderVars
<1> QED
  BY <1>1, <1>2, <1>3, ChannelAssumption DEF ChannelAssumption, ChannelInv, PumpReady, Bounded

LEMMA DecryptedKeeps == ChannelInv /\ Decrypted => ChannelInv'
<1> SUFFICES ASSUME ChannelInv, Decrypted PROVE ChannelInv'
  OBVIOUS
<1> DEFINE result == Plaintext(Head(pipeline))
<1>1. /\ TypeOK
      /\ pipeline \in Seq(Jobs) /\ pipeline # <<>>
      /\ ready \in Seq(Messages \cup {Failure})
      /\ UNCHANGED <<senderVars, wire, garbage>>
  BY DEF ChannelInv, TypeOK, Decrypted
<1>2. /\ Head(pipeline) \in Jobs
      /\ Tail(pipeline) \in Seq(Jobs)
      /\ Len(pipeline) > 0
      /\ Len(Tail(pipeline)) = Len(pipeline) - 1
  BY <1>1, SeqFacts
<1>3. result \in Messages \cup {Failure} /\ Failure \notin Messages
  BY <1>2, ChannelAssumption DEF ChannelAssumption, Plaintext, Jobs, Messages, Failure
<1>4. /\ Queued \in Nat /\ Len(pipeline) \in Nat /\ Len(ready) \in Nat
      /\ Queued > 0 /\ ~decryptAborted
  BY <1>1, <1>2, QueuedType DEF ChannelInv, PumpReady, Queued
<1> HIDE DEF result
<1>5. CASE handler = "shifting" /\ result = Failure
  <2>1. Leave
    BY <1>5 DEF Decrypted, Receive, result
  <2> QED
    BY <1>1, <2>1, LeaveKeeps
<1>6. CASE handler = "shifting" /\ result # Failure
  <2>1. Receive(result) /\ pipeline' = Tail(pipeline) /\ ready' = ready
    BY <1>6 DEF Decrypted, result
  <2>2. Queued' = Queued - 1
    BY <1>2, <1>4, <2>1 DEF Queued
  <2> QED
    BY <1>1, <1>2, <1>3, <1>4, <1>6, <2>1, <2>2, TakeKeeps
<1>7. CASE handler # "shifting"
  <2>1. /\ pipeline' = Tail(pipeline)
        /\ ready' = Append(ready, result)
        /\ UNCHANGED <<queueVars, remoteCounter, decryptAborted, handler, handled>>
    BY <1>7 DEF Decrypted, result
  <2>2. /\ ready' \in Seq(Messages \cup {Failure})
        /\ Len(ready') = Len(ready) + 1
    BY <1>1, <1>3, <2>1, SeqFacts
  <2>3. Queued' = Queued
    BY <1>2, <1>4, <2>1, <2>2 DEF Queued
  <2>4. TypeOK'
    BY <1>1, <1>2, <2>1, <2>2 DEF TypeOK, senderVars, queueVars
  <2> QED
    BY <2>1, <2>3, <2>4 DEF ChannelInv, PumpReady, Bounded, queueVars
<1> QED
  BY <1>5, <1>6, <1>7

LEMMA NextCommandKeeps == ChannelInv /\ (NextCommand \/ HandlerLeaves) => ChannelInv'
<1> SUFFICES ASSUME ChannelInv, NextCommand \/ HandlerLeaves PROVE ChannelInv'
  OBVIOUS
<1>1. /\ TypeOK
      /\ ready \in Seq(Messages \cup {Failure})
      /\ UNCHANGED <<senderVars, wire, garbage>>
  BY DEF ChannelInv, TypeOK, NextCommand, HandlerLeaves
<1>2. CASE Leave
  BY <1>1, <1>2, LeaveKeeps
<1>3. CASE /\ ~decryptAborted /\ ready # <<>>
           /\ Head(ready) # Failure
           /\ Receive(Head(ready)) /\ ready' = Tail(ready) /\ pipeline' = pipeline
  <2>1. /\ Head(ready) \in Messages
        /\ ready' \in Seq(Messages \cup {Failure})
        /\ Len(ready) > 0
        /\ Len(ready') = Len(ready) - 1
    BY <1>1, <1>3, SeqFacts
  <2>2. Queued \in Nat /\ Len(pipeline) \in Nat /\ Len(ready) \in Nat
    BY <1>1, QueuedType
  <2>3. Queued' = Queued - 1 /\ Queued > 0
    BY <1>3, <2>1, <2>2 DEF Queued
  <2> QED
    BY <1>1, <1>3, <2>1, <2>3, TakeKeeps DEF TypeOK
<1>4. CASE /\ handler' = "shifting"
           /\ UNCHANGED <<queueVars, pipeline, remoteCounter, ready, decryptAborted, handled>>
  <2>1. TypeOK'
    BY <1>1, <1>4 DEF TypeOK, senderVars, queueVars
  <2> QED
    BY <1>4, <2>1 DEF ChannelInv, PumpReady, Bounded, Queued, queueVars
<1> QED
  BY <1>2, <1>3, <1>4 DEF NextCommand, HandlerLeaves, Receive

-----------------------------------------------------------------------------
LEMMA NextChannelInv == ChannelInv /\ [Next]_vars => ChannelInv'
<1> SUFFICES ASSUME ChannelInv, [Next]_vars PROVE ChannelInv'
  OBVIOUS
<1>1. CASE UNCHANGED vars
  BY <1>1
  DEF ChannelInv, TypeOK, PumpReady, Bounded, Queued, vars, senderVars, queueVars, decryptVars
<1> QED
  BY <1>1, WriteKeeps, SendKeeps, SenderEventsKeep, ArriveKeeps, PumpBlocksKeeps, PumpPushesKeeps,
     PumpEndsKeeps, DecryptedKeeps, NextCommandKeeps, SocketClosesKeeps, ReceiverAbortsKeeps
  DEF Next, Quiet

(* The inductive invariant of the channel holds in every reachable state.    *)
THEOREM ChannelCorrect == Spec => []ChannelInv
<1> QED
  BY InitChannelInv, NextChannelInv, PTL DEF Spec

(* Whatever the peer sends and however fast, at most decryptQueueSize of its *)
(* packets are being decrypted or wait for the handler.                      *)
THEOREM BoundedCorrect == Spec => []Bounded
<1>1. ChannelInv => Bounded
  BY DEF ChannelInv
<1> QED
  BY <1>1, ChannelCorrect, PTL

(* Every variable of the channel keeps its type, whatever the queues' sizes.  *)
THEOREM TypesCorrect == Spec => []TypeOK
<1>1. ChannelInv => TypeOK
  BY DEF ChannelInv
<1> QED
  BY <1>1, ChannelCorrect, PTL


-----------------------------------------------------------------------------
(* NothingLost and NoncesAgree say what is where while nothing is broken.    *)
(* The invariant behind them holds whatever breaks: from the handler back to *)
(* the writer each place continues the numbers of the one before it, up to   *)
(* the first packet that the program did not seal; behind that one nothing   *)
(* has to be known, for it ends the handler.                                 *)
Holding == pump \in {"got", "blocked", "released"}

Held == IF Holding THEN held ELSE <<>>

Clean(s) == \A n \in 1..Len(s) : s[n].iv # Foreign

(* p is the packet that was sealed with counter c.                           *)
IsPacket(p, c) == p.message = c - FirstCounter + 1 /\ p.iv = EncodeIV(Role, c)

(* The packets of s, as long as they are the program's, are those of the      *)
(* counters from c on.                                                       *)
Numbered(s, c) ==
  \A n \in 1..Len(s) : (\A i \in 1..n : s[i].iv # Foreign) => IsPacket(s[n], c + n - 1)

Commands(s, c) ==
  \A n \in 1..Len(s) : (\A i \in 1..n : s[i] # Failure) => s[n] = c + n

CleanReady == \A n \in 1..Len(ready) : ready[n] # Failure
CleanPipeline == CleanReady /\ Clean(pipeline)
CleanHeld == CleanPipeline /\ Clean(Held)
CleanCiphered == CleanHeld /\ Clean(ciphered)
CleanWire == CleanCiphered /\ Clean(wire)

AtCiphered == remoteCounter + Len(Held)
AtWire == AtCiphered + Len(ciphered)
AtSealing == AtWire + Len(wire)

SenderInv ==
  /\ Len(sealing) = IF writer = "sealing" THEN 1 ELSE 0
  /\ Clean(sealing) /\ Numbered(sealing, localCounter - 1)
  /\ writer = "shifting" => outbox = <<>>
  /\ \A n \in 1..Len(outbox) : outbox[n] = localCounter - FirstCounter + n
  /\ ~writerAborted => localCounter - FirstCounter + Len(outbox) = written

WaitersInv ==
  /\ pump = "shifting" => held = <<>> /\ ciphered = <<>>
  /\ pump \in {"failed", "done"} => queueAborted
  /\ queueAborted => ciphered = <<>>
  /\ handler = "shifting" => ready = <<>>

HandlerInv ==
  /\ \A n \in 1..Len(handled) : handled[n] = n
  /\ Commands(ready, Len(handled))
  /\ \A n \in 1..Len(pipeline) : pipeline[n].counter = remoteCounter - Len(pipeline) + n - 1
  /\ ~decryptAborted => remoteCounter = FirstCounter + Len(handled) + Len(ready) + Len(pipeline)

TransitInv ==
  /\ ~garbage => CleanWire
  /\ ~decryptAborted =>
       /\ CleanReady => Numbered(pipeline, remoteCounter - Len(pipeline))
       /\ CleanPipeline => Numbered(Held, remoteCounter)
  /\ ~decryptAborted /\ ~queueAborted =>
       /\ CleanHeld => Numbered(ciphered, AtCiphered)
       /\ CleanCiphered => Numbered(wire, AtWire)
       /\ CleanWire /\ sendable => localCounter = AtSealing + Len(sealing)

StreamInv == SenderInv /\ WaitersInv /\ HandlerInv /\ TransitInv

-----------------------------------------------------------------------------
(* Sequences of packets.                                                     *)

LEMMA ForeignIsNone ==
  ASSUME NEW c, NEW p, IsPacket(p, c)
  PROVE  p.iv # Foreign
BY DEF IsPacket, EncodeIV, Foreign

LEMMA EmptyPlace ==
  ASSUME NEW c
  PROVE  Clean(<<>>) /\ Numbered(<<>>, c)
BY EmptySeq DEF Clean, Numbered

LEMMA SinglePlace ==
  ASSUME NEW p, NEW c \in Int
  PROVE  /\ Clean(<<p>>) <=> p.iv # Foreign
         /\ (p.iv # Foreign => IsPacket(p, c)) => Numbered(<<p>>, c)
         /\ Numbered(<<p>>, c) /\ p.iv # Foreign => IsPacket(p, c)
<1>1. Len(<<p>>) = 1 /\ <<p>>[1] = p /\ c + 1 - 1 = c
  OBVIOUS
<1>2. \A n \in 1..1 : n = 1
  OBVIOUS
<1> QED
  BY <1>1, <1>2 DEF Clean, Numbered

LEMMA AppendPlace ==
  ASSUME NEW S, NEW s \in Seq(S), NEW p \in S, NEW c \in Int
  PROVE  /\ Clean(Append(s, p)) <=> Clean(s) /\ p.iv # Foreign
         /\ Numbered(s, c) /\ (Clean(s) /\ p.iv # Foreign => IsPacket(p, c + Len(s)))
              => Numbered(Append(s, p), c)
<1> DEFINE t == Append(s, p)
<1>1. /\ Len(t) = Len(s) + 1 /\ Len(s) \in Nat
      /\ \A n \in 1..Len(s) : t[n] = s[n]
      /\ t[Len(s) + 1] = p
  BY AppendProperties, LenProperties
<1> HIDE DEF t
<1>2. \A n \in 1..Len(t) : n \in 1..Len(s) \/ n = Len(s) + 1
  BY <1>1
<1>3. 1..Len(s) \subseteq 1..Len(t) /\ Len(s) + 1 \in 1..Len(t)
  BY <1>1
<1>4. Clean(t) <=> Clean(s) /\ p.iv # Foreign
  BY <1>1, <1>2, <1>3 DEF Clean
<1>5. ASSUME Numbered(s, c), Clean(s) /\ p.iv # Foreign => IsPacket(p, c + Len(s)),
             NEW n \in 1..Len(t), \A i \in 1..n : t[i].iv # Foreign
      PROVE  IsPacket(t[n], c + n - 1)
  <2>1. CASE n \in 1..Len(s)
    <3>1. \A i \in 1..n : s[i].iv # Foreign
      BY <1>1, <1>5, <2>1
    <3> QED
      BY <1>1, <1>5, <2>1, <3>1 DEF Numbered
  <2>2. CASE n = Len(s) + 1
    <3>1. Clean(s) /\ p.iv # Foreign
      BY <1>1, <1>5, <2>2 DEF Clean
    <3>2. c + n - 1 = c + Len(s)
      BY <1>1, <2>2
    <3> QED
      BY <1>1, <1>5, <2>2, <3>1, <3>2
  <2> QED
    BY <1>2, <2>1, <2>2
<1> QED
  BY <1>4, <1>5 DEF Numbered, t

LEMMA TailPlace ==
  ASSUME NEW S, NEW s \in Seq(S), s # <<>>, NEW c \in Int
  PROVE  /\ Clean(s) <=> Head(s).iv # Foreign /\ Clean(Tail(s))
         /\ Numbered(s, c) /\ Head(s).iv # Foreign =>
              IsPacket(Head(s), c) /\ Numbered(Tail(s), c + 1)
<1> DEFINE t == Tail(s)
           h == Head(s)
<1>1. /\ Len(t) = Len(s) - 1 /\ Len(s) \in Nat \ {0}
      /\ \A n \in 1..Len(t) : t[n] = s[n + 1]
      /\ h = s[1]
  BY HeadTailProperties, EmptySeq
<1> HIDE DEF t, h
<1>2. \A n \in 1..Len(s) : n = 1 \/ n - 1 \in 1..Len(t)
  BY <1>1
<1>3. \A n \in 1..Len(t) : n + 1 \in 1..Len(s) /\ n \in Int
  BY <1>1
<1>4. Clean(s) <=> h.iv # Foreign /\ Clean(t)
  <2>1. ASSUME Clean(s)
        PROVE  h.iv # Foreign /\ Clean(t)
    BY <1>1, <1>3, <2>1 DEF Clean
  <2>2. ASSUME h.iv # Foreign, Clean(t), NEW n \in 1..Len(s)
        PROVE  s[n].iv # Foreign
    <3>1. CASE n = 1
      BY <1>1, <2>2, <3>1
    <3>2. CASE n - 1 \in 1..Len(t)
      <4>1. t[n - 1] = s[n]
        BY <1>1, <3>2
      <4> QED
        BY <2>2, <3>2, <4>1 DEF Clean
    <3> QED
      BY <1>2, <3>1, <3>2
  <2> QED
    BY <2>1, <2>2 DEF Clean
<1>5. ASSUME Numbered(s, c), h.iv # Foreign
      PROVE  IsPacket(h, c) /\ Numbered(t, c + 1)
  <2>1. IsPacket(h, c)
    <3>1. 1 \in 1..Len(s) /\ (\A i \in 1..1 : s[i].iv # Foreign) /\ c + 1 - 1 = c
      BY <1>1, <1>5
    <3> QED
      BY <1>1, <1>5, <3>1 DEF Numbered
  <2>2. ASSUME NEW n \in 1..Len(t), \A i \in 1..n : t[i].iv # Foreign
        PROVE  IsPacket(t[n], c + 1 + n - 1)
    <3>1. \A i \in 1..n + 1 : s[i].iv # Foreign
      <4>1. TAKE i \in 1..n + 1
      <4>2. CASE i = 1
        BY <1>1, <1>5, <4>2
      <4>3. CASE i # 1
        <5>1. i - 1 \in 1..n /\ i - 1 \in 1..Len(t) /\ i - 1 + 1 = i
          BY <1>1, <4>3
        <5>2. t[i - 1] = s[i]
          BY <1>1, <5>1
        <5> QED
          BY <2>2, <5>1, <5>2
      <4> QED
        BY <4>2, <4>3
    <3>2. IsPacket(s[n + 1], c + (n + 1) - 1)
      BY <1>3, <1>5, <3>1 DEF Numbered
    <3>3. c + (n + 1) - 1 = c + 1 + n - 1
      OBVIOUS
    <3> QED
      BY <1>1, <3>2, <3>3
  <2> QED
    BY <2>1, <2>2 DEF Numbered
<1> QED
  BY <1>4, <1>5 DEF t, h


LEMMA AppendCommand ==
  ASSUME NEW S, NEW s \in Seq(S), NEW x \in S, NEW c \in Int
  PROVE  /\ (\A n \in 1..Len(Append(s, x)) : Append(s, x)[n] # Failure) <=>
              (\A n \in 1..Len(s) : s[n] # Failure) /\ x # Failure
         /\ Commands(s, c) /\ ((\A n \in 1..Len(s) : s[n] # Failure) /\ x # Failure
                                 => x = c + Len(s) + 1)
              => Commands(Append(s, x), c)
<1> DEFINE t == Append(s, x)
<1>1. /\ Len(t) = Len(s) + 1 /\ Len(s) \in Nat
      /\ \A n \in 1..Len(s) : t[n] = s[n]
      /\ t[Len(s) + 1] = x
  BY AppendProperties, LenProperties
<1> HIDE DEF t
<1>2. \A n \in 1..Len(t) : n \in 1..Len(s) \/ n = Len(s) + 1
  BY <1>1
<1>3. 1..Len(s) \subseteq 1..Len(t) /\ Len(s) + 1 \in 1..Len(t)
  BY <1>1
<1>4. (\A n \in 1..Len(t) : t[n] # Failure) <=> (\A n \in 1..Len(s) : s[n] # Failure) /\ x # Failure
  BY <1>1, <1>2, <1>3
<1>5. ASSUME Commands(s, c),
             (\A n \in 1..Len(s) : s[n] # Failure) /\ x # Failure => x = c + Len(s) + 1,
             NEW n \in 1..Len(t), \A i \in 1..n : t[i] # Failure
      PROVE  t[n] = c + n
  <2>1. CASE n \in 1..Len(s)
    <3>1. \A i \in 1..n : s[i] # Failure
      BY <1>1, <1>5, <2>1
    <3> QED
      BY <1>1, <1>5, <2>1, <3>1 DEF Commands
  <2>2. CASE n = Len(s) + 1
    <3>1. (\A i \in 1..Len(s) : s[i] # Failure) /\ x # Failure
      BY <1>1, <1>5, <2>2
    <3>2. c + n = c + Len(s) + 1
      BY <1>1, <2>2
    <3> QED
      BY <1>1, <1>5, <2>2, <3>1, <3>2
  <2> QED
    BY <1>2, <2>1, <2>2
<1> QED
  BY <1>4, <1>5 DEF Commands, t

LEMMA TailCommand ==
  ASSUME NEW S, NEW s \in Seq(S), s # <<>>, Head(s) # Failure, NEW c \in Int, Commands(s, c)
  PROVE  /\ Head(s) = c + 1 /\ Commands(Tail(s), c + 1)
         /\ (\A n \in 1..Len(s) : s[n] # Failure) <=>
              (\A n \in 1..Len(Tail(s)) : Tail(s)[n] # Failure)
<1> DEFINE t == Tail(s)
           h == Head(s)
<1>1. /\ Len(t) = Len(s) - 1 /\ Len(s) \in Nat \ {0}
      /\ \A n \in 1..Len(t) : t[n] = s[n + 1]
      /\ h = s[1] /\ h # Failure
  BY HeadTailProperties, EmptySeq
<1> HIDE DEF t, h
<1>2. \A n \in 1..Len(s) : n = 1 \/ (n - 1 \in 1..Len(t) /\ (n - 1) + 1 = n)
  BY <1>1
<1>3. \A n \in 1..Len(t) : n + 1 \in 1..Len(s) /\ n \in Int
  BY <1>1
<1>4. ASSUME \A n \in 1..Len(t) : t[n] # Failure, NEW n \in 1..Len(s)
      PROVE  s[n] # Failure
  <2>1. CASE n = 1
    BY <1>1, <2>1
  <2>2. CASE n - 1 \in 1..Len(t) /\ (n - 1) + 1 = n
    <3>1. t[n - 1] = s[n]
      BY <1>1, <2>2
    <3> QED
      BY <1>4, <2>2, <3>1
  <2> QED
    BY <1>2, <2>1, <2>2
<1>5. h = c + 1
  <2>1. 1 \in 1..Len(s) /\ \A i \in 1..1 : s[i] # Failure
    BY <1>1
  <2> QED
    BY <1>1, <2>1 DEF Commands
<1>6. ASSUME NEW n \in 1..Len(t), \A i \in 1..n : t[i] # Failure
      PROVE  t[n] = c + 1 + n
  <2>1. \A i \in 1..n + 1 : s[i] # Failure
    <3>1. TAKE i \in 1..n + 1
    <3>2. CASE i = 1
      BY <1>1, <3>2
    <3>3. CASE i # 1
      <4>1. i - 1 \in 1..n /\ i - 1 \in 1..Len(t) /\ i - 1 + 1 = i
        BY <1>1, <3>3
      <4>2. t[i - 1] = s[i]
        BY <1>1, <4>1
      <4> QED
        BY <1>6, <4>1, <4>2
    <3> QED
      BY <3>2, <3>3
  <2>2. s[n + 1] = c + (n + 1)
    BY <1>3, <2>1 DEF Commands
  <2> QED
    BY <1>1, <2>2
<1> QED
  BY <1>1, <1>3, <1>4, <1>5, <1>6 DEF Commands, t, h

-----------------------------------------------------------------------------
(* The sender numbers its packets without a gap.                             *)

LEMMA PlacesTyped ==
  ASSUME ChannelInv
  PROVE  /\ ready \in Seq(Messages \cup {Failure}) /\ pipeline \in Seq(Jobs)
         /\ held \in Seq(Packets) /\ Held \in Seq(Packets) /\ ciphered \in Seq(Packets)
         /\ wire \in Seq(Packets) /\ sealing \in Seq(Packets)
         /\ outbox \in Seq(Messages) /\ handled \in Seq(Messages)
         /\ written \in Int /\ localCounter \in Int /\ remoteCounter \in Int /\ FirstCounter \in Int
         /\ Len(ready) \in Nat /\ Len(pipeline) \in Nat /\ Len(Held) \in Nat
         /\ Len(ciphered) \in Nat /\ Len(wire) \in Nat /\ Len(sealing) \in Nat
         /\ Len(outbox) \in Nat /\ Len(handled) \in Nat
         /\ Holding => Len(held) = 1
<1>1. TypeOK /\ PumpReady
  BY DEF ChannelInv
<1>2. Held \in Seq(Packets)
  BY <1>1, EmptySeq DEF Held, TypeOK
<1>3. /\ Len(ready) \in Nat /\ Len(pipeline) \in Nat /\ Len(Held) \in Nat
      /\ Len(ciphered) \in Nat /\ Len(wire) \in Nat /\ Len(sealing) \in Nat
      /\ Len(outbox) \in Nat /\ Len(handled) \in Nat
  BY <1>1, <1>2, LenProperties DEF TypeOK
<1>4. FirstCounter \in Int /\ written \in Int
  BY <1>1, ChannelAssumption DEF ChannelAssumption, TypeOK
<1> QED
  BY <1>1, <1>2, <1>3, <1>4 DEF TypeOK, PumpReady, Holding

LEMMA EncryptSeals ==
  ASSUME ChannelInv, Encrypt(localCounter - FirstCounter + 1)
  PROVE  /\ writer' = "sealing" /\ localCounter' = localCounter + 1
         /\ Len(sealing') = 1
         /\ Clean(sealing') /\ Numbered(sealing', localCounter' - 1)
<1> DEFINE p == [message |-> localCounter - FirstCounter + 1, iv |-> EncodeIV(Role, localCounter)]
<1>1. writer' = "sealing" /\ localCounter' = localCounter + 1 /\ sealing' = <<p>>
  BY DEF Encrypt
<1>2. IsPacket(p, localCounter)
  BY DEF IsPacket
<1>3. localCounter \in Int /\ localCounter' - 1 = localCounter
  BY <1>1, PlacesTyped
<1> HIDE DEF p
<1>4. p.iv # Foreign
  BY <1>2, ForeignIsNone
<1>5. Clean(<<p>>) /\ Numbered(<<p>>, localCounter)
  BY <1>2, <1>3, <1>4, SinglePlace
<1> QED
  BY <1>1, <1>3, <1>5

LEMMA WriteSender ==
  ASSUME ChannelInv, SenderInv, Write
  PROVE  SenderInv' /\ localCounter' - Len(sealing') = localCounter - Len(sealing)
<1>1. /\ outbox \in Seq(Messages) /\ Len(outbox) \in Nat /\ written \in Int
      /\ localCounter \in Int /\ FirstCounter \in Int /\ Len(sealing) \in Nat
  BY PlacesTyped
<1>2. written' = written + 1 /\ writerAborted' = writerAborted
  BY DEF Write
<1>3. CASE writerAborted /\ UNCHANGED <<outbox, writer, sealing, localCounter>>
  BY <1>2, <1>3 DEF SenderInv
<1>4. CASE ~writerAborted /\ writer = "shifting" /\ Encrypt(written + 1) /\ UNCHANGED outbox
  <2>1. outbox = <<>> /\ Len(outbox) = 0
    BY <1>4, EmptySeq DEF SenderInv
  <2>2. written + 1 = localCounter - FirstCounter + 1
    BY <1>1, <1>4, <2>1 DEF SenderInv
  <2>3. /\ writer' = "sealing" /\ localCounter' = localCounter + 1
        /\ Len(sealing') = 1
        /\ Clean(sealing') /\ Numbered(sealing', localCounter' - 1)
    BY <1>4, <2>2, EncryptSeals
  <2>4. Len(sealing) = 0
    BY <1>4 DEF SenderInv
  <2> QED
    BY <1>1, <1>2, <1>4, <2>1, <2>2, <2>3, <2>4 DEF SenderInv
<1>5. CASE /\ ~writerAborted /\ writer # "shifting" /\ outbox' = Append(outbox, written + 1)
           /\ UNCHANGED <<writer, sealing, localCounter>>
  <2>1. written + 1 \in Messages
    BY <1>1, ChannelAssumption DEF ChannelAssumption, ChannelInv, TypeOK, Write, Messages
  <2>2. /\ Len(outbox') = Len(outbox) + 1
        /\ \A n \in 1..Len(outbox) : outbox'[n] = outbox[n]
        /\ outbox'[Len(outbox) + 1] = written + 1
    BY <1>1, <1>5, <2>1, AppendProperties
  <2>3. written = localCounter - FirstCounter + Len(outbox)
    BY <1>1, <1>5 DEF SenderInv
  <2>4. \A n \in 1..Len(outbox') : outbox'[n] = localCounter - FirstCounter + n
    <3>1. \A n \in 1..Len(outbox') : n \in 1..Len(outbox) \/ n = Len(outbox) + 1
      BY <1>1, <2>2
    <3>2. \A n \in 1..Len(outbox) : outbox[n] = localCounter - FirstCounter + n
      BY DEF SenderInv
    <3>3. written + 1 = localCounter - FirstCounter + (Len(outbox) + 1)
      BY <1>1, <2>3
    <3> QED
      BY <2>2, <3>1, <3>2, <3>3
  <2>5. localCounter' - FirstCounter + Len(outbox') = written'
    BY <1>1, <1>2, <1>5, <2>2, <2>3
  <2>6. /\ Clean(sealing') /\ Numbered(sealing', localCounter' - 1)
        /\ Len(sealing') = IF writer' = "sealing" THEN 1 ELSE 0
    BY <1>5 DEF SenderInv
  <2>7. \A n \in 1..Len(outbox') : outbox'[n] = localCounter' - FirstCounter + n
    BY <1>5, <2>4
  <2>8. SenderInv'
    BY <1>5, <2>5, <2>6, <2>7 DEF SenderInv
  <2> QED
    BY <1>5, <2>8
<1> QED
  BY <1>3, <1>4, <1>5 DEF Write

LEMMA ShiftsSender ==
  ASSUME ChannelInv, SenderInv, writer = "sealing", UNCHANGED <<written, writerAborted>>,
         \/ WriterShifts
         \/ writer' = "stopped" /\ sealing' = <<>> /\ UNCHANGED <<outbox, localCounter>>
  PROVE  SenderInv' /\ localCounter' - Len(sealing') = localCounter
<1>1. /\ outbox \in Seq(Messages) /\ Len(outbox) \in Nat /\ written \in Int
      /\ localCounter \in Int /\ FirstCounter \in Int
  BY PlacesTyped
<1>2. CASE /\ writer' \in {"stopped", "shifting"} /\ sealing' = <<>>
           /\ UNCHANGED <<outbox, localCounter>>
           /\ writer' = "shifting" => outbox = <<>>
  <2>1. Len(<<>>) = 0 /\ Clean(<<>>) /\ Numbered(<<>>, localCounter - 1)
    BY EmptySeq, EmptyPlace
  <2>2. sealing' = <<>> /\ localCounter' = localCounter /\ outbox' = outbox
    BY <1>2
  <2> QED
    BY <1>1, <1>2, <2>1, <2>2 DEF SenderInv
<1>3. CASE ~writerAborted /\ outbox # <<>> /\ Encrypt(Head(outbox)) /\ outbox' = Tail(outbox)
  <2>1. /\ Len(outbox') = Len(outbox) - 1 /\ Len(outbox) \in Nat \ {0}
        /\ \A n \in 1..Len(outbox') : outbox'[n] = outbox[n + 1]
        /\ Head(outbox) = outbox[1]
    BY <1>1, <1>3, HeadTailProperties, EmptySeq
  <2>2. \A n \in 1..Len(outbox) : outbox[n] = localCounter - FirstCounter + n
    BY DEF SenderInv
  <2>3. Head(outbox) = localCounter - FirstCounter + 1
    BY <2>1, <2>2
  <2>4. /\ writer' = "sealing" /\ localCounter' = localCounter + 1
        /\ Len(sealing') = 1
        /\ Clean(sealing') /\ Numbered(sealing', localCounter' - 1)
    BY <1>3, <2>3, EncryptSeals
  <2>5. \A n \in 1..Len(outbox') : outbox'[n] = localCounter' - FirstCounter + n
    <3>1. TAKE n \in 1..Len(outbox')
    <3>2. n + 1 \in 1..Len(outbox) /\ n \in Int
      BY <2>1
    <3>3. outbox'[n] = localCounter - FirstCounter + (n + 1)
      BY <2>1, <2>2, <3>2
    <3> QED
      BY <1>1, <2>4, <3>2, <3>3
  <2>6. localCounter' - FirstCounter + Len(outbox') = localCounter - FirstCounter + Len(outbox)
    BY <1>1, <2>1, <2>4
  <2>7. ~writerAborted' => localCounter' - FirstCounter + Len(outbox') = written'
    BY <1>1, <1>3, <2>6 DEF SenderInv
  <2> QED
    BY <1>1, <2>4, <2>5, <2>7 DEF SenderInv
<1> QED
  BY <1>2, <1>3 DEF WriterShifts

LEMMA WriterAbortsSender ==
  ASSUME ChannelInv, SenderInv, WriterAborts
  PROVE  SenderInv' /\ localCounter' - Len(sealing') = localCounter - Len(sealing)
<1>1. /\ writerAborted' = TRUE /\ outbox' = <<>> /\ UNCHANGED <<sealing, localCounter>>
      /\ writer' = IF writer = "shifting" THEN "stopped" ELSE writer
  BY DEF WriterAborts
<1>2. Len(outbox') = 0
  BY <1>1, EmptySeq
<1>3. Clean(sealing') /\ Numbered(sealing', localCounter' - 1)
  BY <1>1 DEF SenderInv
<1>4. Len(sealing') = IF writer' = "sealing" THEN 1 ELSE 0
  BY <1>1 DEF SenderInv
<1>5. \A n \in 1..Len(outbox') : FALSE
  BY <1>2
<1> QED
  BY <1>1, <1>3, <1>4, <1>5 DEF SenderInv

(* A step of the sender that puts nothing on the wire.                       *)
LEMMA SenderOnly ==
  ASSUME StreamInv, SenderInv', UNCHANGED <<wire, garbage, queueVars, decryptVars>>,
         sendable' => sendable /\ localCounter' - Len(sealing') = localCounter - Len(sealing),
         ChannelInv, ChannelInv'
  PROVE  StreamInv'
<1>1. UNCHANGED <<wire, garbage, ciphered, queueAborted, pump, held, pipeline, remoteCounter,
                  ready, decryptAborted, handler, handled>>
  BY DEF queueVars, decryptVars
<1>2. UNCHANGED <<Held, AtCiphered, AtWire, AtSealing, CleanReady, CleanPipeline, CleanHeld,
                  CleanCiphered, CleanWire>>
  BY <1>1 DEF Held, Holding, AtCiphered, AtWire, AtSealing, CleanReady, CleanPipeline, CleanHeld,
              CleanCiphered, CleanWire
<1>3. WaitersInv' /\ HandlerInv'
  BY <1>1 DEF StreamInv, WaitersInv, HandlerInv
<1>4. /\ Len(sealing) \in Nat /\ Len(sealing') \in Nat /\ localCounter \in Int /\ localCounter' \in Int
      /\ AtSealing \in Int
  <2>1. Len(sealing) \in Nat /\ localCounter \in Int /\ AtSealing \in Int
    BY PlacesTyped DEF AtSealing, AtWire, AtCiphered
  <2>2. sealing' \in Seq(Packets) /\ localCounter' \in Int
    BY DEF ChannelInv, TypeOK
  <2> QED
    BY <2>1, <2>2, LenProperties
<1>5. ASSUME ~decryptAborted', ~queueAborted', CleanWire', sendable'
      PROVE  localCounter' = AtSealing' + Len(sealing')
  <2>1. localCounter = AtSealing + Len(sealing)
    BY <1>1, <1>2, <1>5 DEF StreamInv, TransitInv
  <2> QED
    BY <1>2, <1>4, <1>5, <2>1
<1>6. TransitInv'
  BY <1>1, <1>2, <1>5 DEF StreamInv, TransitInv
<1> QED
  BY <1>3, <1>6 DEF StreamInv


(* A packet, or a frame of somebody else, is put on the wire.                *)
LEMMA WireGrows ==
  ASSUME ChannelInv, StreamInv, ChannelInv', SenderInv',
         NEW p \in Packets, wire' = Append(wire, p), UNCHANGED <<queueVars, decryptVars>>,
         ~garbage' => ~garbage /\ p.iv # Foreign,
         ~decryptAborted /\ ~queueAborted /\ CleanWire /\ p.iv # Foreign =>
           /\ IsPacket(p, AtSealing)
           /\ sendable' => localCounter' = AtSealing + 1 + Len(sealing')
  PROVE  StreamInv'
<1>1. UNCHANGED <<ciphered, queueAborted, pump, held, pipeline, remoteCounter,
                  ready, decryptAborted, handler, handled>>
  BY DEF queueVars, decryptVars
<1>2. UNCHANGED <<Held, AtCiphered, AtWire, CleanReady, CleanPipeline, CleanHeld, CleanCiphered>>
  BY <1>1 DEF Held, Holding, AtCiphered, AtWire, CleanReady, CleanPipeline, CleanHeld, CleanCiphered
<1>3. WaitersInv' /\ HandlerInv'
  BY <1>1 DEF StreamInv, WaitersInv, HandlerInv
<1>4. wire \in Seq(Packets) /\ Len(wire) \in Nat /\ AtWire \in Int
      /\ AtSealing = AtWire + Len(wire)
  BY PlacesTyped DEF AtSealing, AtWire, AtCiphered
<1>5. /\ Clean(wire') <=> Clean(wire) /\ p.iv # Foreign
      /\ Numbered(wire, AtWire) /\ (Clean(wire) /\ p.iv # Foreign => IsPacket(p, AtWire + Len(wire)))
           => Numbered(wire', AtWire)
      /\ Len(wire') = Len(wire) + 1
  BY <1>4, AppendPlace, AppendProperties
<1>6. CleanWire' <=> CleanWire /\ p.iv # Foreign
  BY <1>2, <1>5 DEF CleanWire
<1>7. AtSealing' = AtSealing + 1
  BY <1>2, <1>4, <1>5 DEF AtSealing
<1>8. ASSUME ~decryptAborted', ~queueAborted', CleanCiphered'
      PROVE  Numbered(wire', AtWire')
  <2>1. Numbered(wire, AtWire) /\ CleanCiphered
    BY <1>1, <1>2, <1>8 DEF StreamInv, TransitInv
  <2>2. Clean(wire) /\ p.iv # Foreign => IsPacket(p, AtWire + Len(wire))
    BY <1>1, <1>4, <1>8, <2>1 DEF CleanWire
  <2> QED
    BY <1>2, <1>5, <2>1, <2>2
<1>9. ASSUME ~decryptAborted', ~queueAborted', CleanWire', sendable'
      PROVE  localCounter' = AtSealing' + Len(sealing')
  BY <1>1, <1>6, <1>7, <1>9
<1>10. TransitInv'
  BY <1>1, <1>2, <1>6, <1>8, <1>9 DEF StreamInv, TransitInv
<1> QED
  BY <1>3, <1>10 DEF StreamInv

LEMMA SendStream ==
  ASSUME ChannelInv, StreamInv, ChannelInv', Send
  PROVE  StreamInv'
<1>1. /\ writer = "sealing"
      /\ UNCHANGED <<written, writerAborted, sendable, garbage, queueVars, decryptVars>>
      /\ wire' = IF sendable THEN wire \o sealing ELSE wire
      /\ \/ WriterShifts
         \/ writer' = "stopped" /\ sealing' = <<>> /\ UNCHANGED <<outbox, localCounter>>
  BY DEF Send
<1>2. SenderInv' /\ localCounter' - Len(sealing') = localCounter
  BY <1>1, ShiftsSender DEF StreamInv
<1>3. CASE ~sendable
  <2>1. UNCHANGED <<wire, garbage, queueVars, decryptVars>> /\ ~sendable'
    BY <1>1, <1>3
  <2> QED
    BY <1>2, <2>1, SenderOnly
<1>4. CASE sendable
  <2> DEFINE p == sealing[1]
  <2>1. sealing \in Seq(Packets) /\ wire \in Seq(Packets) /\ Len(wire) \in Nat /\ Len(sealing) = 1
    BY <1>1, PlacesTyped DEF StreamInv, SenderInv
  <2>2. p \in Packets /\ sealing = <<p>>
    BY <2>1, ElementOfSeq
  <2>3. wire' = Append(wire, p)
    <3>1. wire' = wire \o <<p>>
      BY <1>1, <1>4, <2>2
    <3> QED
      BY <2>1, <2>2, <3>1
  <2>4. localCounter \in Int /\ localCounter - 1 \in Int
    BY PlacesTyped
  <2>5. Clean(<<p>>) /\ Numbered(<<p>>, localCounter - 1)
    BY <2>2 DEF StreamInv, SenderInv
  <2> HIDE DEF p
  <2>6. p.iv # Foreign /\ IsPacket(p, localCounter - 1)
    BY <2>4, <2>5, SinglePlace
  <2>7. ASSUME ~decryptAborted, ~queueAborted, CleanWire
        PROVE  AtSealing = localCounter - 1
    <3>1. localCounter = AtSealing + Len(sealing)
      BY <1>4, <2>7 DEF StreamInv, TransitInv
    <3>2. AtSealing \in Int
      BY PlacesTyped DEF AtSealing, AtWire, AtCiphered
    <3> QED
      BY <2>1, <2>4, <3>1, <3>2
  <2>8. Len(sealing') \in Nat /\ localCounter' \in Int
    BY LenProperties DEF ChannelInv, TypeOK
  <2>9. ~decryptAborted /\ ~queueAborted /\ CleanWire /\ p.iv # Foreign =>
           /\ IsPacket(p, AtSealing)
           /\ sendable' => localCounter' = AtSealing + 1 + Len(sealing')
    BY <1>2, <2>4, <2>6, <2>7, <2>8
  <2> QED
    BY <1>1, <1>2, <2>2, <2>3, <2>6, <2>9, WireGrows
<1> QED
  BY <1>3, <1>4

LEMMA SenderStream ==
  ASSUME ChannelInv, StreamInv, ChannelInv', Write \/ WriterAborts \/ SocketLost \/ SendGarbage
  PROVE  StreamInv'
<1>1. SenderInv
  BY DEF StreamInv
<1>2. CASE Write
  <2>1. SenderInv' /\ localCounter' - Len(sealing') = localCounter - Len(sealing)
    BY <1>1, <1>2, WriteSender
  <2>2. UNCHANGED <<wire, garbage, queueVars, decryptVars>> /\ sendable' = sendable
    BY <1>2 DEF Write
  <2> QED
    BY <2>1, <2>2, SenderOnly
<1>3. CASE WriterAborts
  <2>1. SenderInv' /\ localCounter' - Len(sealing') = localCounter - Len(sealing)
    BY <1>1, <1>3, WriterAbortsSender
  <2>2. UNCHANGED <<wire, garbage, queueVars, decryptVars>> /\ sendable' = sendable
    BY <1>3 DEF WriterAborts
  <2> QED
    BY <2>1, <2>2, SenderOnly
<1>4. CASE SocketLost
  <2>1. /\ UNCHANGED <<written, outbox, writer, sealing, localCounter, writerAborted>>
        /\ UNCHANGED <<wire, garbage, queueVars, decryptVars>> /\ ~sendable'
    BY <1>4 DEF SocketLost
  <2>2. SenderInv'
    BY <1>1, <2>1 DEF SenderInv
  <2> QED
    BY <2>1, <2>2, SenderOnly
<1>5. CASE SendGarbage
  <2> DEFINE p == [message |-> 1, iv |-> Foreign]
  <2>1. /\ wire' = Append(wire, p) /\ garbage'
        /\ UNCHANGED <<queueVars, decryptVars>> /\ UNCHANGED senderVars
    BY <1>5 DEF SendGarbage
  <2>2. p \in Packets /\ p.iv = Foreign
    BY ChannelAssumption DEF ChannelAssumption, Packets, Messages
  <2>3. SenderInv'
    BY <1>1, <2>1 DEF SenderInv, senderVars
  <2> HIDE DEF p
  <2> QED
    BY <2>1, <2>2, <2>3, WireGrows
<1> QED
  BY <1>2, <1>3, <1>4, <1>5

-----------------------------------------------------------------------------
(* From the wire to the decryption.                                          *)

LEMMA ArriveStream ==
  ASSUME ChannelInv, StreamInv, ChannelInv', Arrive
  PROVE  StreamInv'
<1> DEFINE h == Head(wire)
           t == Tail(wire)
<1>1. /\ wire # <<>> /\ wire' = t
      /\ UNCHANGED <<garbage, pipeline, remoteCounter, ready, decryptAborted, handler, handled,
                     queueAborted>>
      /\ UNCHANGED senderVars
  BY DEF Arrive, decryptVars, queueVars
<1>2. /\ wire \in Seq(Packets) /\ Len(wire) \in Nat /\ remoteCounter \in Int
      /\ Len(Held) \in Nat /\ ciphered \in Seq(Packets) /\ Len(ciphered) \in Nat
  BY PlacesTyped
<1>3. h \in Packets /\ t \in Seq(Packets) /\ Len(t) = Len(wire) - 1
  BY <1>1, <1>2, HeadTailProperties
<1>4. AtCiphered \in Int /\ AtWire \in Int /\ AtCiphered = remoteCounter + Len(Held)
      /\ AtWire = AtCiphered + Len(ciphered) /\ AtSealing = AtWire + Len(wire)
  BY <1>2 DEF AtCiphered, AtWire, AtSealing
<1>5. /\ Clean(wire) <=> h.iv # Foreign /\ Clean(t)
      /\ Numbered(wire, AtWire) /\ h.iv # Foreign =>
           IsPacket(h, AtWire) /\ Numbered(t, AtWire + 1)
  BY <1>1, <1>2, <1>4, TailPlace
<1>6. SenderInv' /\ HandlerInv'
  BY <1>1 DEF StreamInv, SenderInv, HandlerInv, senderVars
<1>7. UNCHANGED <<CleanReady, CleanPipeline>>
  BY <1>1 DEF CleanReady, CleanPipeline
<1> HIDE DEF h, t
<1>8. CASE queueAborted
  <2>1. UNCHANGED <<pump, held, ciphered>>
    BY <1>8 DEF Arrive, queueVars
  <2>2. UNCHANGED <<Held, CleanHeld, CleanCiphered>> /\ (CleanWire => CleanWire')
    BY <1>1, <1>5, <1>7, <2>1 DEF Held, Holding, CleanHeld, CleanCiphered, CleanWire
  <2>3. WaitersInv'
    BY <1>1, <2>1 DEF StreamInv, WaitersInv
  <2>4. TransitInv'
    BY <1>1, <1>7, <1>8, <2>2 DEF StreamInv, TransitInv
  <2> QED
    BY <1>6, <2>3, <2>4 DEF StreamInv
<1>9. CASE ~queueAborted /\ pump = "shifting"
  <2>1. pump' = "got" /\ held' = <<h>> /\ ciphered' = ciphered
    BY <1>9 DEF Arrive, h
  <2>2. held = <<>> /\ ciphered = <<>> /\ Held = <<>> /\ Held' = <<h>>
    BY <1>9, <2>1 DEF StreamInv, WaitersInv, Held, Holding
  <2>3. Len(<<>>) = 0 /\ Clean(<<>>) /\ \A c : Numbered(<<>>, c)
    BY EmptySeq, EmptyPlace
  <2>4. AtWire = remoteCounter /\ Len(Held') = 1 /\ Len(ciphered') = 0
    BY <1>2, <1>4, <2>1, <2>2, <2>3
  <2>5. AtCiphered' = remoteCounter + 1 /\ AtWire' = AtWire + 1 /\ AtSealing' = AtSealing
    BY <1>1, <1>2, <1>3, <1>4, <2>4 DEF AtCiphered, AtWire, AtSealing
  <2>6. /\ Clean(Held') <=> h.iv # Foreign
        /\ (h.iv # Foreign => IsPacket(h, remoteCounter)) => Numbered(Held', remoteCounter)
    BY <1>2, <2>2, SinglePlace
  <2>7. /\ CleanCiphered <=> CleanPipeline
        /\ CleanHeld' <=> CleanPipeline /\ h.iv # Foreign
        /\ CleanCiphered' <=> CleanHeld'
        /\ CleanWire' <=> CleanWire
    BY <1>1, <1>5, <1>7, <2>1, <2>2, <2>3, <2>6 DEF CleanHeld, CleanCiphered, CleanWire
  <2>8. ASSUME ~decryptAborted, CleanPipeline
        PROVE  Numbered(wire, AtWire)
    BY <1>9, <2>7, <2>8 DEF StreamInv, TransitInv
  <2>9. ~decryptAborted' /\ CleanPipeline' => Numbered(Held', remoteCounter')
    BY <1>1, <1>5, <1>7, <2>4, <2>6, <2>8
  <2>10. Numbered(ciphered', AtCiphered')
    BY <2>1, <2>2, <2>3
  <2>11. ~decryptAborted' /\ CleanCiphered' => Numbered(wire', AtWire')
    BY <1>1, <1>5, <2>5, <2>7, <2>8
  <2>12. WaitersInv'
    BY <1>1, <1>9, <2>1, <2>2 DEF StreamInv, WaitersInv
  <2>13. UNCHANGED <<localCounter, sendable, sealing>>
    BY <1>1 DEF senderVars
  <2>14. TransitInv'
    BY <1>1, <1>7, <1>9, <2>5, <2>7, <2>9, <2>10, <2>11, <2>13 DEF StreamInv, TransitInv
  <2> QED
    BY <1>6, <2>12, <2>14 DEF StreamInv
<1>10. CASE ~queueAborted /\ pump # "shifting"
  <2>1. ciphered' = Append(ciphered, h) /\ UNCHANGED <<pump, held>>
    BY <1>10 DEF Arrive, h
  <2>2. UNCHANGED <<Held, CleanHeld, AtCiphered>>
    BY <1>1, <1>7, <2>1 DEF Held, Holding, CleanHeld, AtCiphered
  <2>3. /\ Clean(ciphered') <=> Clean(ciphered) /\ h.iv # Foreign
        /\ Numbered(ciphered, AtCiphered)
             /\ (Clean(ciphered) /\ h.iv # Foreign => IsPacket(h, AtCiphered + Len(ciphered)))
             => Numbered(ciphered', AtCiphered)
        /\ Len(ciphered') = Len(ciphered) + 1
    BY <1>2, <1>3, <1>4, <2>1, AppendPlace, AppendProperties
  <2>4. AtWire' = AtWire + 1 /\ AtSealing' = AtSealing
    BY <1>1, <1>2, <1>3, <1>4, <2>2, <2>3 DEF AtWire, AtSealing
  <2>5. /\ CleanCiphered' <=> CleanCiphered /\ h.iv # Foreign
        /\ CleanWire' <=> CleanWire
    BY <1>1, <1>5, <2>2, <2>3 DEF CleanCiphered, CleanWire
  <2>6. ASSUME ~decryptAborted, CleanHeld
        PROVE  Numbered(ciphered', AtCiphered)
    <3>1. Numbered(ciphered, AtCiphered)
      BY <1>10, <2>6 DEF StreamInv, TransitInv
    <3>2. ASSUME Clean(ciphered), h.iv # Foreign
          PROVE  IsPacket(h, AtCiphered + Len(ciphered))
      <4>1. Numbered(wire, AtWire)
        BY <1>10, <2>6, <3>2 DEF StreamInv, TransitInv, CleanCiphered
      <4> QED
        BY <1>4, <1>5, <3>2, <4>1
    <3> QED
      BY <2>3, <3>1, <3>2
  <2>7. ASSUME ~decryptAborted, CleanCiphered'
        PROVE  Numbered(wire', AtWire')
    <3>1. Numbered(wire, AtWire) /\ h.iv # Foreign
      BY <1>10, <2>5, <2>7 DEF StreamInv, TransitInv
    <3> QED
      BY <1>1, <1>5, <2>4, <3>1
  <2>8. WaitersInv'
    BY <1>1, <1>10, <2>1 DEF StreamInv, WaitersInv
  <2>9. UNCHANGED <<localCounter, sendable, sealing>>
    BY <1>1 DEF senderVars
  <2>10. TransitInv'
    BY <1>1, <1>7, <1>10, <2>2, <2>4, <2>5, <2>6, <2>7, <2>9 DEF StreamInv, TransitInv
  <2> QED
    BY <1>6, <2>8, <2>10 DEF StreamInv
<1> QED
  BY <1>8, <1>9, <1>10


LEMMA PumpBlocksStream ==
  ASSUME ChannelInv, StreamInv, PumpBlocks
  PROVE  StreamInv'
<1>1. /\ pump = "got" /\ pump' = "blocked" /\ UNCHANGED <<wire, garbage, ciphered, queueAborted, held>>
      /\ UNCHANGED senderVars /\ UNCHANGED decryptVars
  BY DEF PumpBlocks
<1>2. UNCHANGED <<pipeline, remoteCounter, ready, decryptAborted, handler, handled>>
  BY <1>1 DEF decryptVars
<1>3. UNCHANGED <<Held, AtCiphered, AtWire, AtSealing, CleanReady, CleanPipeline, CleanHeld,
                  CleanCiphered, CleanWire>>
  BY <1>1, <1>2 DEF Held, Holding, AtCiphered, AtWire, AtSealing, CleanReady, CleanPipeline,
                    CleanHeld, CleanCiphered, CleanWire
<1>4. SenderInv'
  BY <1>1 DEF StreamInv, SenderInv, senderVars
<1>5. WaitersInv' /\ HandlerInv'
  BY <1>1, <1>2 DEF StreamInv, WaitersInv, HandlerInv
<1>6. UNCHANGED <<localCounter, sendable, sealing>>
  BY <1>1 DEF senderVars
<1>7. TransitInv'
  BY <1>1, <1>2, <1>3, <1>6 DEF StreamInv, TransitInv
<1> QED
  BY <1>4, <1>5, <1>7 DEF StreamInv

(* The loop between the queues, when the packet it held is gone.             *)
LEMMA ShiftsPlaces ==
  ASSUME ChannelInv, StreamInv, Holding, PumpShifts, UNCHANGED queueAborted
  PROVE  /\ Len(Held') + Len(ciphered') = Len(ciphered) \/ queueAborted'
         /\ Clean(ciphered) => Clean(Held') /\ Clean(ciphered')
         /\ ~queueAborted' => (Clean(ciphered) <=> Clean(Held') /\ Clean(ciphered'))
         /\ queueAborted' => Held' = <<>> /\ ciphered' = <<>>
         /\ Len(Held') \in Nat /\ Len(ciphered') \in Nat
         /\ \A c \in Int : Numbered(ciphered, c) =>
              /\ Numbered(Held', c)
              /\ Clean(Held') => Numbered(ciphered', c + Len(Held'))
         /\ pump' = "shifting" => held' = <<>> /\ ciphered' = <<>>
         /\ pump' \in {"failed", "done"} => queueAborted'
<1>1. ciphered \in Seq(Packets) /\ Len(ciphered) \in Nat
  BY PlacesTyped
<1>2. /\ Len(<<>>) = 0 /\ Clean(<<>>) /\ (\A c : Numbered(<<>>, c))
      /\ queueAborted => ciphered = <<>>
  BY EmptySeq, EmptyPlace DEF StreamInv, WaitersInv
<1>3. CASE queueAborted /\ pump' = "failed" /\ held' = <<>> /\ UNCHANGED ciphered
  <2>1. Held' = <<>> /\ ciphered' = <<>>
    BY <1>2, <1>3 DEF Held, Holding
  <2> QED
    BY <1>2, <1>3, <2>1
<1>4. CASE ~queueAborted /\ ciphered = <<>> /\ pump' = "shifting" /\ held' = <<>>
           /\ UNCHANGED ciphered
  <2>1. Held' = <<>> /\ ciphered' = <<>>
    BY <1>4 DEF Held, Holding
  <2> QED
    BY <1>2, <1>4, <2>1
<1>5. CASE /\ ~queueAborted /\ ciphered # <<>>
           /\ pump' = "got" /\ held' = <<Head(ciphered)>> /\ ciphered' = Tail(ciphered)
  <2> DEFINE h == Head(ciphered)
  <2>1. Held' = <<h>> /\ Len(<<h>>) = 1
    BY <1>5 DEF Held, Holding
  <2>2. Len(ciphered') = Len(ciphered) - 1 /\ Len(ciphered') \in Nat
    BY <1>1, <1>5, HeadTailProperties, LenProperties
  <2>3. \A c \in Int : /\ Clean(ciphered) <=> h.iv # Foreign /\ Clean(ciphered')
                       /\ Numbered(ciphered, c) /\ h.iv # Foreign =>
                            IsPacket(h, c) /\ Numbered(ciphered', c + 1)
    BY <1>1, <1>5, TailPlace
  <2> HIDE DEF h
  <2>4. \A c \in Int : /\ Clean(Held') <=> h.iv # Foreign
                       /\ (h.iv # Foreign => IsPacket(h, c)) => Numbered(Held', c)
    BY <2>1, SinglePlace
  <2>5. 0 \in Int
    OBVIOUS
  <2>6. Clean(ciphered) <=> Clean(Held') /\ Clean(ciphered')
    BY <2>3, <2>4, <2>5
  <2>7. Len(Held') = 1
    BY <2>1
  <2>8. ASSUME NEW c \in Int, Numbered(ciphered, c)
        PROVE  Numbered(Held', c) /\ (Clean(Held') => Numbered(ciphered', c + Len(Held')))
    BY <2>3, <2>4, <2>7, <2>8
  <2> QED
    BY <1>1, <1>5, <2>2, <2>6, <2>7, <2>8
<1> QED
  BY <1>3, <1>4, <1>5 DEF PumpShifts


LEMMA PumpPushesStream ==
  ASSUME ChannelInv, StreamInv, PumpPushes
  PROVE  StreamInv'
<1> DEFINE p == held[1]
           job == [message |-> p.message, iv |-> p.iv, counter |-> remoteCounter]
<1>1. /\ Holding /\ PumpShifts
      /\ UNCHANGED <<wire, garbage, queueAborted, ready, decryptAborted, handler, handled>>
      /\ UNCHANGED senderVars
      /\ IF decryptAborted THEN UNCHANGED <<pipeline, remoteCounter>>
         ELSE pipeline' = Append(pipeline, job) /\ remoteCounter' = remoteCounter + 1
  BY DEF PumpPushes, Holding, Decrypt
<1>2. /\ pipeline \in Seq(Jobs) /\ Len(pipeline) \in Nat /\ remoteCounter \in Int
      /\ Len(ciphered) \in Nat /\ Len(wire) \in Nat /\ Len(ready) \in Nat /\ Len(handled) \in Nat
      /\ held \in Seq(Packets) /\ Len(held) = 1 /\ Held = held /\ FirstCounter \in Int
  BY <1>1, PlacesTyped DEF Held
<1>3. p \in Packets /\ held = <<p>> /\ Held = <<p>>
  <2>1. held \in Seq(Packets) /\ Len(held) = 1
    BY <1>2
  <2>2. held[1] \in Packets /\ held = <<held[1]>>
    BY <2>1, ElementOfSeq
  <2>3. Held = held
    BY <1>1 DEF Held
  <2> QED
    BY <2>2, <2>3
<1>4. job \in Jobs /\ job.message = p.message /\ job.iv = p.iv /\ job.counter = remoteCounter
  BY <1>3 DEF ChannelInv, TypeOK, Packets, Jobs
<1> HIDE DEF p, job
<1>5. /\ Len(Held') + Len(ciphered') = Len(ciphered) \/ queueAborted'
      /\ Clean(ciphered) => Clean(Held') /\ Clean(ciphered')
      /\ ~queueAborted' => (Clean(ciphered) <=> Clean(Held') /\ Clean(ciphered'))
      /\ queueAborted' => Held' = <<>> /\ ciphered' = <<>>
      /\ Len(Held') \in Nat /\ Len(ciphered') \in Nat
      /\ \A c \in Int : Numbered(ciphered, c) =>
           /\ Numbered(Held', c)
           /\ Clean(Held') => Numbered(ciphered', c + Len(Held'))
      /\ pump' = "shifting" => held' = <<>> /\ ciphered' = <<>>
      /\ pump' \in {"failed", "done"} => queueAborted'
  BY <1>1, ShiftsPlaces
<1>6. SenderInv'
  BY <1>1 DEF StreamInv, SenderInv, senderVars
<1>7. WaitersInv'
  BY <1>1, <1>5 DEF StreamInv, WaitersInv
<1>8. Clean(Held) <=> p.iv # Foreign
  BY <1>2, <1>3, SinglePlace
<1>9. CleanReady' <=> CleanReady
  BY <1>1 DEF CleanReady
<1>10. CASE decryptAborted
  <2>1. UNCHANGED <<pipeline, remoteCounter>> /\ decryptAborted'
    BY <1>1, <1>10
  <2>2. HandlerInv'
    BY <1>1, <2>1 DEF StreamInv, HandlerInv
  <2>3. CleanWire => CleanWire'
    BY <1>1, <1>5, <1>9, <2>1 DEF CleanWire, CleanCiphered, CleanHeld, CleanPipeline
  <2>4. TransitInv'
    BY <1>1, <2>1, <2>3 DEF StreamInv, TransitInv
  <2> QED
    BY <1>6, <1>7, <2>2, <2>4 DEF StreamInv
<1>11. CASE ~decryptAborted
  <2>1. pipeline' = Append(pipeline, job) /\ remoteCounter' = remoteCounter + 1 /\ ~decryptAborted'
    BY <1>1, <1>11
  <2> DEFINE c == remoteCounter - Len(pipeline)
  <2>2. c \in Int /\ c + Len(pipeline) = remoteCounter
    BY <1>2
  <2>3. /\ Len(pipeline') = Len(pipeline) + 1
        /\ \A n \in 1..Len(pipeline) : pipeline'[n] = pipeline[n]
        /\ pipeline'[Len(pipeline) + 1] = job
    BY <1>2, <1>4, <2>1, AppendProperties
  <2>4. remoteCounter' - Len(pipeline') = c
    BY <1>2, <2>1, <2>3
  <2> HIDE DEF c
  <2>5. /\ Clean(pipeline') <=> Clean(pipeline) /\ p.iv # Foreign
        /\ Numbered(pipeline, c) /\ (Clean(pipeline) /\ p.iv # Foreign => IsPacket(job, c + Len(pipeline)))
             => Numbered(pipeline', c)
    BY <1>2, <1>4, <2>1, <2>2, AppendPlace
  <2>6. CleanPipeline' <=> CleanHeld
    BY <1>8, <1>9, <2>5 DEF CleanPipeline, CleanHeld
  <2>7. HandlerInv'
    <3>1. remoteCounter = FirstCounter + Len(handled) + Len(ready) + Len(pipeline)
      BY <1>11 DEF StreamInv, HandlerInv
    <3>2. remoteCounter' = FirstCounter + Len(handled) + Len(ready) + Len(pipeline')
      BY <1>2, <2>1, <2>3, <3>1
    <3>3. ASSUME NEW n \in 1..Len(pipeline')
          PROVE  pipeline'[n].counter = remoteCounter' - Len(pipeline') + n - 1
      <4>1. CASE n \in 1..Len(pipeline)
        <5>1. pipeline[n].counter = c + n - 1
          BY <4>1 DEF StreamInv, HandlerInv, c
        <5> QED
          BY <2>3, <2>4, <4>1, <5>1
      <4>2. CASE n = Len(pipeline) + 1
        BY <1>2, <1>4, <2>1, <2>3, <4>2
      <4> QED
        BY <1>2, <2>3, <4>1, <4>2
    <3> QED
      BY <1>1, <3>2, <3>3 DEF StreamInv, HandlerInv
  <2>8. CleanWire => CleanWire'
    BY <1>1, <1>5, <2>6 DEF CleanWire, CleanCiphered, CleanHeld
  <2>9. ASSUME CleanReady
        PROVE  Numbered(pipeline', remoteCounter' - Len(pipeline'))
    <3>1. Numbered(pipeline, c)
      BY <1>11, <2>9 DEF StreamInv, TransitInv, c
    <3>2. ASSUME Clean(pipeline), p.iv # Foreign
          PROVE  IsPacket(job, remoteCounter)
      <4>1. Numbered(Held, remoteCounter)
        BY <1>11, <2>9, <3>2 DEF StreamInv, TransitInv, CleanPipeline
      <4>2. IsPacket(p, remoteCounter)
        BY <1>2, <1>3, <3>2, <4>1, SinglePlace
      <4> QED
        BY <1>4, <4>2 DEF IsPacket
    <3> QED
      BY <2>2, <2>4, <2>5, <3>1, <3>2
  <2>10. AtCiphered = remoteCounter' /\ AtCiphered \in Int
    <3>1. Len(Held) = 1
      BY <1>3
    <3>2. AtCiphered = remoteCounter + 1
      BY <3>1 DEF AtCiphered
    <3> QED
      BY <1>2, <2>1, <3>2
  <2>11. ASSUME CleanHeld
         PROVE  /\ Numbered(Held', remoteCounter')
                /\ ~queueAborted /\ Clean(Held') => Numbered(ciphered', remoteCounter' + Len(Held'))
    <3>1. CASE queueAborted
      BY <1>1, <1>5, <3>1, EmptyPlace
    <3>2. CASE ~queueAborted
      <4>1. Numbered(ciphered, AtCiphered)
        BY <1>11, <2>11, <3>2 DEF StreamInv, TransitInv
      <4> QED
        BY <1>5, <2>10, <4>1
    <3> QED
      BY <3>1, <3>2
  <2>12. ASSUME ~queueAborted
         PROVE  /\ CleanCiphered' <=> CleanCiphered
                /\ AtWire' = AtWire /\ AtSealing' = AtSealing
                /\ CleanWire' <=> CleanWire
    <3>1. CleanCiphered' <=> CleanCiphered
      BY <1>1, <1>5, <2>6, <2>12 DEF CleanCiphered, CleanHeld
    <3>2. Len(Held') + Len(ciphered') = Len(ciphered)
      BY <1>1, <1>5, <2>12
    <3>3. AtWire' = AtWire
      <4>1. AtWire' = remoteCounter' + Len(Held') + Len(ciphered')
        BY DEF AtWire, AtCiphered
      <4>2. AtWire = remoteCounter' + Len(ciphered)
        BY <2>10 DEF AtWire
      <4>3. Len(Held') \in Nat /\ Len(ciphered') \in Nat /\ remoteCounter' \in Int
        BY <1>5, <2>10
      <4> HIDE DEF c
      <4> QED
        BY <3>2, <4>1, <4>2, <4>3
    <3> QED
      BY <1>1, <3>1, <3>3 DEF CleanWire, AtSealing
  <2>13. ASSUME ~queueAborted
         PROVE  /\ CleanHeld' => Numbered(ciphered', AtCiphered')
                /\ CleanCiphered' => Numbered(wire', AtWire')
                /\ CleanWire' /\ sendable' => localCounter' = AtSealing' + Len(sealing')
    <3>1. CleanHeld' => Numbered(ciphered', AtCiphered')
      BY <2>6, <2>11, <2>13 DEF CleanHeld, AtCiphered
    <3>2. CleanCiphered' => Numbered(wire', AtWire')
      BY <1>1, <1>11, <2>12, <2>13 DEF StreamInv, TransitInv
    <3>3. UNCHANGED <<localCounter, sendable, sealing>>
      BY <1>1 DEF senderVars
    <3>4. CleanWire' /\ sendable' => localCounter' = AtSealing' + Len(sealing')
      BY <1>11, <2>12, <2>13, <3>3 DEF StreamInv, TransitInv
    <3> QED
      BY <3>1, <3>2, <3>4
  <2>14. TransitInv'
    BY <1>1, <1>9, <2>1, <2>6, <2>8, <2>9, <2>11, <2>13 DEF StreamInv, TransitInv
  <2> QED
    BY <1>6, <1>7, <2>7, <2>14 DEF StreamInv
<1> QED
  BY <1>10, <1>11

-----------------------------------------------------------------------------
(* The ends.                                                                 *)

LEMMA AbortStream ==
  ASSUME ChannelInv, StreamInv, AbortQueues, UNCHANGED <<senderVars, wire, garbage, held>>,
         pump' \in {"failed", "done", pump} \ {"shifting"}, handler' \in {"gone", handler}
  PROVE  StreamInv'
<1>1. /\ queueAborted' = TRUE /\ decryptAborted' = TRUE
      /\ ciphered' = <<>> /\ pipeline' = <<>> /\ ready' = <<>>
      /\ UNCHANGED <<remoteCounter, handled>>
  BY DEF AbortQueues
<1>2. Len(<<>>) = 0 /\ Clean(<<>>)
  BY EmptySeq, EmptyPlace
<1>3. Held' \in {Held, <<>>}
  BY DEF Held, Holding
<1>4. SenderInv'
  BY DEF StreamInv, SenderInv, senderVars
<1>5. WaitersInv'
  BY <1>1 DEF WaitersInv
<1>6. HandlerInv'
  BY <1>1, <1>2 DEF StreamInv, HandlerInv, Commands
<1>7. CleanWire => CleanWire'
  <2>1. CleanReady' /\ Clean(pipeline')
    BY <1>1, <1>2 DEF CleanReady
  <2>2. CleanHeld => CleanHeld'
    BY <1>2, <1>3, <2>1 DEF CleanHeld, CleanPipeline
  <2> QED
    BY <1>1, <1>2, <2>2 DEF CleanWire, CleanCiphered
<1>8. TransitInv'
  BY <1>1, <1>7 DEF StreamInv, TransitInv
<1> QED
  BY <1>4, <1>5, <1>6, <1>8 DEF StreamInv

LEMMA EndsStream ==
  ASSUME ChannelInv, StreamInv,
         PumpEnds \/ ReceiverAborts \/ (Leave /\ UNCHANGED <<senderVars, wire, garbage>>)
  PROVE  StreamInv'
BY AbortStream DEF PumpEnds, ReceiverAborts, Leave, PumpRejected

LEMMA SocketClosesStream ==
  ASSUME ChannelInv, StreamInv, SocketCloses
  PROVE  StreamInv'
<1>1. /\ ~queueAborted /\ queueAborted' = TRUE /\ ciphered' = <<>>
      /\ pump' = IF pump = "shifting" THEN "failed" ELSE pump
      /\ UNCHANGED <<wire, garbage, held>> /\ UNCHANGED senderVars /\ UNCHANGED decryptVars
  BY DEF SocketCloses, Noticed
<1>2. UNCHANGED <<pipeline, remoteCounter, ready, decryptAborted, handler, handled>>
  BY <1>1 DEF decryptVars
<1>3. Held' = Held
  BY <1>1 DEF Held, Holding
<1>4. SenderInv'
  BY <1>1 DEF StreamInv, SenderInv, senderVars
<1>5. WaitersInv' /\ HandlerInv'
  BY <1>1, <1>2 DEF StreamInv, WaitersInv, HandlerInv
<1>6. UNCHANGED <<CleanReady, CleanPipeline, CleanHeld>> /\ (CleanWire => CleanWire')
  BY <1>1, <1>2, <1>3, EmptyPlace DEF CleanReady, CleanPipeline, CleanHeld, CleanCiphered, CleanWire
<1>7. TransitInv'
  BY <1>1, <1>2, <1>3, <1>6 DEF StreamInv, TransitInv
<1> QED
  BY <1>4, <1>5, <1>7 DEF StreamInv

-----------------------------------------------------------------------------
(* From the decryption to the handler.                                       *)

(* A step of the handler leaves what is behind the decryption as it is, and  *)
(* a pump that is released holds what it held.                               *)
LEMMA HandlerOnly ==
  ASSUME ChannelInv, StreamInv, HandlerInv',
         UNCHANGED <<senderVars, wire, garbage, ciphered, queueAborted, held, remoteCounter,
                     decryptAborted>>,
         pump' \in {pump, Released},
         CleanPipeline' <=> CleanPipeline,
         ~decryptAborted /\ CleanReady' => Numbered(pipeline', remoteCounter - Len(pipeline')),
         handler' = "shifting" => ready' = <<>>
  PROVE  StreamInv'
<1>1. /\ UNCHANGED <<wire, garbage, ciphered, queueAborted, held, remoteCounter, decryptAborted>>
      /\ UNCHANGED senderVars
  OBVIOUS
<1>2. /\ Holding' <=> Holding
      /\ pump' = "shifting" => pump = "shifting"
      /\ pump' \in {"failed", "done"} => pump \in {"failed", "done"}
  BY DEF Holding, Released
<1>3. UNCHANGED <<Held, AtCiphered, AtWire, AtSealing>>
  BY <1>1, <1>2 DEF Held, AtCiphered, AtWire, AtSealing
<1>4. /\ CleanHeld' <=> CleanHeld
      /\ CleanCiphered' <=> CleanCiphered
      /\ CleanWire' <=> CleanWire
  BY <1>1, <1>3 DEF CleanHeld, CleanCiphered, CleanWire
<1>5. SenderInv'
  BY <1>1 DEF StreamInv, SenderInv, senderVars
<1>6. WaitersInv'
  BY <1>1, <1>2 DEF StreamInv, WaitersInv
<1>7. UNCHANGED <<localCounter, sendable, sealing>>
  BY <1>1 DEF senderVars
<1>8. TransitInv'
  BY <1>1, <1>3, <1>4, <1>7 DEF StreamInv, TransitInv
<1> QED
  BY <1>5, <1>6, <1>8 DEF StreamInv

LEMMA HandledGrows ==
  ASSUME ChannelInv, StreamInv, handled' = Append(handled, Len(handled) + 1),
         Len(handled) + 1 \in Messages
  PROVE  /\ Len(handled') = Len(handled) + 1
         /\ \A n \in 1..Len(handled') : handled'[n] = n
<1>1. handled \in Seq(Messages) /\ Len(handled) \in Nat
  BY PlacesTyped
<1>2. /\ Len(handled') = Len(handled) + 1
      /\ \A n \in 1..Len(handled) : handled'[n] = handled[n]
      /\ handled'[Len(handled) + 1] = Len(handled) + 1
  BY <1>1, AppendProperties
<1>3. \A n \in 1..Len(handled) : handled[n] = n
  BY DEF StreamInv, HandlerInv
<1> QED
  BY <1>1, <1>2, <1>3

LEMMA DecryptedStream ==
  ASSUME ChannelInv, StreamInv, Decrypted
  PROVE  StreamInv'
<1> DEFINE h == Head(pipeline)
           t == Tail(pipeline)
           c == remoteCounter - Len(pipeline)
           result == Plaintext(h)
<1>1. /\ pipeline # <<>>
      /\ UNCHANGED <<senderVars, wire, garbage>>
      /\ \/ /\ handler = "shifting"
            /\ Receive(result)
            /\ result # Failure => pipeline' = t /\ UNCHANGED ready
         \/ /\ handler # "shifting" /\ pipeline' = t /\ ready' = Append(ready, result)
            /\ UNCHANGED <<queueVars, remoteCounter, decryptAborted, handler, handled>>
  BY DEF Decrypted
<1>2. /\ pipeline \in Seq(Jobs) /\ Len(pipeline) \in Nat /\ remoteCounter \in Int
      /\ Len(ready) \in Nat /\ Len(handled) \in Nat /\ FirstCounter \in Int
      /\ ready \in Seq(Messages \cup {Failure})
  BY PlacesTyped
<1>3. /\ h \in Jobs /\ t \in Seq(Jobs) /\ h = pipeline[1]
      /\ Len(pipeline) \in Nat \ {0} /\ Len(t) = Len(pipeline) - 1
      /\ \A n \in 1..Len(t) : t[n] = pipeline[n + 1]
  BY <1>1, <1>2, HeadTailProperties, EmptySeq
<1>4. ~decryptAborted
  BY <1>2, <1>3 DEF ChannelInv, PumpReady, Queued
<1>5. remoteCounter = FirstCounter + Len(handled) + Len(ready) + Len(pipeline)
  BY <1>4 DEF StreamInv, HandlerInv
<1>6. \A n \in 1..Len(pipeline) : pipeline[n].counter = remoteCounter - Len(pipeline) + n - 1
  BY DEF StreamInv, HandlerInv
<1>7. h.counter = c
  BY <1>2, <1>3, <1>6
<1>8. c \in Int /\ remoteCounter - Len(t) = c + 1 /\ c = FirstCounter + Len(handled) + Len(ready)
  BY <1>2, <1>3, <1>5
<1>9. \A n \in 1..Len(t) : t[n].counter = remoteCounter - Len(t) + n - 1
  <2>1. TAKE n \in 1..Len(t)
  <2>2. n + 1 \in 1..Len(pipeline) /\ n \in Int
    BY <1>3
  <2>3. t[n].counter = remoteCounter - Len(pipeline) + (n + 1) - 1
    BY <1>3, <1>6, <2>2
  <2> QED
    BY <1>2, <1>3, <2>2, <2>3
<1>10. h.message \in Messages /\ Failure \notin Messages
  BY <1>3 DEF Jobs, Messages, Failure
<1>11. result = IF h.iv = EncodeIV(Role, c) THEN h.message ELSE Failure
  BY <1>7 DEF Plaintext
<1>12. /\ Clean(pipeline) <=> h.iv # Foreign /\ Clean(t)
       /\ Numbered(pipeline, c) /\ h.iv # Foreign => IsPacket(h, c) /\ Numbered(t, c + 1)
  BY <1>1, <1>2, <1>8, TailPlace
<1>13. CleanReady => Numbered(pipeline, c)
  BY <1>4 DEF StreamInv, TransitInv
<1> HIDE DEF h, t, c, result
<1>14. result # Failure => result = h.message /\ h.iv # Foreign
  BY <1>11 DEF EncodeIV, Foreign
<1>15. ASSUME CleanReady, h.iv # Foreign
       PROVE  /\ result = h.message /\ result # Failure
              /\ result = Len(handled) + Len(ready) + 1
              /\ Numbered(t, c + 1)
  <2>1. IsPacket(h, c) /\ Numbered(t, c + 1)
    BY <1>12, <1>13, <1>15
  <2>2. h.iv = EncodeIV(Role, c) /\ h.message = c - FirstCounter + 1
    BY <2>1 DEF IsPacket
  <2>3. result = h.message /\ result # Failure
    BY <1>10, <1>11, <2>2
  <2>4. c - FirstCounter + 1 = Len(handled) + Len(ready) + 1
    BY <1>2, <1>8
  <2> QED
    BY <2>1, <2>2, <2>3, <2>4
<1>16. result \in Messages \cup {Failure}
  BY <1>10, <1>11
<1>17. CASE handler = "shifting" /\ result = Failure
  <2>1. Leave /\ UNCHANGED <<senderVars, wire, garbage>>
    BY <1>1, <1>17 DEF Receive
  <2> QED
    BY <2>1, EndsStream
<1>18. CASE handler = "shifting" /\ result # Failure
  <2>1. /\ pipeline' = t /\ ready' = ready /\ handler' = "busy"
        /\ handled' = Append(handled, result) /\ pump' = Released
        /\ UNCHANGED <<ciphered, queueAborted, held, remoteCounter, decryptAborted>>
    BY <1>1, <1>18 DEF Receive
  <2>2. ready = <<>> /\ Len(ready) = 0
    BY <1>18, EmptySeq DEF StreamInv, WaitersInv
  <2>3. CleanReady
    BY <2>2 DEF CleanReady
  <2>4. h.iv # Foreign /\ result \in Messages
    BY <1>14, <1>16, <1>18
  <2>5. result = Len(handled) + 1 /\ Numbered(t, c + 1)
    BY <1>2, <1>15, <2>2, <2>3, <2>4
  <2>6. /\ Len(handled') = Len(handled) + 1
        /\ \A n \in 1..Len(handled') : handled'[n] = n
    BY <2>1, <2>4, <2>5, HandledGrows
  <2>7. Commands(ready', Len(handled'))
    BY <2>1, <2>2 DEF Commands
  <2>8. remoteCounter' = FirstCounter + Len(handled') + Len(ready') + Len(pipeline')
    <3>1. remoteCounter' = remoteCounter /\ Len(ready') = Len(ready) /\ Len(pipeline') = Len(t)
      BY <2>1
    <3>2. /\ Len(t) = Len(pipeline) - 1
          /\ Len(handled) \in Nat /\ Len(ready) \in Nat /\ Len(pipeline) \in Nat
          /\ FirstCounter \in Int
      BY <1>2, <1>3
    <3> QED
      BY <1>5, <2>6, <3>1, <3>2
  <2>9. \A n \in 1..Len(pipeline') : pipeline'[n].counter = remoteCounter' - Len(pipeline') + n - 1
    BY <1>9, <2>1
  <2>10. HandlerInv'
    BY <2>6, <2>7, <2>8, <2>9 DEF HandlerInv
  <2>11. CleanPipeline' <=> CleanPipeline
    BY <1>12, <2>1, <2>4 DEF CleanPipeline, CleanReady
  <2>12. Numbered(pipeline', remoteCounter - Len(pipeline'))
    BY <1>8, <2>1, <2>5
  <2> QED
    BY <1>1, <2>1, <2>10, <2>11, <2>12, HandlerOnly
<1>19. CASE handler # "shifting"
  <2>1. /\ pipeline' = t /\ ready' = Append(ready, result)
        /\ UNCHANGED <<ciphered, queueAborted, pump, held>>
        /\ UNCHANGED <<remoteCounter, decryptAborted, handler, handled>>
    BY <1>1, <1>19 DEF queueVars
  <2>2. Len(ready') = Len(ready) + 1
    BY <1>2, <1>16, <2>1, AppendProperties
  <2>3. /\ (\A n \in 1..Len(ready') : ready'[n] # Failure) <=>
             (\A n \in 1..Len(ready) : ready[n] # Failure) /\ result # Failure
        /\ Commands(ready, Len(handled))
             /\ ((\A n \in 1..Len(ready) : ready[n] # Failure) /\ result # Failure
                   => result = Len(handled) + Len(ready) + 1)
             => Commands(ready', Len(handled))
    <3>1. ready' = Append(ready, result)
      BY <2>1
    <3>2. ready \in Seq(Messages \cup {Failure}) /\ Len(handled) \in Int
      BY <1>2
    <3> QED
      BY <1>16, <3>1, <3>2, AppendCommand
  <2>4. CleanReady' <=> CleanReady /\ result # Failure
    BY <2>3 DEF CleanReady
  <2>5. CleanReady /\ result # Failure => result = Len(handled) + Len(ready) + 1
    BY <1>14, <1>15
  <2>6. Commands(ready', Len(handled'))
    <3>1. Commands(ready, Len(handled))
      BY DEF StreamInv, HandlerInv
    <3> QED
      BY <2>1, <2>3, <2>5, <3>1 DEF CleanReady
  <2>7. remoteCounter' = FirstCounter + Len(handled') + Len(ready') + Len(pipeline')
    <3>1. /\ remoteCounter' = remoteCounter /\ Len(handled') = Len(handled)
          /\ Len(pipeline') = Len(t)
      BY <2>1
    <3>2. /\ Len(t) = Len(pipeline) - 1
          /\ Len(handled) \in Nat /\ Len(ready) \in Nat /\ Len(pipeline) \in Nat
          /\ FirstCounter \in Int
      BY <1>2, <1>3
    <3> QED
      BY <1>5, <2>2, <3>1, <3>2
  <2>8. \A n \in 1..Len(pipeline') : pipeline'[n].counter = remoteCounter' - Len(pipeline') + n - 1
    BY <1>9, <2>1
  <2>9. HandlerInv'
    BY <2>1, <2>6, <2>7, <2>8 DEF StreamInv, HandlerInv
  <2>10. CleanPipeline' <=> CleanPipeline
    BY <1>12, <1>14, <1>15, <2>1, <2>4 DEF CleanPipeline
  <2>11. CleanReady' => Numbered(pipeline', remoteCounter - Len(pipeline'))
    BY <1>8, <1>14, <1>15, <2>1, <2>4
  <2>12. handler' # "shifting" /\ pump' = pump
    BY <1>19, <2>1
  <2> QED
    BY <1>1, <2>1, <2>9, <2>10, <2>11, <2>12, HandlerOnly
<1> QED
  BY <1>17, <1>18, <1>19

LEMMA NextCommandStream ==
  ASSUME ChannelInv, StreamInv, NextCommand \/ HandlerLeaves
  PROVE  StreamInv'
<1>1. CASE Leave /\ UNCHANGED <<senderVars, wire, garbage>>
  BY <1>1, EndsStream
<1>2. CASE /\ ~decryptAborted /\ ready = <<>> /\ handler' = "shifting"
           /\ UNCHANGED <<queueVars, pipeline, remoteCounter, ready, decryptAborted, handled>>
           /\ UNCHANGED <<senderVars, wire, garbage>>
  <2>1. UNCHANGED <<ciphered, queueAborted, pump, held>>
    BY <1>2 DEF queueVars
  <2>2. HandlerInv'
    BY <1>2 DEF StreamInv, HandlerInv
  <2>3. (CleanPipeline' <=> CleanPipeline) /\ (CleanReady' <=> CleanReady)
    BY <1>2 DEF CleanPipeline, CleanReady
  <2>4. CleanReady => Numbered(pipeline, remoteCounter - Len(pipeline))
    BY <1>2 DEF StreamInv, TransitInv
  <2>5. CleanReady' => Numbered(pipeline', remoteCounter - Len(pipeline'))
    BY <1>2, <2>3, <2>4
  <2> QED
    BY <1>2, <2>1, <2>2, <2>3, <2>5, HandlerOnly
<1>3. CASE /\ ~decryptAborted /\ ready # <<>> /\ Head(ready) # Failure /\ Receive(Head(ready))
           /\ ready' = Tail(ready) /\ UNCHANGED pipeline /\ UNCHANGED <<senderVars, wire, garbage>>
  <2> DEFINE h == Head(ready)
  <2>1. /\ ready \in Seq(Messages \cup {Failure}) /\ Len(ready) \in Nat /\ Len(pipeline) \in Nat
        /\ Len(handled) \in Nat /\ remoteCounter \in Int /\ FirstCounter \in Int
    BY PlacesTyped
  <2>2. /\ h \in Messages \cup {Failure} /\ Len(Tail(ready)) = Len(ready) - 1
    BY <1>3, <2>1, HeadTailProperties
  <2>3. Commands(ready, Len(handled))
    BY DEF StreamInv, HandlerInv
  <2>4. /\ h = Len(handled) + 1 /\ Commands(ready', Len(handled) + 1)
        /\ (\A n \in 1..Len(ready) : ready[n] # Failure) <=>
             (\A n \in 1..Len(ready') : ready'[n] # Failure)
    BY <1>3, <2>1, <2>3, TailCommand
  <2>5. /\ handler' = "busy" /\ handled' = Append(handled, h) /\ pump' = Released
        /\ UNCHANGED <<ciphered, queueAborted, held, remoteCounter, decryptAborted>>
    BY <1>3 DEF Receive
  <2>6. h # Failure
    BY <1>3
  <2> HIDE DEF h
  <2>7. /\ Len(handled') = Len(handled) + 1
        /\ \A n \in 1..Len(handled') : handled'[n] = n
    BY <2>2, <2>4, <2>5, <2>6, HandledGrows
  <2>8. remoteCounter = FirstCounter + Len(handled) + Len(ready) + Len(pipeline)
    BY <1>3 DEF StreamInv, HandlerInv
  <2>9. remoteCounter' = FirstCounter + Len(handled') + Len(ready') + Len(pipeline')
    BY <1>3, <2>1, <2>2, <2>5, <2>7, <2>8
  <2>10. \A n \in 1..Len(pipeline') : pipeline'[n].counter = remoteCounter' - Len(pipeline') + n - 1
    BY <1>3, <2>5 DEF StreamInv, HandlerInv
  <2>11. HandlerInv'
    BY <2>4, <2>7, <2>9, <2>10 DEF HandlerInv
  <2>12. CleanReady' <=> CleanReady
    BY <2>4 DEF CleanReady
  <2>13. CleanPipeline' <=> CleanPipeline
    BY <1>3, <2>12 DEF CleanPipeline
  <2>14. CleanReady => Numbered(pipeline, remoteCounter - Len(pipeline))
    BY <1>3 DEF StreamInv, TransitInv
  <2>15. CleanReady' => Numbered(pipeline', remoteCounter - Len(pipeline'))
    BY <1>3, <2>12, <2>14
  <2> QED
    BY <1>3, <2>5, <2>11, <2>13, <2>15, HandlerOnly
<1> QED
  BY <1>1, <1>2, <1>3 DEF NextCommand, HandlerLeaves, Receive

-----------------------------------------------------------------------------
LEMMA InitStream == Init => StreamInv
<1> SUFFICES ASSUME Init PROVE StreamInv
  OBVIOUS
<1>1. /\ written = 0 /\ outbox = <<>> /\ writer = "shifting" /\ sealing = <<>>
      /\ localCounter = FirstCounter /\ wire = <<>> /\ ciphered = <<>>
      /\ pump = "shifting" /\ held = <<>> /\ pipeline = <<>>
      /\ remoteCounter = FirstCounter /\ ready = <<>> /\ handled = <<>>
  BY DEF Init
<1>2. ~queueAborted /\ ~decryptAborted
  BY Zenon DEF Init
<1>3. Len(<<>>) = 0 /\ Clean(<<>>) /\ (\A c : Numbered(<<>>, c)) /\ FirstCounter \in Int
  BY EmptySeq, EmptyPlace, ChannelAssumption DEF ChannelAssumption
<1>4. Held = <<>>
  BY <1>1 DEF Held
<1>5. SenderInv
  BY <1>1, <1>3 DEF SenderInv
<1>6. WaitersInv
  BY <1>1, <1>2 DEF WaitersInv
<1>7. HandlerInv
  BY <1>1, <1>3 DEF HandlerInv, Commands
<1>8. CleanWire
  BY <1>1, <1>3, <1>4 DEF CleanReady, CleanPipeline, CleanHeld, CleanCiphered, CleanWire
<1>9. localCounter = AtSealing + Len(sealing)
  BY <1>1, <1>3, <1>4 DEF AtSealing, AtWire, AtCiphered
<1>10. TransitInv
  BY <1>1, <1>3, <1>4, <1>8, <1>9 DEF TransitInv
<1> QED
  BY <1>5, <1>6, <1>7, <1>10 DEF StreamInv

LEMMA NextStream == ChannelInv /\ StreamInv /\ [Next]_vars => StreamInv'
<1> SUFFICES ASSUME ChannelInv, StreamInv, [Next]_vars PROVE StreamInv'
  OBVIOUS
<1>1. ChannelInv'
  BY NextChannelInv
<1>2. CASE UNCHANGED vars
  <2>1. /\ UNCHANGED <<written, outbox, writer, sealing, localCounter, writerAborted>>
        /\ UNCHANGED <<wire, garbage, queueVars, decryptVars>> /\ sendable' = sendable
    BY <1>2 DEF vars, senderVars
  <2>2. SenderInv'
    BY <2>1 DEF StreamInv, SenderInv
  <2> QED
    BY <1>1, <2>1, <2>2, SenderOnly
<1>3. CASE Write \/ WriterAborts \/ SocketLost \/ SendGarbage
  BY <1>1, <1>3, SenderStream
<1>4. CASE Send
  BY <1>1, <1>4, SendStream
<1>5. CASE Arrive
  BY <1>1, <1>5, ArriveStream
<1>6. CASE PumpBlocks \/ PumpPushes
  BY <1>6, PumpBlocksStream, PumpPushesStream
<1>7. CASE PumpEnds \/ ReceiverAborts
  BY <1>7, EndsStream
<1>8. CASE Decrypted
  BY <1>8, DecryptedStream
<1>9. CASE NextCommand \/ HandlerLeaves
  BY <1>9, NextCommandStream
<1>10. CASE SocketCloses
  BY <1>10, SocketClosesStream
<1> QED
  BY <1>2, <1>3, <1>4, <1>5, <1>6, <1>7, <1>8, <1>9, <1>10 DEF Next, Quiet

(* In every reachable state the places between the writer and the handler    *)
(* hold consecutive packets, up to the first that is not the program's.      *)
THEOREM StreamCorrect == Spec => [](ChannelInv /\ StreamInv)
<1>1. Init => ChannelInv /\ StreamInv
  BY InitChannelInv, InitStream
<1>2. ChannelInv /\ StreamInv /\ [Next]_vars => ChannelInv' /\ StreamInv'
  BY NextChannelInv, NextStream
<1> QED
  BY <1>1, <1>2, PTL DEF Spec

(* Against a peer that runs this program every packet is decrypted with the  *)
(* nonce it was encrypted with, whatever the sizes of the queues, the number *)
(* of messages, and what was aborted or closed in between.                   *)
THEOREM NoncesAgreeCorrect == Spec => []NoncesAgree
<1>1. ChannelInv /\ StreamInv => NoncesAgree
  <2> SUFFICES ASSUME ChannelInv, StreamInv, ~garbage, NEW n \in 1..Len(pipeline)
               PROVE  pipeline[n].iv = EncodeIV(Role, pipeline[n].counter)
    BY DEF NoncesAgree
  <2>1. /\ Len(pipeline) \in Nat /\ Len(ready) \in Nat /\ remoteCounter \in Int
    BY PlacesTyped
  <2>2. ~decryptAborted
    BY <2>1 DEF ChannelInv, PumpReady, Queued
  <2>3. CleanReady /\ Clean(pipeline)
    BY DEF StreamInv, TransitInv, CleanWire, CleanCiphered, CleanHeld, CleanPipeline
  <2>4. Numbered(pipeline, remoteCounter - Len(pipeline))
    BY <2>2, <2>3 DEF StreamInv, TransitInv
  <2>5. \A i \in 1..n : pipeline[i].iv # Foreign
    BY <2>1, <2>3 DEF Clean
  <2>6. IsPacket(pipeline[n], remoteCounter - Len(pipeline) + n - 1)
    BY <2>4, <2>5 DEF Numbered
  <2>7. pipeline[n].counter = remoteCounter - Len(pipeline) + n - 1
    BY DEF StreamInv, HandlerInv
  <2> QED
    BY <2>6, <2>7 DEF IsPacket
<1> QED
  BY <1>1, StreamCorrect, PTL

-----------------------------------------------------------------------------
(* What all the places hold together.                                        *)

(* s counts on from c.  A stream is numbered as it is sent, so that nothing  *)
(* was lost, repeated or reordered exactly when what a queue holds is a run. *)
Run(s, c) == \A n \in 1..Len(s) : s[n] = c + n

(* A run goes on where another one ended.                                    *)
LEMMA Extends ==
  ASSUME NEW s \in Seq(Int), NEW t \in Seq(Int), NEW c \in Int,
         Len(s) = c, Run(s, 0), Run(t, c)
  PROVE  /\ s \o t \in Seq(Int)
         /\ Len(s \o t) = c + Len(t)
         /\ Run(s \o t, 0)
<1> DEFINE u == s \o t
<1>1. /\ u \in Seq(Int) /\ Len(u) = Len(s) + Len(t)
      /\ \A n \in 1..Len(s) + Len(t) : u[n] = IF n <= Len(s) THEN s[n] ELSE t[n - Len(s)]
  BY ConcatProperties
<1>2. Len(s) \in Nat /\ Len(t) \in Nat
  BY LenProperties
<1> HIDE DEF u
<1>3. ASSUME NEW n \in 1..Len(u)
      PROVE  u[n] = 0 + n
  <2>1. n \in 1..Len(s) + Len(t)
    BY <1>1
  <2>2. CASE n <= Len(s)
    BY <1>1, <1>2, <2>1, <2>2 DEF Run
  <2>3. CASE ~(n <= Len(s))
    <3>1. n - Len(s) \in 1..Len(t)
      BY <1>2, <2>1, <2>3
    <3>2. u[n] = c + (n - Len(s))
      BY <1>1, <2>1, <2>3, <3>1 DEF Run
    <3> QED
      BY <1>2, <2>1, <3>2
  <2> QED
    BY <2>2, <2>3
<1> QED
  BY <1>1, <1>3 DEF Run, u

LEMMA PlaceMessages ==
  ASSUME NEW S, \A x \in S : x.message \in Int,
         NEW s \in Seq(S), NEW c \in Int, NEW d \in Int, FirstCounter \in Int,
         Clean(s), Numbered(s, c), d = c - FirstCounter
  PROVE  /\ MessagesOf(s) \in Seq(Int)
         /\ Len(MessagesOf(s)) = Len(s)
         /\ Run(MessagesOf(s), d)
<1> DEFINE m == MessagesOf(s)
<1>1. Len(s) \in Nat /\ DOMAIN s = 1..Len(s) /\ \A n \in 1..Len(s) : s[n] \in S
  BY LenProperties
<1>2. m = [n \in 1..Len(s) |-> s[n].message]
  BY <1>1 DEF MessagesOf
<1>3. m \in Seq(Int) /\ Len(m) = Len(s)
  BY <1>1, <1>2
<1>4. ASSUME NEW n \in 1..Len(s)
      PROVE  m[n] = d + n
  <2>1. \A i \in 1..n : s[i].iv # Foreign
    BY <1>1 DEF Clean
  <2>2. s[n].message = c + n - 1 - FirstCounter + 1
    BY <2>1 DEF Numbered, IsPacket
  <2>3. m[n] = s[n].message
    BY <1>2
  <2> QED
    BY <2>2, <2>3
<1> QED
  BY <1>3, <1>4 DEF Run

LEMMA AllPlaces == ChannelInv /\ StreamInv => NothingLost
<1> SUFFICES ASSUME ChannelInv, StreamInv PROVE NothingLost
  OBVIOUS
<1>1. \A n \in 1..Len(handled) : handled[n] = n
  BY DEF StreamInv, HandlerInv
<1> SUFFICES ASSUME ~Broken
             PROVE  handled \o ready \o MessagesOf(pipeline) \o MessagesOf(held)
                      \o MessagesOf(ciphered) \o MessagesOf(wire) \o MessagesOf(sealing) \o outbox
                    = [n \in 1..written |-> n]
  BY <1>1 DEF NothingLost
<1>2. ~writerAborted /\ sendable /\ ~garbage /\ ~queueAborted /\ ~decryptAborted
  BY DEF Broken
<1>3. /\ ready \in Seq(Messages \cup {Failure}) /\ pipeline \in Seq(Jobs)
      /\ Held \in Seq(Packets) /\ ciphered \in Seq(Packets)
      /\ wire \in Seq(Packets) /\ sealing \in Seq(Packets)
      /\ outbox \in Seq(Messages) /\ handled \in Seq(Messages)
  BY PlacesTyped
<1>4. /\ written \in Int /\ localCounter \in Int /\ remoteCounter \in Int /\ FirstCounter \in Int
      /\ Len(ready) \in Nat /\ Len(pipeline) \in Nat /\ Len(Held) \in Nat
      /\ Len(ciphered) \in Nat /\ Len(wire) \in Nat /\ Len(sealing) \in Nat
      /\ Len(outbox) \in Nat /\ Len(handled) \in Nat
  BY PlacesTyped
<1>5. handled \in Seq(Int) /\ ready \in Seq(Int) /\ outbox \in Seq(Int)
  <2>1. Messages \subseteq Int /\ Messages \cup {Failure} \subseteq Int
    BY ChannelAssumption DEF ChannelAssumption, Messages, Failure
  <2> QED
    BY <1>3, <2>1
<1>6. (\A x \in Jobs : x.message \in Int) /\ (\A x \in Packets : x.message \in Int)
  BY ChannelAssumption DEF ChannelAssumption, Jobs, Packets, Messages
<1>7. held = Held
  BY <1>2 DEF StreamInv, WaitersInv, Held, Holding, ChannelInv, TypeOK
<1>8. CleanReady /\ Clean(pipeline) /\ Clean(Held) /\ Clean(ciphered) /\ Clean(wire)
  BY <1>2 DEF StreamInv, TransitInv, CleanWire, CleanCiphered, CleanHeld, CleanPipeline
<1>9. CleanPipeline /\ CleanHeld /\ CleanCiphered /\ CleanWire
  BY <1>8 DEF CleanWire, CleanCiphered, CleanHeld, CleanPipeline
<1>10. /\ Numbered(pipeline, remoteCounter - Len(pipeline))
       /\ Numbered(Held, remoteCounter)
       /\ Numbered(ciphered, AtCiphered)
       /\ Numbered(wire, AtWire)
       /\ localCounter = AtSealing + Len(sealing)
  BY <1>2, <1>8, <1>9 DEF StreamInv, TransitInv
<1>11. /\ Clean(sealing) /\ Numbered(sealing, localCounter - 1)
       /\ Len(sealing) \in {0, 1}
       /\ \A n \in 1..Len(outbox) : outbox[n] = localCounter - FirstCounter + n
       /\ localCounter - FirstCounter + Len(outbox) = written
  BY <1>2 DEF StreamInv, SenderInv
<1>12. remoteCounter = FirstCounter + Len(handled) + Len(ready) + Len(pipeline)
  BY <1>2 DEF StreamInv, HandlerInv
<1> DEFINE c1 == Len(handled)
           c2 == c1 + Len(ready)
           c3 == c2 + Len(pipeline)
           c4 == c3 + Len(Held)
           c5 == c4 + Len(ciphered)
           c6 == c5 + Len(wire)
           c7 == c6 + Len(sealing)
<1>13. /\ c1 \in Int /\ c2 \in Int /\ c3 \in Int /\ c4 \in Int /\ c5 \in Int /\ c6 \in Int
       /\ c7 \in Int
  BY <1>4
<1>14. /\ c2 = remoteCounter - Len(pipeline) - FirstCounter /\ c3 = remoteCounter - FirstCounter
       /\ c4 = AtCiphered - FirstCounter /\ c5 = AtWire - FirstCounter
       /\ c6 = AtSealing - FirstCounter /\ c7 = localCounter - FirstCounter
       /\ AtCiphered \in Int /\ AtWire \in Int
  BY <1>4, <1>10, <1>12 DEF AtCiphered, AtWire, AtSealing
<1>15. Run(handled, 0) /\ Run(ready, c1) /\ Run(outbox, c7)
  <2>1. Run(handled, 0)
    BY <1>1, <1>4 DEF Run
  <2>2. Commands(ready, Len(handled))
    BY DEF StreamInv, HandlerInv
  <2>3. Run(ready, c1)
    BY <1>4, <1>8, <2>2 DEF Commands, CleanReady, Run
  <2>4. Run(outbox, c7)
    BY <1>11, <1>14 DEF Run
  <2> QED
    BY <2>1, <2>3, <2>4
<1> HIDE DEF c1, c2, c3, c4, c5, c6, c7
<1>16. /\ MessagesOf(pipeline) \in Seq(Int) /\ Len(MessagesOf(pipeline)) = Len(pipeline)
       /\ Run(MessagesOf(pipeline), c2)
  <2>1. /\ remoteCounter - Len(pipeline) \in Int /\ FirstCounter \in Int
        /\ c2 = remoteCounter - Len(pipeline) - FirstCounter /\ c2 \in Int
    BY <1>4, <1>13, <1>14
  <2>2. /\ pipeline \in Seq(Jobs) /\ (\A x \in Jobs : x.message \in Int)
        /\ Clean(pipeline) /\ Numbered(pipeline, remoteCounter - Len(pipeline))
    BY <1>3, <1>6, <1>8, <1>10
  <2> QED
    BY <2>1, <2>2, PlaceMessages
<1>17. /\ MessagesOf(Held) \in Seq(Int) /\ Len(MessagesOf(Held)) = Len(Held)
       /\ Run(MessagesOf(Held), c3)
  BY <1>3, <1>4, <1>6, <1>8, <1>10, <1>13, <1>14, PlaceMessages
<1>18. /\ MessagesOf(ciphered) \in Seq(Int) /\ Len(MessagesOf(ciphered)) = Len(ciphered)
       /\ Run(MessagesOf(ciphered), c4)
  BY <1>3, <1>4, <1>6, <1>8, <1>10, <1>13, <1>14, PlaceMessages
<1>19. /\ MessagesOf(wire) \in Seq(Int) /\ Len(MessagesOf(wire)) = Len(wire)
       /\ Run(MessagesOf(wire), c5)
  BY <1>3, <1>4, <1>6, <1>8, <1>10, <1>13, <1>14, PlaceMessages
<1>20. /\ MessagesOf(sealing) \in Seq(Int) /\ Len(MessagesOf(sealing)) = Len(sealing)
       /\ Run(MessagesOf(sealing), c6)
  <2>1. localCounter - 1 \in Int /\ localCounter - 1 - FirstCounter \in Int
    BY <1>4
  <2>2. /\ MessagesOf(sealing) \in Seq(Int) /\ Len(MessagesOf(sealing)) = Len(sealing)
        /\ Run(MessagesOf(sealing), localCounter - 1 - FirstCounter)
    BY <1>3, <1>4, <1>6, <1>11, <2>1, PlaceMessages
  <2>3. CASE Len(sealing) = 0
    BY <2>2, <2>3 DEF Run
  <2>4. CASE Len(sealing) = 1
    <3>1. c6 = localCounter - 1 - FirstCounter
      BY <1>4, <1>13, <1>14, <2>4 DEF c7
    <3> QED
      BY <2>2, <3>1
  <2> QED
    BY <1>11, <2>3, <2>4
<1> DEFINE s2 == handled \o ready
           s3 == s2 \o MessagesOf(pipeline)
           s4 == s3 \o MessagesOf(Held)
           s5 == s4 \o MessagesOf(ciphered)
           s6 == s5 \o MessagesOf(wire)
           s7 == s6 \o MessagesOf(sealing)
           s8 == s7 \o outbox
<1>21. s2 \in Seq(Int) /\ Len(s2) = c2 /\ Run(s2, 0)
  BY <1>5, <1>13, <1>15, Extends DEF c1, c2
<1> HIDE DEF s2
<1>22. s3 \in Seq(Int) /\ Len(s3) = c3 /\ Run(s3, 0)
  BY <1>13, <1>16, <1>21, Extends DEF c3
<1> HIDE DEF s3
<1>23. s4 \in Seq(Int) /\ Len(s4) = c4 /\ Run(s4, 0)
  <2> DEFINE m == MessagesOf(Held)
  <2>1. m \in Seq(Int) /\ Len(m) = Len(Held) /\ Run(m, c3)
    BY <1>17
  <2> HIDE DEF m
  <2>2. /\ s3 \o m \in Seq(Int) /\ Len(s3 \o m) = c3 + Len(m) /\ Run(s3 \o m, 0)
    BY <1>13, <1>22, <2>1, Extends
  <2> QED
    BY <2>1, <2>2 DEF c4, m
<1> HIDE DEF s4
<1>24. s5 \in Seq(Int) /\ Len(s5) = c5 /\ Run(s5, 0)
  BY <1>13, <1>18, <1>23, Extends DEF c5
<1> HIDE DEF s5
<1>25. s6 \in Seq(Int) /\ Len(s6) = c6 /\ Run(s6, 0)
  BY <1>13, <1>19, <1>24, Extends DEF c6
<1> HIDE DEF s6
<1>26. s7 \in Seq(Int) /\ Len(s7) = c7 /\ Run(s7, 0)
  BY <1>13, <1>20, <1>25, Extends DEF c7
<1> HIDE DEF s7
<1>27. s8 \in Seq(Int) /\ Len(s8) = c7 + Len(outbox) /\ Run(s8, 0)
  BY <1>5, <1>13, <1>15, <1>26, Extends
<1> HIDE DEF s8
<1>28. Len(s8) = written
  BY <1>11, <1>14, <1>27
<1>29. s8 = [n \in 1..written |-> n]
  <2>1. DOMAIN s8 = 1..written /\ s8 \in [1..written -> Int]
    BY <1>27, <1>28, LenProperties
  <2>2. \A n \in 1..written : s8[n] = n
    BY <1>27, <1>28 DEF Run
  <2> QED
    BY <2>1, <2>2
<1>30. s8 = handled \o ready \o MessagesOf(pipeline) \o MessagesOf(Held)
              \o MessagesOf(ciphered) \o MessagesOf(wire) \o MessagesOf(sealing) \o outbox
  BY DEF s2, s3, s4, s5, s6, s7, s8
<1> QED
  BY <1>7, <1>29, <1>30

(* While the connection is whole every message written is in exactly one     *)
(* place and in its order, for every number of messages and every size of    *)
(* the queues; and what was handled never has a gap, whatever broke.         *)
THEOREM NothingLostCorrect == Spec => []NothingLost
<1> QED
  BY StreamCorrect, AllPlaces, PTL

=============================================================================
