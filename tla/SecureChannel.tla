--------------------------- MODULE SecureChannel ---------------------------
(***************************************************************************)
(* One direction of an authenticated WebSocket: from the calls of write on *)
(* one side, through the encrypting writer (createCipheredWriter), the     *)
(* transport, and the receiver's two queues with the pump between them     *)
(* (createDecipheredQueue), to the loop that handles one command at a      *)
(* time (handleSocketRelay, handleClientSocket).  Encryption numbers the   *)
(* packets on both sides independently (createTunnelSecurity): a packet    *)
(* lost, repeated or swapped anywhere makes all the later ones unreadable. *)
(*                                                                         *)
(* The three queues are instances of consumableAsyncQueue; what AsyncQueue *)
(* establishes about it is used here: an item goes to a waiting shift at   *)
(* once, or in order to a later one, and queued() is exact.  An action is  *)
(* what runs between two awaits.  The n-th message written is n.           *)
(***************************************************************************)
EXTENDS Integers, Sequences

CONSTANTS
  Role,              (* the sender's role: "relay" or "client"              *)
  FirstCounter,      (* how often the sender encrypted while authenticating *)
  DecryptQueueSize,  (* performance.decryptQueueSize                        *)
  LowSpace,          (* the values of the low part of a nonce, 2^64         *)
  HighSpace,         (* the values of its high part, 2^24                   *)
  MaxMessages        (* bound: the messages ever written                    *)

ASSUME ChannelAssumption ==
  /\ Role \in {"relay", "client"}
  /\ FirstCounter \in Nat
  /\ DecryptQueueSize \in Nat \ {0}
  /\ LowSpace \in Nat \ {0}
  /\ HighSpace \in Nat \ {0}
  /\ MaxMessages \in Nat \ {0}

(* The nonce of a packet: a byte for the role of the sender, and the counter *)
(* in the remaining 88 bits, of which the upper 24 are written first.        *)
EncodeIV(role, counter) ==
  LET c == counter % (HighSpace * LowSpace)
  IN [role |-> IF role = "relay" THEN 1 ELSE 2, high |-> c \div LowSpace, low |-> c % LowSpace]

IVs == [role : {1, 2}, high : 0..(HighSpace - 1), low : 0..(LowSpace - 1)]

(* Stands for the nonce of a frame that nothing in the program encrypted.    *)
Foreign == [role |-> 0, high |-> 0, low |-> 0]

Messages == 1..MaxMessages
Packets == [message : Messages, iv : IVs \cup {Foreign}]

(* A packet whose decryption was started, with the counter it took.          *)
Jobs == [message : Messages, iv : IVs \cup {Foreign}, counter : Nat]

(* What shift gives for a packet that does not decrypt.                      *)
Failure == 0

VARIABLES
  (* the sender *)
  written,         (* how many messages were written                         *)
  outbox,          (* the messages the writer has not taken                  *)
  writer,          (* "shifting", "sealing" or "stopped"                     *)
  sealing,         (* the packet being encrypted, as a sequence of one       *)
  localCounter,    (* the sender's counter                                   *)
  writerAborted,   (* the sender's application signal is aborted             *)
  sendable,        (* the sender's WebSocket is OPEN                         *)
  (* the transport *)
  wire,            (* the packets under way                                  *)
  garbage,         (* a frame that does not decrypt was put among them       *)
  (* the receiver *)
  ciphered,        (* the packets in cipheredQueue                           *)
  queueAborted,    (* cipheredQueue.aborted()                                *)
  pump,            (* where the loop between the queues is                   *)
  held,            (* the packet it holds, as a sequence of at most one      *)
  pipeline,        (* the packets in the map of decryptQueue                 *)
  remoteCounter,   (* the receiver's counter                                 *)
  ready,           (* the results pending in decryptQueue                    *)
  decryptAborted,  (* decryptQueue.aborted()                                 *)
  handler,         (* "shifting", "busy" or "gone"                           *)
  handled          (* the commands it was given, in order                    *)

senderVars == <<written, outbox, writer, sealing, localCounter, writerAborted, sendable>>
queueVars == <<ciphered, queueAborted, pump, held>>
decryptVars == <<pipeline, remoteCounter, ready, decryptAborted, handler, handled>>
vars == <<senderVars, wire, garbage, queueVars, decryptVars>>

TypeOK ==
  /\ written \in 0..MaxMessages
  /\ outbox \in Seq(Messages)
  /\ writer \in {"shifting", "sealing", "stopped"}
  /\ sealing \in Seq(Packets)
  /\ localCounter \in Nat
  /\ writerAborted \in BOOLEAN
  /\ sendable \in BOOLEAN
  /\ wire \in Seq(Packets)
  /\ garbage \in BOOLEAN
  /\ ciphered \in Seq(Packets)
  /\ queueAborted \in BOOLEAN
  /\ pump \in {"shifting", "got", "blocked", "released", "failed", "done"}
  /\ held \in Seq(Packets)
  /\ pipeline \in Seq(Jobs)
  /\ remoteCounter \in Nat
  /\ ready \in Seq(Messages \cup {Failure})
  /\ decryptAborted \in BOOLEAN
  /\ handler \in {"shifting", "busy", "gone"}
  /\ handled \in Seq(Messages)

(* Authentication is over; both loops have come to their first shift.        *)
Init ==
  /\ written = 0
  /\ outbox = <<>>
  /\ writer = "shifting"
  /\ sealing = <<>>
  /\ localCounter = FirstCounter
  /\ writerAborted = FALSE
  /\ sendable = TRUE
  /\ wire = <<>>
  /\ garbage = FALSE
  /\ ciphered = <<>>
  /\ queueAborted = FALSE
  /\ pump = "shifting"
  /\ held = <<>>
  /\ pipeline = <<>>
  /\ remoteCounter = FirstCounter
  /\ ready = <<>>
  /\ decryptAborted = FALSE
  /\ handler = "shifting"
  /\ handled = <<>>

-----------------------------------------------------------------------------
(* The sender.                                                               *)

(* The writer's shift gives it a message: encrypt takes its counter before   *)
(* it awaits anything.                                                       *)
Encrypt(m) ==
  /\ writer' = "sealing"
  /\ sealing' = <<[message |-> m, iv |-> EncodeIV(Role, localCounter)]>>
  /\ localCounter' = localCounter + 1

(* write pushes a message, which goes to the writer at once if it waits.     *)
Write ==
  /\ written < MaxMessages
  /\ written' = written + 1
  /\ \/ /\ writerAborted
        /\ UNCHANGED <<outbox, writer, sealing, localCounter>>
     \/ /\ ~writerAborted
        /\ writer = "shifting"
        /\ Encrypt(written + 1)
        /\ UNCHANGED outbox
     \/ /\ ~writerAborted
        /\ writer # "shifting"
        /\ outbox' = Append(outbox, written + 1)
        /\ UNCHANGED <<writer, sealing, localCounter>>
  /\ UNCHANGED <<writerAborted, sendable, wire, garbage, queueVars, decryptVars>>

(* The loop goes on to its next shift.                                       *)
WriterShifts ==
  \/ /\ writerAborted
     /\ writer' = "stopped"
     /\ sealing' = <<>>
     /\ UNCHANGED <<outbox, localCounter>>
  \/ /\ ~writerAborted
     /\ outbox # <<>>
     /\ Encrypt(Head(outbox))
     /\ outbox' = Tail(outbox)
  \/ /\ ~writerAborted
     /\ outbox = <<>>
     /\ writer' = "shifting"
     /\ sealing' = <<>>
     /\ UNCHANGED <<outbox, localCounter>>

(* encrypt is done and send takes the packet; a socket that is not OPEN      *)
(* drops it or throws, and the loop ends without telling those who write.    *)
Send ==
  /\ writer = "sealing"
  /\ \/ /\ wire' = IF sendable THEN wire \o sealing ELSE wire
        /\ WriterShifts
     \/ /\ ~sendable
        /\ writer' = "stopped"
        /\ sealing' = <<>>
        /\ UNCHANGED <<outbox, localCounter, wire>>
  /\ UNCHANGED <<written, writerAborted, sendable, garbage, queueVars, decryptVars>>

(* The signal of the sender's application or connection aborts.              *)
WriterAborts ==
  /\ ~writerAborted
  /\ writerAborted' = TRUE
  /\ outbox' = <<>>
  /\ writer' = IF writer = "shifting" THEN "stopped" ELSE writer
  /\ UNCHANGED <<written, sealing, localCounter, sendable, wire, garbage, queueVars,
                 decryptVars>>

SocketLost ==
  /\ sendable
  /\ sendable' = FALSE
  /\ UNCHANGED <<written, outbox, writer, sealing, localCounter, writerAborted, wire, garbage,
                 queueVars, decryptVars>>

(* The peer sends a frame that this program would not have sent; once is     *)
(* enough, for nothing after it decrypts.                                    *)
SendGarbage ==
  /\ ~garbage
  /\ garbage' = TRUE
  /\ wire' = Append(wire, [message |-> 1, iv |-> Foreign])
  /\ UNCHANGED <<senderVars, queueVars, decryptVars>>

-----------------------------------------------------------------------------
(* The receiver's queues and the pump.                                       *)

(* onmessage pushes a packet into cipheredQueue.                             *)
Arrive ==
  /\ wire # <<>>
  /\ wire' = Tail(wire)
  /\ \/ /\ queueAborted
        /\ UNCHANGED queueVars
     \/ /\ ~queueAborted
        /\ pump = "shifting"
        /\ pump' = "got"
        /\ held' = <<Head(wire)>>
        /\ UNCHANGED <<ciphered, queueAborted>>
     \/ /\ ~queueAborted
        /\ pump # "shifting"
        /\ ciphered' = Append(ciphered, Head(wire))
        /\ UNCHANGED <<queueAborted, pump, held>>
  /\ UNCHANGED <<senderVars, garbage, decryptVars>>

Queued == Len(pipeline) + Len(ready)

\* Mutant: off by one.
MutFull == Queued > DecryptQueueSize

Full == Queued >= DecryptQueueSize

\* Mutant: the counter moves on when the decryption is done, so that two that
\* run side by side take the same.
MutDecrypt(p) ==
  /\ pipeline' = Append(pipeline, [message |-> p.message, iv |-> p.iv,
                                   counter |-> remoteCounter - Len(pipeline)])
  /\ remoteCounter' = remoteCounter + 1

(* decryptQueue.push: the map takes its counter in the order of the pushes.  *)
Decrypt(p) ==
  /\ pipeline' = Append(pipeline, [message |-> p.message, iv |-> p.iv, counter |-> remoteCounter])
  /\ remoteCounter' = remoteCounter + 1

(* The pump goes on to its next shift.                                       *)
PumpShifts ==
  \/ /\ queueAborted
     /\ pump' = "failed"
     /\ held' = <<>>
     /\ UNCHANGED ciphered
  \/ /\ ~queueAborted
     /\ ciphered # <<>>
     /\ pump' = "got"
     /\ held' = <<Head(ciphered)>>
     /\ ciphered' = Tail(ciphered)
  \/ /\ ~queueAborted
     /\ ciphered = <<>>
     /\ pump' = "shifting"
     /\ held' = <<>>
     /\ UNCHANGED ciphered

\* Mutant: a packet that finds no room is dropped.
MutPumpBlocks ==
  /\ pump = "got"
  /\ Full
  /\ PumpShifts
  /\ UNCHANGED <<senderVars, wire, garbage, queueAborted, decryptVars>>

(* The pump has a packet and waits for room, with waitFor("dequeue").        *)
PumpBlocks ==
  /\ pump = "got"
  /\ Full
  /\ pump' = "blocked"
  /\ UNCHANGED <<senderVars, wire, garbage, ciphered, queueAborted, held, decryptVars>>

PumpPushes ==
  /\ \/ pump = "got" /\ ~Full
     \/ pump = "released"
  /\ IF decryptAborted THEN UNCHANGED <<pipeline, remoteCounter>> ELSE Decrypt(held[1])
  /\ PumpShifts
  /\ UNCHANGED <<senderVars, wire, garbage, queueAborted, ready, decryptAborted, handler, handled>>

(* What happens to the waits of the pump when both queues are aborted.       *)
PumpRejected == pump' = IF pump \in {"shifting", "blocked"} THEN "failed" ELSE pump

(* Both queues are aborted, and what they hold is dropped.                   *)
AbortQueues ==
  /\ queueAborted' = TRUE
  /\ ciphered' = <<>>
  /\ decryptAborted' = TRUE
  /\ pipeline' = <<>>
  /\ ready' = <<>>
  /\ UNCHANGED <<remoteCounter, handled>>

(* The catch clause of the pump aborts both queues with one reason, and a    *)
(* handler that waits for a command goes.                                    *)
PumpEnds ==
  /\ pump = "failed"
  /\ pump' = "done"
  /\ AbortQueues
  /\ handler' = IF handler = "shifting" THEN "gone" ELSE handler
  /\ UNCHANGED <<senderVars, wire, garbage, held>>

-----------------------------------------------------------------------------
(* The handler.                                                              *)

\* Mutant: a pump that waits for room is not told when there is some.
MutReleased == pump

Released == IF pump = "blocked" THEN "released" ELSE pump

(* The handler returns or throws: its queues are disposed.                   *)
Leave ==
  /\ handler' = "gone"
  /\ PumpRejected
  /\ AbortQueues
  /\ UNCHANGED held

(* shift gives the handler a command, or rejects with the failure of its     *)
(* decryption, which ends it.                                                *)
Receive(result) ==
  \/ /\ result # Failure
     /\ handler' = "busy"
     /\ handled' = Append(handled, result)
     /\ pump' = Released
     /\ UNCHANGED <<ciphered, queueAborted, held, remoteCounter, decryptAborted>>
  \/ /\ result = Failure
     /\ Leave

(* AES-GCM: a packet decrypts under the nonce it was encrypted with.         *)
Plaintext(job) == IF job.iv = EncodeIV(Role, job.counter) THEN job.message ELSE Failure

(* The decryption at the head of the chain is done.                          *)
Decrypted ==
  /\ pipeline # <<>>
  /\ LET result == Plaintext(Head(pipeline))
     IN \/ /\ handler = "shifting"
           /\ Receive(result)
           /\ result # Failure => pipeline' = Tail(pipeline) /\ UNCHANGED ready
        \/ /\ handler # "shifting"
           /\ pipeline' = Tail(pipeline)
           /\ ready' = Append(ready, result)
           /\ UNCHANGED <<queueVars, remoteCounter, decryptAborted, handler, handled>>
  /\ UNCHANGED <<senderVars, wire, garbage>>

(* A command is done and the loop comes to its next shift.                   *)
NextCommand ==
  /\ handler = "busy"
  /\ \/ /\ decryptAborted
        /\ Leave
     \/ /\ ~decryptAborted
        /\ ready # <<>>
        /\ Receive(Head(ready))
        /\ Head(ready) # Failure => ready' = Tail(ready) /\ UNCHANGED pipeline
     \/ /\ ~decryptAborted
        /\ ready = <<>>
        /\ handler' = "shifting"
        /\ UNCHANGED <<queueVars, pipeline, remoteCounter, ready, decryptAborted, handled>>
  /\ UNCHANGED <<senderVars, wire, garbage>>

(* A command ends the loop.                                                  *)
HandlerLeaves ==
  /\ handler = "busy"
  /\ Leave
  /\ UNCHANGED <<senderVars, wire, garbage>>

\* Mutant: the close of the socket wakes no one.
MutNoticed == pump

(* A pump that waits for a packet notices the abort of its queue; one that   *)
(* waits for room does not.                                                  *)
Noticed == IF pump = "shifting" THEN "failed" ELSE pump

(* onclose or onerror: cipheredQueue is aborted, and nothing else yet.       *)
SocketCloses ==
  /\ ~queueAborted
  /\ queueAborted' = TRUE
  /\ ciphered' = <<>>
  /\ pump' = Noticed
  /\ UNCHANGED <<senderVars, wire, garbage, held, decryptVars>>

(* The receiver's own signal aborts both queues.                             *)
ReceiverAborts ==
  /\ ~decryptAborted
  /\ AbortQueues
  /\ PumpRejected
  /\ handler' = IF handler = "shifting" THEN "gone" ELSE handler
  /\ UNCHANGED <<senderVars, wire, garbage, held>>

-----------------------------------------------------------------------------
(* The messages of the instance are all written and the receiver has ended.  *)
Quiet ==
  /\ written = MaxMessages
  /\ writer # "sealing"
  /\ wire = <<>>
  /\ handler = "gone"
  /\ pump = "done"
  /\ UNCHANGED vars

Next ==
  \/ Write \/ Send \/ WriterAborts \/ SocketLost \/ SendGarbage
  \/ Arrive \/ PumpBlocks \/ PumpPushes \/ PumpEnds
  \/ Decrypted \/ NextCommand \/ HandlerLeaves
  \/ SocketCloses \/ ReceiverAborts
  \/ Quiet

Spec == Init /\ [][Next]_vars

(* Promises that are settled are acted on, the transport delivers what it    *)
(* was given as long as it lasts, and a command handler comes to an end.     *)
Fairness ==
  /\ WF_vars(Send) /\ WF_vars(Arrive)
  /\ WF_vars(PumpBlocks) /\ WF_vars(PumpPushes) /\ WF_vars(PumpEnds)
  /\ WF_vars(Decrypted) /\ WF_vars(NextCommand)

FairSpec == Spec /\ Fairness

-----------------------------------------------------------------------------
(* Safety.                                                                   *)

Broken == writerAborted \/ ~sendable \/ garbage \/ queueAborted \/ decryptAborted

MessagesOf(s) == [n \in DOMAIN s |-> s[n].message]

(* While nothing is broken every message written is in exactly one place,    *)
(* and the places are in order: back-pressure, the waiting promises and the  *)
(* hand-overs between the loops neither lose nor repeat nor swap one.        *)
(* Whatever breaks, and even after a frame that did not decrypt, the         *)
(* commands handled are the first ones written, in order and without a gap.  *)
NothingLost ==
  /\ \A n \in 1..Len(handled) : handled[n] = n
  /\ ~Broken =>
       handled \o ready \o MessagesOf(pipeline) \o MessagesOf(held) \o MessagesOf(ciphered)
         \o MessagesOf(wire) \o MessagesOf(sealing) \o outbox = [n \in 1..written |-> n]

(* The two counters stay in step: a packet is decrypted with the nonce it    *)
(* was encrypted with, whatever is in flight and whatever aborts, unless the *)
(* peer is not this program.                                                 *)
NoncesAgree ==
  ~garbage => \A n \in 1..Len(pipeline) : pipeline[n].iv = EncodeIV(Role, pipeline[n].counter)

(* Decrypted commands that wait are at most decryptQueueSize, even when the  *)
(* pump is released while further decryptions settle.                        *)
Bounded == Queued <= DecryptQueueSize

-----------------------------------------------------------------------------
(* Liveness.                                                                 *)

(* A message that is written is handled unless the connection breaks: the    *)
(* pump, the map and the handler never wait for one another.                 *)
WrittenIsHandled ==
  \A m \in Messages : written >= m ~> (Len(handled) >= m \/ Broken \/ handler = "gone")

(* A handler learns that its socket closed, even if the pump was waiting for *)
(* room at the time.                                                         *)
CloseReachesHandler == queueAborted ~> handler = "gone"

=============================================================================
