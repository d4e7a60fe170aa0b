------------------------------- MODULE Linker -------------------------------
(***************************************************************************)
(* The bound side of a client during one session: the relay asks for a      *)
(* link to a service (handle-SERVICE_LINK), the client connects to the      *)
(* destination of the service and carries the stream of the circuit to it   *)
(* and back (handle-stream), until the relay closes the link, the           *)
(* destination ends or the session is lost.                                 *)
(*                                                                         *)
(* A link has two signals.  done settles at the first finalize: the link    *)
(* leaves the table, the pumps are aborted and the connection is closed as  *)
(* soon as there is one.  The session aborts the pumps too, but it is only  *)
(* when both have ended that done settles.  A connection may be made after  *)
(* either: Deno.connect is told to give up, but may have been quicker; its  *)
(* pumps then start on a signal that is aborted already and do not see it.  *)
(***************************************************************************)
EXTENDS Integers, Sequences

CONSTANTS
  Links,     (* the requests of the relay                                  *)
  MaxUid,    (* bound: uids are -1 .. -MaxUid                               *)
  MaxData    (* bound: chunks of each stream                                *)

ASSUME LinkerAssumption == {MaxUid, MaxData} \subseteq Nat

(* 0 stands for the uids that are not negative, which belong to circuits     *)
(* that the client asked for itself.                                         *)
Uids == -MaxUid..0

(* streamed: the chunks that the relay sent; out: the outputQueue; hand: the *)
(* chunk that the writer is busy with, 0 for none; got: what the destination *)
(* received; pending: chunks of the destination on their way to the reader;  *)
(* told: the SERVICE_CLOSED sent to the relay.                               *)
Link == [uid : Uids,
         state : {"none", "refused", "connecting", "linked", "failed"},
         answer : {"none", "success", "failure", "invalid", "unknown"},
         finalized : BOOLEAN,
         tcp : {"none", "open", "eof", "broken", "closed"},
         writer : {"off", "shifting", "writing", "ended"},
         reader : {"off", "reading", "ended"},
         out : Seq(1..MaxData), hand : 0..MaxData,
         got : Seq(1..MaxData), streamed : 0..MaxData,
         pending : 0..MaxData, told : 0..2]

VARIABLES
  link,    (* per request, a Link                                          *)
  links,   (* services.links: the links by uid                             *)
  up       (* the session is not aborted                                   *)

vars == <<link, links, up>>

TypeOK ==
  /\ link \in [Links -> Link]
  /\ DOMAIN links \subseteq Uids
  /\ \A u \in DOMAIN links : links[u] \in Links
  /\ up \in BOOLEAN

NoLink == [uid |-> 0, state |-> "none", answer |-> "none", finalized |-> FALSE,
           tcp |-> "none", writer |-> "off", reader |-> "off", out |-> <<>>,
           hand |-> 0, got |-> <<>>, streamed |-> 0, pending |-> 0, told |-> 0]

Init ==
  /\ link = [l \in Links |-> NoLink]
  /\ links = [u \in {} |-> u]
  /\ up = TRUE

-----------------------------------------------------------------------------
(* Steps the actions are made of.                                           *)

Changes(l, c) == link' = [link EXCEPT ![l] = c]

Without(u) == [v \in DOMAIN links \ {u} |-> links[v]]

(* What is written after the session was aborted is dropped.                 *)
Answers(c, reply) == IF up THEN [c EXCEPT !.answer = reply] ELSE c

Tells(c) == IF up THEN [c EXCEPT !.told = @ + 1] ELSE c

(* An abort ends a pump that waits; one that writes first finishes.          *)
PumpsAborted(c) ==
  [c EXCEPT !.writer = IF @ = "shifting" THEN "ended" ELSE @,
            !.reader = IF @ = "reading" THEN "ended" ELSE @]

(* done.finally, for a link that has its connection or will not get one.     *)
Finalized(c) ==
  [PumpsAborted(c) EXCEPT !.finalized = TRUE,
                          !.tcp = IF @ = "none" THEN @ ELSE "closed"]

(* Link l becomes c and, unless it was before, is finalized.                 *)
Finalizes(l, c) ==
  IF link[l].finalized THEN Changes(l, c) /\ UNCHANGED links
  ELSE Changes(l, Finalized(c)) /\ links' = Without(c.uid)

(* A step of a pump: when both have ended the link is finalized.             *)
PumpStep(l, c) ==
  /\ IF c.writer = "ended" /\ c.reader = "ended" THEN Finalizes(l, c)
     ELSE Changes(l, c) /\ UNCHANGED links
  /\ UNCHANGED up

-----------------------------------------------------------------------------
(* What the relay says.  Any message the client can read is allowed.         *)

\* Mutant: a uid that is in use is accepted.
MutInvalid(u) == u >= 0

Invalid(u) == u >= 0 \/ u \in DOMAIN links

ServiceLink(l, u, known) ==
  /\ up
  /\ link[l].state = "none"
  /\ IF Invalid(u) \/ ~known
     THEN /\ Changes(l, [NoLink EXCEPT !.uid = u, !.state = "refused",
                           !.answer = IF Invalid(u) THEN "invalid" ELSE "unknown"])
          /\ UNCHANGED links
     ELSE /\ Changes(l, [NoLink EXCEPT !.uid = u, !.state = "connecting"])
          /\ links' = [v \in DOMAIN links \cup {u} |-> IF v = u THEN l ELSE links[v]]
  /\ UNCHANGED up

(* A chunk for a link that is gone is answered and changes nothing.          *)
ServiceStream(u) ==
  /\ up
  /\ u \in DOMAIN links
  /\ LET l == links[u]
     IN /\ link[l].streamed < MaxData
        /\ Changes(l, [link[l] EXCEPT !.streamed = @ + 1, !.out = Append(@, link[l].streamed + 1)])
  /\ UNCHANGED <<links, up>>

ServiceClosed(u) ==
  /\ up
  /\ u \in DOMAIN links
  /\ Finalizes(links[u], link[links[u]])
  /\ UNCHANGED up

-----------------------------------------------------------------------------
(* Deno.connect settles.                                                    *)

\* Mutant: a connection made for a link that is closed is forgotten.
MutConnection(c) == [c EXCEPT !.tcp = "open"]

(* link.tunnel.then(safelyClose)                                             *)
Connection(c) == [c EXCEPT !.tcp = IF c.finalized THEN "closed" ELSE "open"]

(* The outputQueue of a session that is lost rejects, which ends the pumps.   *)
Connects(l) ==
  /\ link[l].state = "connecting"
  /\ LET c == [Connection(Answers(link[l], "success")) EXCEPT
                 !.state = "linked", !.writer = "shifting", !.reader = "reading"]
     IN PumpStep(l, IF up THEN c ELSE PumpsAborted(c))

ConnectFails(l) ==
  /\ link[l].state = "connecting"
  /\ Finalizes(l, [Answers(link[l], "failure") EXCEPT !.state = "failed"])
  /\ UNCHANGED up

-----------------------------------------------------------------------------
(* The pumps.                                                               *)

\* Mutant: the pump takes the newest chunk first.
MutNextChunk(out) == out[Len(out)]

NextChunk(out) == Head(out)

WriterShifts(l) ==
  /\ link[l].writer = "shifting" /\ link[l].out # <<>>
  /\ Changes(l, [link[l] EXCEPT !.writer = "writing", !.hand = NextChunk(link[l].out),
                                !.out = Tail(@)])
  /\ UNCHANGED <<links, up>>

(* The write may be through although the connection has been closed since.   *)
(* Whatever aborts the writer has ended the reader.                          *)
WriterWrites(l) ==
  /\ link[l].writer = "writing" /\ link[l].tcp # "broken"
  /\ PumpStep(l, [link[l] EXCEPT !.got = Append(@, link[l].hand), !.hand = 0,
                    !.writer = IF link[l].reader = "ended" THEN "ended" ELSE "shifting"])

WriterFails(l) ==
  /\ link[l].writer = "writing" /\ link[l].tcp \in {"broken", "closed"}
  /\ PumpStep(l, [Tells(link[l]) EXCEPT !.writer = "ended", !.reader = "ended", !.hand = 0])

ReaderReads(l) ==
  /\ link[l].reader = "reading" /\ link[l].pending > 0
  /\ link[l].tcp \in {"open", "eof"}
  /\ Changes(l, [link[l] EXCEPT !.pending = @ - 1])
  /\ UNCHANGED <<links, up>>

(* read() is done, or fails.                                                 *)
ReaderDone(c) == c.tcp \in {"broken", "closed"} \/ (c.tcp = "eof" /\ c.pending = 0)

ReaderEnds(l) ==
  /\ link[l].reader = "reading" /\ ReaderDone(link[l])
  /\ PumpStep(l, PumpsAborted(Tells(link[l])))

-----------------------------------------------------------------------------
(* The destination, and the loss of the session.                            *)

DestinationSends(l) ==
  /\ link[l].tcp = "open" /\ link[l].pending < MaxData
  /\ Changes(l, [link[l] EXCEPT !.pending = @ + 1])
  /\ UNCHANGED <<links, up>>

DestinationEnds(l, how) ==
  /\ link[l].tcp = "open"
  /\ Changes(l, [link[l] EXCEPT !.tcp = how])
  /\ UNCHANGED <<links, up>>

(* A link when the session is aborted: its outputQueue is emptied, its pumps *)
(* end and, with both, the link; a link that is connecting stays.            *)
Lost(c) ==
  LET d == PumpsAborted([c EXCEPT !.out = <<>>])
  IN IF d.writer = "ended" /\ d.reader = "ended" THEN Finalized(d) ELSE d

SessionAborts ==
  /\ up
  /\ up' = FALSE
  /\ link' = [l \in Links |-> Lost(link[l])]
  /\ links' = [u \in {v \in DOMAIN links : ~Lost(link[links[v]]).finalized} |-> links[u]]

Done == ~up /\ UNCHANGED vars

Pumps(l) ==
  \/ WriterShifts(l) \/ WriterWrites(l) \/ WriterFails(l)
  \/ ReaderReads(l) \/ ReaderEnds(l)

Next ==
  \/ \E l \in Links :
       \/ \E u \in Uids, known \in BOOLEAN : ServiceLink(l, u, known)
       \/ Connects(l) \/ ConnectFails(l)
       \/ Pumps(l)
       \/ DestinationSends(l)
       \/ \E how \in {"eof", "broken"} : DestinationEnds(l, how)
  \/ \E u \in Uids : ServiceStream(u) \/ ServiceClosed(u)
  \/ SessionAborts
  \/ Done

Spec == Init /\ [][Next]_vars

(* Deno.connect settles, and a destination that has not gone reads.          *)
Fairness ==
  \A l \in Links :
    /\ WF_vars(Connects(l) \/ ConnectFails(l))
    /\ WF_vars(WriterShifts(l)) /\ WF_vars(WriterWrites(l) \/ WriterFails(l))
    /\ WF_vars(ReaderReads(l)) /\ WF_vars(ReaderEnds(l))

FairSpec == Spec /\ Fairness

-----------------------------------------------------------------------------
(* Safety.                                                                   *)

Accepted(l) == link[l].state \in {"connecting", "linked", "failed"}

(* The table holds exactly the links that have not ended, each under its     *)
(* own uid, whatever identifiers the relay sends and however long a          *)
(* connection takes: a chunk reaches the destination of its own circuit.     *)
LinksMatch ==
  /\ \A u \in DOMAIN links : link[links[u]].uid = u /\ ~link[links[u]].finalized
  /\ \A l \in Links :
       Accepted(l) /\ ~link[l].finalized =>
         link[l].uid \in DOMAIN links /\ links[link[l].uid] = l

InHand(l) == IF link[l].hand = 0 THEN <<>> ELSE <<link[l].hand>>

(* Chunks that arrive while the connection is being made wait for it: the    *)
(* destination gets every chunk, in order, as long as the link lasts, and    *)
(* the relay is told that the destination ended only after all it had sent,  *)
(* and never of a link it has no SUCCESS for.                                *)
NothingCutShort ==
  \A l \in Links :
    /\ \A i \in DOMAIN link[l].got : link[l].got[i] = i
    /\ up /\ Accepted(l) /\ ~link[l].finalized =>
         link[l].got \o InHand(l) \o link[l].out = [i \in 1..link[l].streamed |-> i]
    /\ link[l].told > 0 => link[l].answer = "success"
    /\ link[l].told > 0 /\ link[l].tcp = "eof" => link[l].pending = 0

-----------------------------------------------------------------------------
(* Liveness.                                                                 *)

(* When a link has been closed, or its session lost, no connection to the    *)
(* destination stays open, one that was made too late included; and when     *)
(* the destination ends, the relay is told, unless it closed the link or     *)
(* the session was lost first.                                               *)
EndsReach ==
  \A l \in Links :
    /\ (link[l].finalized \/ ~up) ~> [](link[l].tcp \in {"none", "closed"})
    /\ link[l].tcp \in {"eof", "broken"} ~> link[l].told > 0 \/ link[l].finalized \/ ~up

=============================================================================
