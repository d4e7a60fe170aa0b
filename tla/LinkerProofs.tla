----------------------------- MODULE LinkerProofs -----------------------------
(***************************************************************************)
(* Proofs about Linker: type correctness, the number of SERVICE_CLOSED that *)
(* a link can send included, that the table of links matches the links, and *)
(* that the streams of a link are in order and complete while it lasts.     *)
(***************************************************************************)
EXTENDS Linker, SequenceTheorems, TLAPS

AcceptedStates == {"connecting", "linked", "failed"}

(* LinksMatch is not inductive.  Of a link by itself: its pumps run only     *)
(* when it is linked, so that only the links that were accepted are          *)
(* finalized; and a pump tells the relay only as it ends.                    *)
Ended(pump) == IF pump = "ended" THEN 1 ELSE 0

LinkInv(c) ==
  /\ c \in Link
  /\ c.writer # "off" \/ c.reader # "off" => c.state = "linked"
  /\ c.writer = "writing" => c.hand # 0
  /\ c.told <= Ended(c.writer) + Ended(c.reader)

(* And of the table: it holds accepted links only.                           *)
Entries ==
  /\ DOMAIN links \subseteq Uids
  /\ \A u \in DOMAIN links :
       /\ links[u] \in Links
       /\ link[links[u]].state \in AcceptedStates

LinkerInv ==
  /\ link \in [Links -> Link]
  /\ \A l \in Links : LinkInv(link[l])
  /\ up \in BOOLEAN
  /\ Entries
  /\ LinksMatch

-----------------------------------------------------------------------------
(* One link by itself.                                                       *)

(* c is what d was, as far as the table is concerned.                        *)
SameEntry(c, d) ==
  /\ c.uid = d.uid /\ c.finalized = d.finalized
  /\ c.state \in AcceptedStates <=> d.state \in AcceptedStates

LEMMA BoundsNat == MaxUid \in Nat /\ MaxData \in Nat
BY LinkerAssumption DEF LinkerAssumption

LEMMA PumpsAbortedKeeps ==
  ASSUME NEW c, LinkInv(c)
  PROVE  LinkInv(PumpsAborted(c)) /\ SameEntry(PumpsAborted(c), c)
<1> DEFINE d == PumpsAborted(c)
<1>1. d \in Link
  BY DEF LinkInv, Link, PumpsAborted
<1>2. /\ d.uid = c.uid /\ d.finalized = c.finalized /\ d.state = c.state
      /\ d.told = c.told /\ d.hand = c.hand
      /\ d.writer = IF c.writer = "shifting" THEN "ended" ELSE c.writer
      /\ d.reader = IF c.reader = "reading" THEN "ended" ELSE c.reader
  BY DEF LinkInv, Link, PumpsAborted
<1>3. c.told \in 0..2
  BY DEF LinkInv, Link
<1> HIDE DEF d
<1>4. LinkInv(d)
  BY <1>1, <1>2, <1>3 DEF LinkInv, Ended
<1>5. SameEntry(d, c)
  BY <1>2 DEF SameEntry
<1> QED
  BY <1>4, <1>5 DEF d

LEMMA FinalizedKeeps ==
  ASSUME NEW c, LinkInv(c)
  PROVE  /\ LinkInv(Finalized(c)) /\ Finalized(c).finalized
         /\ Finalized(c).uid = c.uid /\ Finalized(c).state = c.state
<1> DEFINE p == PumpsAborted(c)
           d == Finalized(c)
<1>0. LinkInv(p)
  BY PumpsAbortedKeeps
<1>1. LinkInv(p) /\ p.uid = c.uid /\ p.state = c.state
  <2>1. c \in Link
    BY DEF LinkInv
  <2>2. p.uid = c.uid /\ p.state = c.state
    BY <2>1 DEF PumpsAborted, Link
  <2> QED
    BY <1>0, <2>2
<1>2. d = [p EXCEPT !.finalized = TRUE, !.tcp = IF @ = "none" THEN @ ELSE "closed"]
  BY DEF Finalized
<1> HIDE DEF p, d
<1>3. d \in Link
  BY <1>1, <1>2 DEF LinkInv, Link
<1>4. /\ d.finalized = TRUE
      /\ d.uid = p.uid /\ d.state = p.state /\ d.told = p.told /\ d.hand = p.hand
      /\ d.writer = p.writer /\ d.reader = p.reader
  BY <1>1, <1>2 DEF LinkInv, Link
<1> QED
  BY <1>1, <1>3, <1>4 DEF LinkInv, Ended, d

-----------------------------------------------------------------------------
(* Steps of one link.                                                        *)

LEMMA ChangesKeeps ==
  ASSUME LinkerInv, NEW l \in Links, NEW c, LinkInv(c), SameEntry(c, link[l]),
         Changes(l, c), UNCHANGED <<links, up>>
  PROVE  LinkerInv'
<1>1. c \in Link
  BY DEF LinkInv
<1>2. link' \in [Links -> Link] /\ up' \in BOOLEAN
  BY <1>1 DEF LinkerInv, Changes
<1>3. \A m \in Links : link'[m] = IF m = l THEN c ELSE link[m]
  BY DEF LinkerInv, Changes
<1>4. \A m \in Links : LinkInv(link'[m])
  BY <1>3 DEF LinkerInv
<1>5. \A m \in Links : SameEntry(link'[m], link[m])
  BY <1>3 DEF SameEntry
<1>6. Entries'
  BY <1>5 DEF LinkerInv, Entries, SameEntry
<1>7. LinksMatch'
  BY <1>5 DEF LinkerInv, Entries, LinksMatch, Accepted, SameEntry, AcceptedStates
<1> QED
  BY <1>2, <1>4, <1>6, <1>7 DEF LinkerInv

LEMMA FinalizesKeeps ==
  ASSUME LinkerInv, NEW l \in Links, NEW c, LinkInv(c), SameEntry(c, link[l]),
         link[l].state \in AcceptedStates,
         Finalizes(l, c), UNCHANGED up
  PROVE  LinkerInv'
<1>1. CASE link[l].finalized
  BY <1>1, ChangesKeeps DEF Finalizes
<1>2. CASE ~link[l].finalized
  <2> DEFINE d == Finalized(c)
  <2>1. /\ LinkInv(d) /\ d \in Link /\ d.finalized /\ d.uid = c.uid /\ d.state = c.state
    BY FinalizedKeeps DEF LinkInv
  <2>2. link' = [link EXCEPT ![l] = d] /\ links' = Without(c.uid)
    BY <1>2 DEF Finalizes, Changes
  <2> HIDE DEF d
  <2>3. link' \in [Links -> Link] /\ up' \in BOOLEAN
    BY <2>1, <2>2 DEF LinkerInv
  <2>4. \A m \in Links : link'[m] = IF m = l THEN d ELSE link[m]
    BY <2>2 DEF LinkerInv
  <2>5. \A m \in Links : LinkInv(link'[m])
    BY <2>1, <2>4 DEF LinkerInv
  <2>6. /\ DOMAIN links' = DOMAIN links \ {c.uid}
        /\ \A u \in DOMAIN links' : links'[u] = links[u]
    BY <2>2 DEF Without
  <2>7. c.uid \in DOMAIN links /\ links[c.uid] = l /\ link[l].uid = c.uid
    BY <1>2 DEF LinkerInv, LinksMatch, Accepted, AcceptedStates, SameEntry
  <2>8. \A u \in DOMAIN links' : links'[u] # l
    BY <2>6, <2>7 DEF LinkerInv, LinksMatch
  <2>9. Entries'
    BY <2>4, <2>6, <2>8 DEF LinkerInv, Entries
  <2>10. LinksMatch'
    BY <2>1, <2>4, <2>6, <2>7, <2>8 DEF LinkerInv, Entries, LinksMatch, Accepted, AcceptedStates
  <2> QED
    BY <2>3, <2>5, <2>9, <2>10 DEF LinkerInv
<1> QED
  BY <1>1, <1>2

LEMMA PumpStepKeeps ==
  ASSUME LinkerInv, NEW l \in Links, NEW c, LinkInv(c), SameEntry(c, link[l]),
         link[l].state \in AcceptedStates, PumpStep(l, c)
  PROVE  LinkerInv'
BY ChangesKeeps, FinalizesKeeps DEF PumpStep

-----------------------------------------------------------------------------
(* What the relay says.                                                      *)

LEMMA NoLinkInv == LinkInv(NoLink) /\ NoLink \in Link
<1>1. <<>> \in Seq(1..MaxData)
  BY EmptySeq
<1>2. NoLink \in Link
  BY <1>1, BoundsNat DEF NoLink, Link, Uids
<1> QED
  BY <1>2 DEF LinkInv, NoLink, Ended

LEMMA ServiceLinkKeeps ==
  ASSUME LinkerInv, NEW l \in Links, NEW u \in Uids, NEW known \in BOOLEAN,
         ServiceLink(l, u, known)
  PROVE  LinkerInv'
<1>0. link[l].state = "none" /\ up' \in BOOLEAN
  BY DEF ServiceLink, LinkerInv
<1>1. \A v \in DOMAIN links : links[v] # l
  BY <1>0 DEF LinkerInv, Entries, AcceptedStates
<1>2. CASE Invalid(u) \/ ~known
  <2> DEFINE c == [NoLink EXCEPT !.uid = u, !.state = "refused",
                     !.answer = IF Invalid(u) THEN "invalid" ELSE "unknown"]
  <2>1. Changes(l, c) /\ UNCHANGED <<links, up>>
    BY <1>2 DEF ServiceLink
  <2>2. c \in Link
    BY NoLinkInv DEF Link
  <2>3. /\ c.state = "refused" /\ c.told = 0 /\ c.writer = "off" /\ c.reader = "off"
        /\ c.finalized = FALSE
    BY DEF NoLink
  <2> HIDE DEF c
  <2>4. LinkInv(c)
    BY <2>2, <2>3 DEF LinkInv, Ended
  <2>5. link' \in [Links -> Link] /\ \A m \in Links : link'[m] = IF m = l THEN c ELSE link[m]
    BY <2>1, <2>2 DEF LinkerInv, Changes
  <2>6. \A m \in Links : LinkInv(link'[m])
    BY <2>4, <2>5 DEF LinkerInv
  <2>7. Entries' /\ LinksMatch'
    BY <1>1, <2>1, <2>3, <2>5 DEF LinkerInv, Entries, LinksMatch, Accepted, AcceptedStates
  <2> QED
    BY <1>0, <2>5, <2>6, <2>7 DEF LinkerInv
<1>3. CASE ~Invalid(u) /\ known
  <2> DEFINE c == [NoLink EXCEPT !.uid = u, !.state = "connecting"]
  <2>1. Changes(l, c) /\ links' = [v \in DOMAIN links \cup {u} |-> IF v = u THEN l ELSE links[v]]
    BY <1>3 DEF ServiceLink
  <2>2. c \in Link
    BY NoLinkInv DEF Link
  <2>3. /\ c.state = "connecting" /\ c.told = 0 /\ c.writer = "off" /\ c.reader = "off"
        /\ c.finalized = FALSE /\ c.uid = u
    BY DEF NoLink
  <2> HIDE DEF c
  <2>4. LinkInv(c)
    BY <2>2, <2>3 DEF LinkInv, Ended
  <2>5. link' \in [Links -> Link] /\ \A m \in Links : link'[m] = IF m = l THEN c ELSE link[m]
    BY <2>1, <2>2 DEF LinkerInv, Changes
  <2>6. \A m \in Links : LinkInv(link'[m])
    BY <2>4, <2>5 DEF LinkerInv
  <2>7. u \notin DOMAIN links
    BY <1>3 DEF Invalid
  <2>8. Entries'
    BY <1>1, <2>1, <2>3, <2>5, <2>7 DEF LinkerInv, Entries, AcceptedStates
  <2>9. LinksMatch'
    BY <1>1, <2>1, <2>3, <2>5, <2>7
    DEF LinkerInv, Entries, LinksMatch, Accepted, AcceptedStates
  <2> QED
    BY <1>0, <2>5, <2>6, <2>8, <2>9 DEF LinkerInv
<1> QED
  BY <1>2, <1>3

LEMMA RelaySaysKeeps ==
  ASSUME LinkerInv, NEW u \in Uids, ServiceStream(u) \/ ServiceClosed(u)
  PROVE  LinkerInv'
<1> DEFINE l == links[u]
<1>1. l \in Links /\ link[l].state \in AcceptedStates /\ LinkInv(link[l]) /\ link[l] \in Link
  BY DEF ServiceStream, ServiceClosed, LinkerInv, Entries
<1>2. CASE ServiceStream(u)
  <2> DEFINE n == link[l].streamed + 1
             o == Append(link[l].out, n)
             c == [link[l] EXCEPT !.streamed = n, !.out = o]
  <2>1. link[l].streamed < MaxData /\ Changes(l, c) /\ UNCHANGED <<links, up>>
    BY <1>2 DEF ServiceStream
  <2>2. n \in 1..MaxData /\ n \in 0..MaxData
    BY <1>1, <2>1, BoundsNat DEF Link
  <2>3. o \in Seq(1..MaxData)
    BY <1>1, <2>2, AppendProperties DEF Link
  <2> HIDE DEF n, o
  <2>4. c \in Link
    BY <1>1, <2>2, <2>3 DEF Link
  <2>5. /\ c.uid = link[l].uid /\ c.finalized = link[l].finalized /\ c.state = link[l].state
        /\ c.told = link[l].told /\ c.hand = link[l].hand
        /\ c.writer = link[l].writer /\ c.reader = link[l].reader
    BY <1>1 DEF Link
  <2> HIDE DEF c
  <2>6. LinkInv(c) /\ SameEntry(c, link[l])
    BY <1>1, <2>4, <2>5 DEF LinkInv, SameEntry
  <2> QED
    BY <1>1, <2>1, <2>6, ChangesKeeps
<1>3. CASE ServiceClosed(u)
  <2>1. Finalizes(l, link[l]) /\ UNCHANGED up
    BY <1>3 DEF ServiceClosed
  <2> QED
    BY <1>1, <2>1, FinalizesKeeps DEF SameEntry
<1> QED
  BY <1>2, <1>3

-----------------------------------------------------------------------------
(* Deno.connect settles.                                                     *)

LEMMA AnswersKeep ==
  ASSUME NEW c, LinkInv(c), NEW reply \in {"success", "failure"}
  PROVE  LET d == Answers(c, reply)
         IN /\ LinkInv(d)
            /\ d.uid = c.uid /\ d.finalized = c.finalized /\ d.state = c.state
            /\ d.told = c.told /\ d.writer = c.writer /\ d.reader = c.reader
<1> DEFINE d == Answers(c, reply)
<1>1. c \in Link
  BY DEF LinkInv
<1>2. d \in Link
  BY <1>1 DEF Answers, Link
<1>3. /\ d.uid = c.uid /\ d.finalized = c.finalized /\ d.state = c.state
      /\ d.told = c.told /\ d.writer = c.writer /\ d.reader = c.reader /\ d.hand = c.hand
  BY <1>1 DEF Answers, Link
<1> HIDE DEF d
<1>4. LinkInv(d)
  BY <1>2, <1>3 DEF LinkInv, Ended
<1> QED
  BY <1>3, <1>4 DEF d

LEMMA ConnectsKeeps ==
  ASSUME LinkerInv, NEW l \in Links, Connects(l)
  PROVE  LinkerInv'
<1> DEFINE d == Answers(link[l], "success")
           e == Connection(d)
           c == [e EXCEPT !.state = "linked", !.writer = "shifting", !.reader = "reading"]
<1>1. LinkInv(link[l]) /\ link[l].state = "connecting"
  BY DEF LinkerInv, Connects
<1>2. /\ LinkInv(d) /\ d.uid = link[l].uid /\ d.finalized = link[l].finalized
      /\ d.state = link[l].state /\ d.told = link[l].told
      /\ d.writer = link[l].writer /\ d.reader = link[l].reader
  BY <1>1, AnswersKeep
<1>3. PumpStep(l, IF up THEN c ELSE PumpsAborted(c))
  BY DEF Connects
<1> HIDE DEF d
<1>4. d.told = 0 /\ d \in Link
  BY <1>1, <1>2 DEF LinkInv, Link, Ended
<1>5. e \in Link /\ e.uid = d.uid /\ e.finalized = d.finalized /\ e.told = 0
  BY <1>4 DEF Connection, Link
<1> HIDE DEF e
<1>6. /\ c \in Link /\ c.uid = d.uid /\ c.finalized = d.finalized /\ c.told = 0
      /\ c.state = "linked" /\ c.writer = "shifting" /\ c.reader = "reading"
  <2>1. c \in Link
    BY <1>5 DEF Link
  <2>2. c.uid = e.uid /\ c.finalized = e.finalized /\ c.told = e.told
    BY <1>5 DEF Link
  <2>3. c.state = "linked" /\ c.writer = "shifting" /\ c.reader = "reading"
    BY <1>5 DEF Link
  <2> QED
    BY <1>5, <2>1, <2>2, <2>3
<1> HIDE DEF c
<1>7. LinkInv(c) /\ SameEntry(c, link[l])
  BY <1>1, <1>2, <1>6 DEF LinkInv, Ended, SameEntry, AcceptedStates
<1>8. LinkInv(PumpsAborted(c)) /\ SameEntry(PumpsAborted(c), link[l])
  BY <1>7, PumpsAbortedKeeps DEF SameEntry
<1> QED
  BY <1>1, <1>3, <1>7, <1>8, PumpStepKeeps DEF AcceptedStates

LEMMA ConnectFailsKeeps ==
  ASSUME LinkerInv, NEW l \in Links, ConnectFails(l)
  PROVE  LinkerInv'
<1> DEFINE d == Answers(link[l], "failure")
           c == [d EXCEPT !.state = "failed"]
<1>1. LinkInv(link[l]) /\ link[l].state = "connecting"
  BY DEF LinkerInv, ConnectFails
<1>2. /\ LinkInv(d) /\ d.uid = link[l].uid /\ d.finalized = link[l].finalized
      /\ d.state = link[l].state /\ d.told = link[l].told
      /\ d.writer = link[l].writer /\ d.reader = link[l].reader
  BY <1>1, AnswersKeep
<1>3. Finalizes(l, c) /\ UNCHANGED up
  BY DEF ConnectFails
<1> HIDE DEF d
<1>4. d.writer = "off" /\ d.reader = "off" /\ d \in Link
  BY <1>1, <1>2 DEF LinkInv, Link
<1>5. /\ c \in Link /\ c.uid = d.uid /\ c.finalized = d.finalized /\ c.told = d.told
      /\ c.state = "failed" /\ c.writer = d.writer /\ c.reader = d.reader
  BY <1>4 DEF Link
<1> HIDE DEF c
<1>6. LinkInv(c) /\ SameEntry(c, link[l])
  BY <1>1, <1>2, <1>4, <1>5 DEF LinkInv, Ended, SameEntry, AcceptedStates
<1> QED
  BY <1>1, <1>3, <1>6, FinalizesKeeps DEF AcceptedStates

-----------------------------------------------------------------------------
(* The pumps and the destination.                                            *)

(* What the pumps and the destination change of a link, and what they do     *)
(* not: its entry.                                                           *)
Updated(d, c) ==
  /\ c \in Link
  /\ c.uid = d.uid /\ c.finalized = d.finalized /\ c.state = d.state

LEMMA TellsKeeps ==
  ASSUME NEW d \in Link, d.told < 2
  PROVE  /\ Updated(d, Tells(d)) /\ Tells(d).told \in {d.told, d.told + 1}
         /\ Tells(d).writer = d.writer /\ Tells(d).reader = d.reader /\ Tells(d).hand = d.hand
<1>1. d.told + 1 \in 0..2
  BY DEF Link
<1> QED
  BY <1>1 DEF Tells, Link, Updated

LEMMA WriterKeeps ==
  ASSUME LinkerInv, NEW l \in Links, WriterShifts(l) \/ WriterWrites(l) \/ WriterFails(l)
  PROVE  LinkerInv'
<1> DEFINE d == link[l]
<1>1. LinkInv(d) /\ d \in Link
  BY DEF LinkerInv
<1>2. d.state = "linked"
  BY <1>1 DEF WriterShifts, WriterWrites, WriterFails, LinkInv
<1>3. CASE WriterShifts(l)
  <2>1. d.out \in Seq(1..MaxData) /\ d.out # <<>> /\ d.writer = "shifting"
    BY <1>1, <1>3 DEF WriterShifts, Link
  <2>2. Head(d.out) \in 1..MaxData /\ Tail(d.out) \in Seq(1..MaxData)
    BY <2>1, HeadTailProperties
  <2> DEFINE h == Head(d.out)
             t == Tail(d.out)
             c == [d EXCEPT !.writer = "writing", !.hand = h, !.out = t]
  <2>3. Changes(l, c) /\ UNCHANGED <<links, up>>
    BY <1>3 DEF WriterShifts, NextChunk
  <2>4. h \in 0..MaxData /\ h # 0 /\ t \in Seq(1..MaxData)
    BY <2>2, BoundsNat
  <2> HIDE DEF d, h, t
  <2>5. Updated(d, c) /\ c.writer = "writing" /\ c.reader = d.reader /\ c.hand = h /\ c.told = d.told
    BY <1>1, <2>4 DEF Link, Updated
  <2> HIDE DEF c
  <2>6. LinkInv(c) /\ SameEntry(c, d)
    BY <1>1, <1>2, <2>1, <2>4, <2>5 DEF LinkInv, Updated, SameEntry, Ended
  <2> QED
    BY <2>3, <2>6, ChangesKeeps DEF d
<1>4. CASE WriterWrites(l)
  <2>1. d.hand \in 1..MaxData /\ d.writer = "writing"
    BY <1>1, <1>4, BoundsNat DEF WriterWrites, LinkInv, Link
  <2> DEFINE g == Append(d.got, d.hand)
             w == IF d.reader = "ended" THEN "ended" ELSE "shifting"
             c == [d EXCEPT !.got = g, !.hand = 0, !.writer = w]
  <2>2. PumpStep(l, c)
    BY <1>4 DEF WriterWrites
  <2>3. g \in Seq(1..MaxData)
    BY <1>1, <2>1, AppendProperties DEF Link
  <2>4. w \in {"ended", "shifting"} /\ 0 \in 0..MaxData
    BY BoundsNat
  <2> HIDE DEF d, g, w
  <2>5. Updated(d, c) /\ c.writer = w /\ c.reader = d.reader /\ c.told = d.told
    BY <1>1, <2>3, <2>4 DEF Link, Updated
  <2> HIDE DEF c
  <2>6. d.told \in 0..2
    BY <1>1 DEF Link
  <2>7. LinkInv(c) /\ SameEntry(c, d)
    BY <1>1, <1>2, <2>1, <2>4, <2>5, <2>6 DEF LinkInv, Updated, SameEntry, Ended
  <2> QED
    BY <1>2, <2>2, <2>7, PumpStepKeeps DEF d, AcceptedStates
<1>5. CASE WriterFails(l)
  <2>1. d.writer = "writing"
    BY <1>5 DEF WriterFails
  <2>2. d.told <= Ended(d.reader) /\ d.told \in 0..2 /\ d.told < 2
    BY <1>1, <2>1 DEF LinkInv, Link, Ended
  <2> DEFINE t == Tells(d)
             c == [t EXCEPT !.writer = "ended", !.reader = "ended", !.hand = 0]
  <2>3. PumpStep(l, c)
    BY <1>5 DEF WriterFails
  <2> HIDE DEF d
  <2>4. Updated(d, t) /\ t.told \in {d.told, d.told + 1}
    BY <1>1, <2>2, TellsKeeps
  <2> HIDE DEF t
  <2>5. Updated(d, c) /\ c.writer = "ended" /\ c.reader = "ended" /\ c.told = t.told
    <3>1. t \in Link /\ 0 \in 0..MaxData
      BY <2>4, BoundsNat DEF Updated
    <3>2. /\ c \in Link /\ c.writer = "ended" /\ c.reader = "ended" /\ c.told = t.told
          /\ c.uid = t.uid /\ c.finalized = t.finalized /\ c.state = t.state
      BY <3>1 DEF Link
    <3> QED
      BY <2>4, <3>2 DEF Updated
  <2> HIDE DEF c
  <2>6. LinkInv(c) /\ SameEntry(c, d)
    BY <1>1, <1>2, <2>2, <2>4, <2>5 DEF LinkInv, Updated, SameEntry, Ended
  <2> QED
    BY <1>2, <2>3, <2>6, PumpStepKeeps DEF d, AcceptedStates
<1> QED
  BY <1>3, <1>4, <1>5

LEMMA ReaderEndsKeeps ==
  ASSUME LinkerInv, NEW l \in Links, ReaderEnds(l)
  PROVE  LinkerInv'
<1> DEFINE d == link[l]
           t == Tells(d)
           c == PumpsAborted(t)
<1>1. LinkInv(d) /\ d \in Link /\ d.reader = "reading" /\ PumpStep(l, c)
  BY DEF LinkerInv, ReaderEnds
<1>2. d.state = "linked" /\ d.told <= Ended(d.writer) /\ d.told \in 0..2 /\ d.told < 2
  BY <1>1 DEF LinkInv, Link, Ended
<1> HIDE DEF d
<1>3. /\ Updated(d, t) /\ t.told \in {d.told, d.told + 1}
      /\ t.writer = d.writer /\ t.reader = d.reader /\ t.hand = d.hand
  BY <1>1, <1>2, TellsKeeps
<1> HIDE DEF t
<1>4. /\ Updated(d, c) /\ c.told = t.told /\ c.reader = "ended" /\ c.hand = t.hand
      /\ c.writer = IF t.writer = "shifting" THEN "ended" ELSE t.writer
  BY <1>1, <1>3 DEF PumpsAborted, Updated, Link
<1> HIDE DEF c
<1>5. LinkInv(c) /\ SameEntry(c, d)
  BY <1>1, <1>2, <1>3, <1>4 DEF LinkInv, Updated, SameEntry, Ended
<1> QED
  BY <1>1, <1>2, <1>5, PumpStepKeeps DEF d, AcceptedStates

LEMMA DestinationKeeps ==
  ASSUME LinkerInv, NEW l \in Links,
         \/ ReaderReads(l) \/ DestinationSends(l)
         \/ \E how \in {"eof", "broken"} : DestinationEnds(l, how)
  PROVE  LinkerInv'
<1> DEFINE d == link[l]
<1>1. LinkInv(d) /\ d \in Link
  BY DEF LinkerInv
<1>2. CASE ReaderReads(l) \/ DestinationSends(l)
  <2>1. PICK p \in 0..MaxData : Changes(l, [d EXCEPT !.pending = p]) /\ UNCHANGED <<links, up>>
    <3>1. CASE ReaderReads(l)
      <4>1. d.pending - 1 \in 0..MaxData
        BY <1>1, <3>1, BoundsNat DEF ReaderReads, Link
      <4> QED
        BY <3>1, <4>1 DEF ReaderReads
    <3>2. CASE DestinationSends(l)
      <4>1. d.pending + 1 \in 0..MaxData
        BY <1>1, <3>2, BoundsNat DEF DestinationSends, Link
      <4> QED
        BY <3>2, <4>1 DEF DestinationSends
    <3> QED
      BY <1>2, <3>1, <3>2
  <2> DEFINE c == [d EXCEPT !.pending = p]
  <2> HIDE DEF d
  <2>2. /\ Updated(d, c) /\ c.told = d.told /\ c.writer = d.writer /\ c.reader = d.reader
        /\ c.hand = d.hand
    BY <1>1, <2>1 DEF Link, Updated
  <2> HIDE DEF c
  <2>3. LinkInv(c) /\ SameEntry(c, d)
    BY <1>1, <2>2 DEF LinkInv, Updated, SameEntry, Ended
  <2> QED
    BY <2>1, <2>3, ChangesKeeps DEF c, d
<1>3. CASE \E how \in {"eof", "broken"} : DestinationEnds(l, how)
  <2>1. PICK how \in {"eof", "broken"} : DestinationEnds(l, how)
    BY <1>3
  <2> DEFINE c == [d EXCEPT !.tcp = how]
  <2>2. Changes(l, c) /\ UNCHANGED <<links, up>>
    BY <2>1 DEF DestinationEnds
  <2> HIDE DEF d
  <2>3. /\ Updated(d, c) /\ c.told = d.told /\ c.writer = d.writer /\ c.reader = d.reader
        /\ c.hand = d.hand
    BY <1>1, <2>1 DEF Link, Updated
  <2> HIDE DEF c
  <2>4. LinkInv(c) /\ SameEntry(c, d)
    BY <1>1, <2>3 DEF LinkInv, Updated, SameEntry, Ended
  <2> QED
    BY <2>2, <2>4, ChangesKeeps DEF d
<1> QED
  BY <1>2, <1>3

-----------------------------------------------------------------------------
(* The loss of the session, and all of it.                                   *)

LEMMA LostKeeps ==
  ASSUME NEW c, LinkInv(c)
  PROVE  /\ LinkInv(Lost(c)) /\ Lost(c) \in Link
         /\ Lost(c).uid = c.uid /\ Lost(c).state = c.state
         /\ c.finalized => Lost(c).finalized
<1> DEFINE e == [c EXCEPT !.out = <<>>]
           d == PumpsAborted(e)
<1>1. c \in Link /\ <<>> \in Seq(1..MaxData)
  BY EmptySeq DEF LinkInv
<1>2. /\ e \in Link /\ e.uid = c.uid /\ e.state = c.state /\ e.finalized = c.finalized
      /\ e.told = c.told /\ e.hand = c.hand /\ e.writer = c.writer /\ e.reader = c.reader
  BY <1>1 DEF Link
<1> HIDE DEF e
<1>3. LinkInv(e)
  BY <1>2 DEF LinkInv
<1>4. LinkInv(d) /\ d.uid = e.uid /\ d.state = e.state /\ d.finalized = e.finalized
  <2>1. LinkInv(d)
    BY <1>3, PumpsAbortedKeeps
  <2>2. d.uid = e.uid /\ d.state = e.state /\ d.finalized = e.finalized
    BY <1>2 DEF PumpsAborted, Link
  <2> QED
    BY <2>1, <2>2
<1>5. Lost(c) = IF d.writer = "ended" /\ d.reader = "ended" THEN Finalized(d) ELSE d
  BY DEF Lost, d, e
<1> HIDE DEF d
<1>6. /\ LinkInv(Finalized(d)) /\ Finalized(d).finalized
      /\ Finalized(d).uid = d.uid /\ Finalized(d).state = d.state
  BY <1>4, FinalizedKeeps
<1>7. LinkInv(Lost(c)) /\ Lost(c).uid = c.uid /\ Lost(c).state = c.state
  BY <1>2, <1>4, <1>5, <1>6
<1>8. c.finalized => Lost(c).finalized
  BY <1>2, <1>4, <1>5, <1>6
<1> QED
  BY <1>7, <1>8 DEF LinkInv

LEMMA SessionAbortsKeeps ==
  ASSUME LinkerInv, SessionAborts
  PROVE  LinkerInv'
<1>1. \A l \in Links :
        /\ LinkInv(Lost(link[l])) /\ Lost(link[l]) \in Link
        /\ Lost(link[l]).uid = link[l].uid /\ Lost(link[l]).state = link[l].state
        /\ link[l].finalized => Lost(link[l]).finalized
  BY LostKeeps DEF LinkerInv
<1>2. /\ up' = FALSE
      /\ link' = [l \in Links |-> Lost(link[l])]
      /\ links' = [u \in {v \in DOMAIN links : ~Lost(link[links[v]]).finalized} |-> links[u]]
  BY DEF SessionAborts
<1>3. link' \in [Links -> Link]
  BY <1>1, <1>2
<1>4. up' \in BOOLEAN
  BY <1>2, Zenon
<1>5. \A l \in Links :
        /\ link'[l] = Lost(link[l]) /\ LinkInv(link'[l])
        /\ link'[l].uid = link[l].uid /\ link'[l].state = link[l].state
        /\ link[l].finalized => link'[l].finalized
  BY <1>1, <1>2
<1>6. /\ DOMAIN links' = {v \in DOMAIN links : ~link'[links[v]].finalized}
      /\ \A u \in DOMAIN links' : links'[u] = links[u]
  BY <1>2, <1>5 DEF LinkerInv, Entries
<1>7. Entries'
  BY <1>5, <1>6 DEF LinkerInv, Entries
<1>8. LinksMatch'
  <2>1. \A u \in DOMAIN links' : link'[links'[u]].uid = u /\ ~link'[links'[u]].finalized
    BY <1>5, <1>6 DEF LinkerInv, Entries, LinksMatch
  <2>2. ASSUME NEW l \in Links, Accepted(l)', ~link'[l].finalized
        PROVE  link'[l].uid \in DOMAIN links' /\ links'[link'[l].uid] = l
    <3>1. link[l].uid \in DOMAIN links /\ links[link[l].uid] = l
      BY <1>5, <2>2 DEF LinkerInv, LinksMatch, Accepted
    <3> QED
      BY <1>5, <1>6, <2>2, <3>1
  <2> QED
    BY <2>1, <2>2 DEF LinksMatch
<1> QED
  BY <1>3, <1>4, <1>5, <1>7, <1>8 DEF LinkerInv

LEMMA InitLinkerInv == Init => LinkerInv
<1> SUFFICES ASSUME Init PROVE LinkerInv
  OBVIOUS
<1>1. up \in BOOLEAN
  BY Zenon DEF Init
<1>2. link = [l \in Links |-> NoLink] /\ DOMAIN links = {}
  BY DEF Init
<1>3. NoLink.state = "none"
  BY DEF NoLink
<1> QED
  BY <1>1, <1>2, <1>3, NoLinkInv DEF LinkerInv, Entries, LinksMatch, Accepted

LEMMA NextLinkerInv == LinkerInv /\ [Next]_vars => LinkerInv'
<1> SUFFICES ASSUME LinkerInv, [Next]_vars PROVE LinkerInv'
  OBVIOUS
<1>1. CASE UNCHANGED vars
  <2>1. link' = link /\ links' = links /\ up' = up
    BY <1>1 DEF vars
  <2> QED
    BY <2>1 DEF LinkerInv, Entries, LinksMatch, Accepted
<1>2. CASE Done
  BY <1>1, <1>2 DEF Done
<1>3. CASE \E l \in Links :
             \/ \E u \in Uids, known \in BOOLEAN : ServiceLink(l, u, known)
             \/ Connects(l) \/ ConnectFails(l)
             \/ Pumps(l)
             \/ DestinationSends(l)
             \/ \E how \in {"eof", "broken"} : DestinationEnds(l, how)
  BY <1>3, ServiceLinkKeeps, ConnectsKeeps, ConnectFailsKeeps, WriterKeeps, ReaderEndsKeeps,
     DestinationKeeps DEF Pumps
<1>4. CASE \E u \in Uids : ServiceStream(u) \/ ServiceClosed(u)
  BY <1>4, RelaySaysKeeps
<1>5. CASE SessionAborts
  BY <1>5, SessionAbortsKeeps
<1> QED
  BY <1>1, <1>2, <1>3, <1>4, <1>5 DEF Next

(* The inductive invariant of the bound side holds in every reachable state. *)
THEOREM LinkerCorrect == Spec => []LinkerInv
<1> QED
  BY InitLinkerInv, NextLinkerInv, PTL DEF Spec

(* Every variable keeps its type: a link tells the relay of its end twice at *)
(* most, once per pump.                                                      *)
THEOREM TypesCorrect == Spec => []TypeOK
<1>1. LinkerInv => TypeOK
  BY DEF LinkerInv, Entries, TypeOK
<1> QED
  BY <1>1, LinkerCorrect, PTL

(* Whatever uids the relay asks for, and however late connections are made   *)
(* or pumps end, the table of a session holds exactly its links that have    *)
(* not ended, each under its own uid.                                        *)
THEOREM LinksMatchCorrect == Spec => []LinksMatch
<1>1. LinkerInv => LinksMatch
  BY DEF LinkerInv
<1> QED
  BY <1>1, LinkerCorrect, PTL

-----------------------------------------------------------------------------
(* s counts on from c.  A stream is numbered as it is sent, so that nothing  *)
(* was lost, repeated or reordered exactly when what a queue holds is a run. *)
Run(s, c) == \A n \in 1..Len(s) : s[n] = c + n

LEMMA EmptyRun ==
  ASSUME NEW c
  PROVE  Len(<<>>) = 0 /\ Run(<<>>, c)
<1>1. Len(<<>>) = 0
  BY EmptySeq
<1> QED
  BY <1>1 DEF Run

(* The first number is taken.                                                *)
LEMMA Shortens ==
  ASSUME NEW S, NEW s \in Seq(S), s # <<>>, NEW c \in Int, Run(s, c)
  PROVE  /\ Head(s) \in S /\ Head(s) = c + 1
         /\ Tail(s) \in Seq(S) /\ Run(Tail(s), c + 1)
         /\ Len(s) \in Nat /\ Len(Tail(s)) \in Nat /\ Len(s) = Len(Tail(s)) + 1
<1> DEFINE t == Tail(s)
<1>1. /\ Head(s) \in S /\ t \in Seq(S) /\ Len(t) = Len(s) - 1
      /\ \A n \in 1..Len(t) : t[n] = s[n + 1]
  BY HeadTailProperties
<1>2. Len(s) \in Nat \ {0}
  BY EmptySeq
<1>3. Len(t) \in Nat /\ Len(s) = Len(t) + 1
  BY <1>1, <1>2
<1>4. Head(s) = s[1]
  OBVIOUS
<1> HIDE DEF t
<1>5. Head(s) = c + 1
  BY <1>2, <1>4 DEF Run
<1>6. ASSUME NEW n \in 1..Len(t)
      PROVE  t[n] = (c + 1) + n
  <2>1. n + 1 \in 1..Len(s) /\ n \in Int
    BY <1>3
  <2>2. s[n + 1] = c + (n + 1)
    BY <2>1 DEF Run
  <2> QED
    BY <1>1, <2>1, <2>2
<1> QED
  BY <1>1, <1>2, <1>3, <1>5, <1>6 DEF Run, t

(* The next number is added.                                                 *)
LEMMA Lengthens ==
  ASSUME NEW S, NEW s \in Seq(S), NEW c \in Int, Run(s, c),
         NEW e \in S, e = c + Len(s) + 1
  PROVE  /\ Append(s, e) \in Seq(S)
         /\ Len(s) \in Nat /\ Len(Append(s, e)) = Len(s) + 1
         /\ Run(Append(s, e), c)
<1> DEFINE t == Append(s, e)
<1>1. /\ t \in Seq(S) /\ Len(t) = Len(s) + 1
      /\ \A n \in 1..Len(s) : t[n] = s[n]
      /\ t[Len(s) + 1] = e
  BY AppendProperties
<1>2. Len(s) \in Nat
  BY LenProperties
<1> HIDE DEF t
<1>3. ASSUME NEW n \in 1..Len(t)
      PROVE  t[n] = c + n
  <2>1. n \in 1..Len(s) \/ n = Len(s) + 1
    BY <1>1, <1>2
  <2>2. CASE n \in 1..Len(s)
    BY <1>1, <2>2 DEF Run
  <2>3. CASE n = Len(s) + 1
    BY <1>1, <1>2, <2>3
  <2> QED
    BY <2>1, <2>2, <2>3
<1> QED
  BY <1>1, <1>2, <1>3 DEF Run, t

(* A run goes on where another one ended.                                    *)
LEMMA Extends ==
  ASSUME NEW s \in Seq(Int), NEW t \in Seq(Int), NEW c \in Int,
         Len(s) = c, Run(s, 0), Run(t, c)
  PROVE  /\ s \o t \in Seq(Int)
         /\ Len(s \o t) = c + Len(t)
         /\ Run(s \o t, 0)
<1> DEFINE u == s \o t
<1>1. /\ u \in Seq(Int) /\ Len(u) = Len(s) + Len(t)
      /\ \A n \in 1..Len(s) + Len(t) : u[n] = IF n <= Len(s) THEN s[n] ELSE t[n - Len(s)]
  BY ConcatProperties
<1>2. Len(s) \in Nat /\ Len(t) \in Nat
  BY LenProperties
<1> HIDE DEF u
<1>3. ASSUME NEW n \in 1..Len(u)
      PROVE  u[n] = 0 + n
  <2>1. n \in 1..Len(s) + Len(t)
    BY <1>1
  <2>2. CASE n <= Len(s)
    BY <1>1, <1>2, <2>1, <2>2 DEF Run
  <2>3. CASE ~(n <= Len(s))
    <3>1. n - Len(s) \in 1..Len(t)
      BY <1>2, <2>1, <2>3
    <3>2. u[n] = c + (n - Len(s))
      BY <1>1, <2>1, <2>3, <3>1 DEF Run
    <3> QED
      BY <1>2, <2>1, <3>2
  <2> QED
    BY <2>2, <2>3
<1> QED
  BY <1>1, <1>3 DEF Run, u

(* A run that begins at 1 is determined by its length.                       *)
LEMMA RunIs ==
  ASSUME NEW s \in Seq(Int), Run(s, 0)
  PROVE  s = [i \in 1..Len(s) |-> i] /\ Len(s) \in Nat
<1>1. s \in [1..Len(s) -> Int] /\ Len(s) \in Nat
  BY LenProperties
<1>2. \A n \in 1..Len(s) : s[n] = n
  BY <1>1 DEF Run
<1> QED
  BY <1>1, <1>2

(* What was received, the number in hand (0 for none) and what waits, when   *)
(* each goes on where the one before it ended, are all there was.            *)
LEMMA AllOfIt ==
  ASSUME NEW m, NEW got \in Seq(1..m), NEW out \in Seq(1..m), NEW hand \in 0..m,
         NEW busy \in Nat, busy = IF hand = 0 THEN 0 ELSE 1,
         hand # 0 => hand = Len(got) + 1,
         Run(got, 0), Run(out, Len(got) + busy),
         NEW sent, Len(got) + busy + Len(out) = sent
  PROVE  LET all == got \o (IF hand = 0 THEN <<>> ELSE <<hand>>) \o out
         IN  all \in Seq(Int) /\ Len(all) = sent /\ Run(all, 0)
<1> DEFINE h == IF hand = 0 THEN <<>> ELSE <<hand>>
           s == got \o h
<1>1. got \in Seq(Int) /\ out \in Seq(Int) /\ h \in Seq(Int) /\ Len(got) \in Int
  <2>1. 1..m \subseteq Int
    OBVIOUS
  <2>2. got \in Seq(Int) /\ out \in Seq(Int)
    BY <2>1, SeqMonotonic
  <2>3. Len(got) \in Int
    BY LenProperties
  <2> QED
    BY <2>2, <2>3
<1>2. Len(h) = busy /\ Run(h, Len(got))
  BY DEF Run
<1> HIDE DEF h
<1>3. s \in Seq(Int) /\ Len(s) = Len(got) + Len(h) /\ Run(s, 0)
  BY <1>1, <1>2, Extends
<1> HIDE DEF s
<1>4. Len(s) = Len(got) + busy /\ Len(got) + busy \in Int
  BY <1>1, <1>2, <1>3
<1>5. s \o out \in Seq(Int) /\ Len(s \o out) = sent /\ Run(s \o out, 0)
  BY <1>1, <1>3, <1>4, Extends
<1> QED
  BY <1>5 DEF s, h

(* The streams.  NothingCutShort speaks of what was streamed, what the        *)
(* destination got and what lies between them only while a link lasts; but a  *)
(* writer may go on after the end of its link, when it is busy with a chunk   *)
(* or when its connection is made too late.  So what lies between has to be   *)
(* the chunks that come next for as long as the writer runs.                  *)
Busy(c) == IF c.hand = 0 THEN 0 ELSE 1

Flow(c) ==
  /\ c.writer # "off" => c.reader # "off"
  /\ c.writer = "ended" => c.reader = "ended"
  /\ c.writer # "writing" => c.hand = 0
  /\ c.hand # 0 => c.hand = Len(c.got) + 1
  /\ Run(c.got, 0)
  /\ c.writer # "ended" => Run(c.out, Len(c.got) + Busy(c))
  /\ c.told > 0 => c.answer = "success" /\ c.tcp \notin {"none", "open"}
  /\ c.told > 0 /\ c.tcp = "eof" => c.pending = 0

(* As long as the session is there.                                          *)
Answered(c) == up /\ c.state = "linked" => c.answer = "success"

Whole(c) ==
  up /\ c.state \in AcceptedStates /\ ~c.finalized =>
    Len(c.got) + Busy(c) + Len(c.out) = c.streamed

Carried(c) == Flow(c) /\ Answered(c) /\ Whole(c) /\ (c.writer = "ended" => c.finalized)

FlowInv == \A l \in Links : Carried(link[l])

(* c carries what d carries, with the same ends.                             *)
SameStream(c, d) ==
  /\ c.out = d.out /\ c.hand = d.hand /\ c.got = d.got /\ c.streamed = d.streamed
  /\ c.told = d.told /\ c.answer = d.answer /\ c.pending = d.pending
  /\ c.uid = d.uid /\ c.state = d.state

LEMMA PumpsAbortedFlow ==
  ASSUME NEW c \in Link, Flow(c)
  PROVE  /\ Flow(PumpsAborted(c)) /\ SameStream(PumpsAborted(c), c)
         /\ PumpsAborted(c) \in Link
         /\ PumpsAborted(c).finalized = c.finalized /\ PumpsAborted(c).tcp = c.tcp
         /\ PumpsAborted(c).writer # "shifting" /\ PumpsAborted(c).reader # "reading"
         /\ c.writer \in {"shifting", "ended"} => PumpsAborted(c).writer = "ended"
<1> DEFINE d == PumpsAborted(c)
<1>1. /\ d \in Link /\ SameStream(d, c) /\ d.tcp = c.tcp /\ d.finalized = c.finalized
      /\ d.writer = IF c.writer = "shifting" THEN "ended" ELSE c.writer
      /\ d.reader = IF c.reader = "reading" THEN "ended" ELSE c.reader
  BY DEF PumpsAborted, Link, SameStream
<1> HIDE DEF d
<1>2. c.reader \in {"off", "reading", "ended"}
  BY DEF Link
<1>3. Flow(d)
  BY <1>1, <1>2 DEF Flow, SameStream, Busy
<1> QED
  BY <1>1, <1>3 DEF d

LEMMA FinalizedFlow ==
  ASSUME NEW c \in Link, Flow(c)
  PROVE  /\ Flow(Finalized(c)) /\ SameStream(Finalized(c), c)
         /\ Finalized(c) \in Link /\ Finalized(c).finalized
<1> DEFINE p == PumpsAborted(c)
           d == Finalized(c)
<1>1. /\ Flow(p) /\ SameStream(p, c) /\ p \in Link /\ p.tcp = c.tcp
  BY PumpsAbortedFlow
<1>2. d = [p EXCEPT !.finalized = TRUE, !.tcp = IF @ = "none" THEN @ ELSE "closed"]
  BY DEF Finalized
<1> HIDE DEF p, d
<1>3. /\ d \in Link /\ SameStream(d, p) /\ d.finalized = TRUE
      /\ d.tcp = IF p.tcp = "none" THEN "none" ELSE "closed"
      /\ d.writer = p.writer /\ d.reader = p.reader
  BY <1>1, <1>2 DEF Link, SameStream
<1>4. Flow(d)
  <2>1. d.out = p.out /\ d.hand = p.hand /\ d.got = p.got
    BY <1>3 DEF SameStream
  <2>2. Busy(d) = Busy(p)
    BY <2>1 DEF Busy
  <2>3. d.told = p.told /\ d.answer = p.answer /\ d.pending = p.pending
    BY <1>3 DEF SameStream
  <2>4. d.told > 0 => d.answer = "success" /\ d.tcp = "closed"
    BY <1>1, <1>3, <2>3 DEF Flow
  <2>5. /\ d.writer # "off" => d.reader # "off"
        /\ d.writer = "ended" => d.reader = "ended"
        /\ d.writer # "writing" => d.hand = 0
    BY <1>1, <1>3, <2>1 DEF Flow
  <2>6. /\ d.hand # 0 => d.hand = Len(d.got) + 1
        /\ Run(d.got, 0)
        /\ d.writer # "ended" => Run(d.out, Len(d.got) + Busy(d))
    BY <1>1, <1>3, <2>1, <2>2 DEF Flow
  <2> QED
    BY <2>4, <2>5, <2>6 DEF Flow
<1>5. SameStream(d, c)
  BY <1>1, <1>3 DEF SameStream
<1> QED
  BY <1>3, <1>4, <1>5 DEF d

-----------------------------------------------------------------------------
(* Steps of one link.                                                        *)

LEMMA ChangesFlow ==
  ASSUME LinkerInv, FlowInv, NEW l \in Links, NEW c \in Link, Carried(c),
         Changes(l, c), UNCHANGED up
  PROVE  FlowInv'
<1>1. \A m \in Links : link'[m] = IF m = l THEN c ELSE link[m]
  BY DEF LinkerInv, Changes
<1>2. \A m \in Links : Carried(link'[m])
  BY <1>1 DEF FlowInv
<1> QED
  BY <1>2 DEF FlowInv, Carried, Answered, Whole

LEMMA FinalizesFlow ==
  ASSUME LinkerInv, FlowInv, NEW l \in Links, NEW c \in Link, Flow(c), Answered(c),
         c.finalized = link[l].finalized, Finalizes(l, c), UNCHANGED up
  PROVE  FlowInv'
<1>1. CASE link[l].finalized
  <2>1. Carried(c)
    BY <1>1 DEF Carried, Whole
  <2> QED
    BY <1>1, <2>1, ChangesFlow DEF Finalizes
<1>2. CASE ~link[l].finalized
  <2> DEFINE d == Finalized(c)
  <2>1. Flow(d) /\ SameStream(d, c) /\ d \in Link /\ d.finalized
    BY FinalizedFlow
  <2>2. Changes(l, d)
    BY <1>2 DEF Finalizes
  <2> HIDE DEF d
  <2>3. Carried(d)
    BY <2>1 DEF Carried, Whole, Answered, SameStream
  <2> QED
    BY <2>1, <2>2, <2>3, ChangesFlow
<1> QED
  BY <1>1, <1>2

LEMMA PumpStepFlow ==
  ASSUME LinkerInv, FlowInv, NEW l \in Links, NEW c \in Link, Flow(c), Answered(c),
         c.finalized = link[l].finalized, c.writer # "ended" => Whole(c), PumpStep(l, c)
  PROVE  FlowInv'
<1>1. UNCHANGED up
  BY DEF PumpStep
<1>2. CASE c.writer = "ended" /\ c.reader = "ended"
  BY <1>1, <1>2, FinalizesFlow DEF PumpStep
<1>3. CASE ~(c.writer = "ended" /\ c.reader = "ended")
  <2>1. c.writer # "ended"
    BY <1>3 DEF Flow
  <2>2. Carried(c)
    BY <2>1 DEF Carried
  <2> QED
    BY <1>1, <1>3, <2>2, ChangesFlow DEF PumpStep
<1> QED
  BY <1>2, <1>3

-----------------------------------------------------------------------------
(* What the relay says, and the connection.                                  *)

LEMMA NoLinkCarried ==
  ASSUME NEW c \in Link, c.out = <<>>, c.got = <<>>, c.hand = 0, c.streamed = 0, c.told = 0,
         c.writer = "off", c.state # "linked"
  PROVE  Carried(c)
<1>1. /\ Len(c.out) = 0 /\ Len(c.got) = 0
      /\ Run(c.got, 0) /\ Run(c.out, Len(c.got) + Busy(c))
  BY EmptyRun
<1> QED
  BY <1>1 DEF Carried, Flow, Answered, Whole, Busy

LEMMA ServiceLinkFlow ==
  ASSUME LinkerInv, FlowInv, NEW l \in Links, NEW u \in Uids, NEW known \in BOOLEAN,
         ServiceLink(l, u, known)
  PROVE  FlowInv'
<1> DEFINE r == [NoLink EXCEPT !.uid = u, !.state = "refused",
                   !.answer = IF Invalid(u) THEN "invalid" ELSE "unknown"]
           c == [NoLink EXCEPT !.uid = u, !.state = "connecting"]
<1>1. (Changes(l, r) \/ Changes(l, c)) /\ UNCHANGED up
  BY DEF ServiceLink
<1>2. r \in Link /\ c \in Link
  BY NoLinkInv DEF Link
<1>3. /\ r.out = <<>> /\ r.got = <<>> /\ r.hand = 0 /\ r.streamed = 0 /\ r.told = 0
      /\ r.writer = "off" /\ r.state = "refused"
      /\ c.out = <<>> /\ c.got = <<>> /\ c.hand = 0 /\ c.streamed = 0 /\ c.told = 0
      /\ c.writer = "off" /\ c.state = "connecting"
  BY DEF NoLink
<1> HIDE DEF r, c
<1>4. Carried(r) /\ Carried(c)
  BY <1>2, <1>3, NoLinkCarried
<1> QED
  BY <1>1, <1>2, <1>4, ChangesFlow

LEMMA ServiceStreamFlow ==
  ASSUME LinkerInv, FlowInv, NEW u \in Uids, ServiceStream(u)
  PROVE  FlowInv'
<1> DEFINE l == links[u]
           d == link[l]
           n == d.streamed + 1
           o == Append(d.out, n)
           c == [d EXCEPT !.streamed = n, !.out = o]
<1>1. /\ l \in Links /\ d.state \in AcceptedStates /\ d \in Link /\ ~d.finalized /\ up
      /\ d.streamed < MaxData /\ Changes(l, c) /\ UNCHANGED up
  BY DEF ServiceStream, LinkerInv, Entries, LinksMatch
<1>2. Carried(d)
  BY <1>1 DEF FlowInv
<1> HIDE DEF l
<1>3. /\ d.out \in Seq(1..MaxData) /\ d.got \in Seq(1..MaxData) /\ d.streamed \in Nat
  BY <1>1, BoundsNat DEF Link
<1>4. Len(d.out) \in Nat /\ Len(d.got) \in Nat /\ Busy(d) \in Nat
  BY <1>3, LenProperties DEF Busy
<1>5. n \in 1..MaxData /\ n \in 0..MaxData
  BY <1>1, <1>3, BoundsNat
<1>6. Len(d.got) + Busy(d) + Len(d.out) = d.streamed
  BY <1>1, <1>2 DEF Carried, Whole
<1>7. n = Len(d.got) + Busy(d) + Len(d.out) + 1
  BY <1>6
<1>8. d.writer # "ended" => Run(d.out, Len(d.got) + Busy(d))
  BY <1>2 DEF Carried, Flow
<1>9. d.writer # "ended"
  BY <1>1, <1>2 DEF Carried
<1> HIDE DEF d, n
<1>10. Len(d.got) + Busy(d) \in Int
  BY <1>4
<1>11. /\ o \in Seq(1..MaxData) /\ Len(o) = Len(d.out) + 1
       /\ Run(o, Len(d.got) + Busy(d))
  BY <1>3, <1>5, <1>7, <1>8, <1>9, <1>10, Lengthens
<1> HIDE DEF o
<1>12. /\ c \in Link /\ c.out = o /\ c.streamed = n /\ c.got = d.got /\ c.hand = d.hand
       /\ c.told = d.told /\ c.answer = d.answer /\ c.tcp = d.tcp /\ c.pending = d.pending
       /\ c.writer = d.writer /\ c.reader = d.reader /\ c.state = d.state
       /\ c.finalized = d.finalized
  BY <1>1, <1>5, <1>11 DEF Link
<1> HIDE DEF c
<1>13. Busy(c) = Busy(d)
  BY <1>12 DEF Busy
<1>14. Len(c.got) + Busy(c) + Len(c.out) = c.streamed
  <2>1. Len(d.got) + Busy(d) + (Len(d.out) + 1) = n
    BY <1>4, <1>7
  <2> QED
    BY <1>11, <1>12, <1>13, <2>1
<1>15. Flow(c)
  BY <1>2, <1>11, <1>12, <1>13 DEF Carried, Flow
<1>16. Carried(c)
  BY <1>2, <1>12, <1>14, <1>15 DEF Carried, Answered, Whole
<1> QED
  BY <1>1, <1>12, <1>16, ChangesFlow DEF d

LEMMA ServiceClosedFlow ==
  ASSUME LinkerInv, FlowInv, NEW u \in Uids, ServiceClosed(u)
  PROVE  FlowInv'
<1>1. /\ links[u] \in Links /\ Finalizes(links[u], link[links[u]]) /\ UNCHANGED up
  BY DEF ServiceClosed, LinkerInv, Entries
<1>2. link[links[u]] \in Link /\ Flow(link[links[u]]) /\ Answered(link[links[u]])
  BY <1>1 DEF LinkerInv, FlowInv, Carried
<1> QED
  BY <1>1, <1>2, FinalizesFlow

LEMMA ConnectsFlow ==
  ASSUME LinkerInv, FlowInv, NEW l \in Links, Connects(l)
  PROVE  FlowInv'
<1> DEFINE d == link[l]
           a == Answers(d, "success")
           e == Connection(a)
           c == [e EXCEPT !.state = "linked", !.writer = "shifting", !.reader = "reading"]
<1>1. /\ d \in Link /\ d.state = "connecting" /\ Carried(d)
      /\ PumpStep(l, IF up THEN c ELSE PumpsAborted(c))
  BY DEF LinkerInv, FlowInv, Connects
<1>2. d.writer = "off" /\ d.reader = "off" /\ d.told = 0
  BY <1>1 DEF LinkerInv, LinkInv, Ended, Link
<1> HIDE DEF d
<1>3. /\ a \in Link /\ a.out = d.out /\ a.hand = d.hand /\ a.got = d.got
      /\ a.streamed = d.streamed /\ a.told = d.told /\ a.finalized = d.finalized
      /\ up => a.answer = "success"
  BY <1>1 DEF Answers, Link
<1> HIDE DEF a
<1>4. /\ e \in Link /\ e.out = a.out /\ e.hand = a.hand /\ e.got = a.got
      /\ e.streamed = a.streamed /\ e.told = a.told /\ e.finalized = a.finalized
      /\ e.answer = a.answer
  BY <1>3 DEF Connection, Link
<1> HIDE DEF e
<1>5. /\ c \in Link /\ c.out = e.out /\ c.hand = e.hand /\ c.got = e.got
      /\ c.streamed = e.streamed /\ c.told = e.told /\ c.finalized = e.finalized
      /\ c.answer = e.answer
      /\ c.state = "linked" /\ c.writer = "shifting" /\ c.reader = "reading"
  BY <1>4 DEF Link
<1> HIDE DEF c
<1>6. /\ c.out = d.out /\ c.hand = d.hand /\ c.got = d.got /\ c.streamed = d.streamed
      /\ c.told = 0 /\ c.finalized = d.finalized
  BY <1>2, <1>3, <1>4, <1>5
<1>7. Busy(c) = Busy(d) /\ d.hand = 0
  BY <1>1, <1>2, <1>6 DEF Busy, Carried, Flow
<1>8. Flow(c)
  BY <1>1, <1>2, <1>5, <1>6, <1>7 DEF Carried, Flow
<1>9. Answered(c)
  BY <1>3, <1>4, <1>5 DEF Answered
<1>10. Whole(c)
  BY <1>1, <1>6, <1>7 DEF Carried, Whole, AcceptedStates
<1>11. CASE up
  BY <1>1, <1>5, <1>6, <1>8, <1>9, <1>10, <1>11, PumpStepFlow DEF d
<1>12. CASE ~up
  <2>1. Flow(PumpsAborted(c)) /\ PumpsAborted(c) \in Link /\ PumpsAborted(c).finalized = c.finalized
    BY <1>5, <1>8, PumpsAbortedFlow
  <2>2. Answered(PumpsAborted(c)) /\ Whole(PumpsAborted(c))
    BY <1>12 DEF Answered, Whole
  <2> QED
    BY <1>1, <1>6, <1>12, <2>1, <2>2, PumpStepFlow DEF d
<1> QED
  BY <1>11, <1>12

LEMMA ConnectFailsFlow ==
  ASSUME LinkerInv, FlowInv, NEW l \in Links, ConnectFails(l)
  PROVE  FlowInv'
<1> DEFINE d == link[l]
           a == Answers(d, "failure")
           c == [a EXCEPT !.state = "failed"]
<1>1. /\ d \in Link /\ d.state = "connecting" /\ Carried(d)
      /\ Finalizes(l, c) /\ UNCHANGED up
  BY DEF LinkerInv, FlowInv, ConnectFails
<1>2. d.writer = "off" /\ d.reader = "off" /\ d.told = 0
  BY <1>1 DEF LinkerInv, LinkInv, Ended, Link
<1> HIDE DEF d
<1>3. /\ a \in Link /\ a.out = d.out /\ a.hand = d.hand /\ a.got = d.got
      /\ a.told = d.told /\ a.finalized = d.finalized
      /\ a.writer = d.writer /\ a.reader = d.reader
  BY <1>1 DEF Answers, Link
<1> HIDE DEF a
<1>4. /\ c \in Link /\ c.out = a.out /\ c.hand = a.hand /\ c.got = a.got
      /\ c.told = a.told /\ c.finalized = a.finalized
      /\ c.writer = a.writer /\ c.reader = a.reader /\ c.state = "failed"
  BY <1>3 DEF Link
<1> HIDE DEF c
<1>5. Busy(c) = Busy(d)
  BY <1>3, <1>4 DEF Busy
<1>6. Flow(c) /\ Answered(c)
  BY <1>1, <1>2, <1>3, <1>4, <1>5 DEF Carried, Flow, Answered
<1> QED
  BY <1>1, <1>3, <1>4, <1>6, FinalizesFlow DEF d

-----------------------------------------------------------------------------
(* The pumps.                                                                *)

LEMMA StreamsTyped ==
  ASSUME NEW c \in Link
  PROVE  /\ c.out \in Seq(1..MaxData) /\ c.got \in Seq(1..MaxData)
         /\ Len(c.out) \in Nat /\ Len(c.got) \in Nat /\ Busy(c) \in {0, 1}
         /\ c.streamed \in Nat /\ c.told \in 0..2 /\ c.hand \in 0..MaxData
         /\ c.writer \in {"off", "shifting", "writing", "ended"}
         /\ c.reader \in {"off", "reading", "ended"}
<1>1. c.out \in Seq(1..MaxData) /\ c.got \in Seq(1..MaxData)
  BY DEF Link
<1> QED
  BY <1>1, BoundsNat, LenProperties DEF Link, Busy

LEMMA WriterShiftsFlow ==
  ASSUME LinkerInv, FlowInv, NEW l \in Links, WriterShifts(l)
  PROVE  FlowInv'
<1> DEFINE d == link[l]
           h == Head(d.out)
           t == Tail(d.out)
           c == [d EXCEPT !.writer = "writing", !.hand = h, !.out = t]
<1>1. /\ d \in Link /\ Carried(d) /\ d.writer = "shifting" /\ d.out # <<>>
      /\ Changes(l, c) /\ UNCHANGED up
  BY DEF LinkerInv, FlowInv, WriterShifts, NextChunk
<1>2. /\ d.out \in Seq(1..MaxData) /\ Len(d.out) \in Nat /\ Len(d.got) \in Nat
      /\ d.hand = 0 /\ Busy(d) = 0
  BY <1>1, StreamsTyped DEF Carried, Flow, Busy
<1>3. Run(d.out, Len(d.got) + Busy(d)) /\ Len(d.got) + Busy(d) \in Int
  BY <1>1, <1>2 DEF Carried, Flow
<1>4. /\ h \in 1..MaxData /\ h = Len(d.got) + Busy(d) + 1
      /\ t \in Seq(1..MaxData) /\ Run(t, Len(d.got) + Busy(d) + 1)
      /\ Len(t) \in Nat /\ Len(d.out) = Len(t) + 1
  <2>1. d.out \in Seq(1..MaxData) /\ d.out # <<>>
    BY <1>1, <1>2
  <2> HIDE DEF d
  <2> QED
    BY <1>3, <2>1, Shortens, Zenon
<1>5. h = Len(d.got) + 1 /\ h # 0 /\ h \in 0..MaxData
  <2> HIDE DEF d, h, t
  <2> QED
    BY <1>2, <1>4
<1>6. Len(d.got) + Busy(d) + 1 = Len(d.got) + 1
  <2> HIDE DEF d, h, t
  <2> QED
    BY <1>2
<1> HIDE DEF d, h, t
<1>7. /\ c \in Link /\ c.out = t /\ c.hand = h /\ c.got = d.got /\ c.streamed = d.streamed
      /\ c.told = d.told /\ c.answer = d.answer /\ c.tcp = d.tcp /\ c.pending = d.pending
      /\ c.writer = "writing" /\ c.reader = d.reader /\ c.state = d.state
      /\ c.finalized = d.finalized
  BY <1>1, <1>4, <1>5 DEF Link
<1> HIDE DEF c
<1>8. Busy(c) = 1
  BY <1>5, <1>7 DEF Busy
<1>9. Flow(c)
  BY <1>1, <1>4, <1>5, <1>6, <1>7, <1>8 DEF Carried, Flow
<1>10. Len(c.got) + Busy(c) + Len(c.out) = Len(d.got) + Busy(d) + Len(d.out)
  <2>1. Len(d.got) \in Nat /\ Len(t) \in Nat
    BY <1>2, <1>4
  <2>2. \A m, n \in Nat : m + 1 + n = m + 0 + (n + 1)
    OBVIOUS
  <2> QED
    BY <1>2, <1>4, <1>7, <1>8, <2>1, <2>2
<1>11. Carried(c)
  BY <1>1, <1>7, <1>9, <1>10 DEF Carried, Answered, Whole
<1> QED
  BY <1>1, <1>7, <1>11, ChangesFlow

LEMMA WriterWritesFlow ==
  ASSUME LinkerInv, FlowInv, NEW l \in Links, WriterWrites(l)
  PROVE  FlowInv'
<1> DEFINE d == link[l]
           g == Append(d.got, d.hand)
           w == IF d.reader = "ended" THEN "ended" ELSE "shifting"
           c == [d EXCEPT !.got = g, !.hand = 0, !.writer = w]
<1>1. /\ d \in Link /\ Carried(d) /\ d.writer = "writing" /\ PumpStep(l, c) /\ d.hand # 0
  BY DEF LinkerInv, LinkInv, FlowInv, WriterWrites
<1>2. /\ d.got \in Seq(1..MaxData) /\ Len(d.got) \in Nat /\ Len(d.out) \in Nat
      /\ d.hand = Len(d.got) + 1 /\ Busy(d) = 1 /\ d.hand \in 0..MaxData /\ d.hand \in 1..MaxData
  BY <1>1, BoundsNat, StreamsTyped DEF Carried, Flow, Busy
<1>3. Run(d.got, 0) /\ d.hand = 0 + Len(d.got) + 1 /\ 0 \in Int
  BY <1>1, <1>2 DEF Carried, Flow
<1>4. /\ g \in Seq(1..MaxData) /\ Len(g) = Len(d.got) + 1 /\ Run(g, 0)
  <2>1. d.got \in Seq(1..MaxData) /\ d.hand \in 1..MaxData
    BY <1>2
  <2> HIDE DEF d
  <2> QED
    BY <1>3, <2>1, Lengthens, Zenon
<1>5. w \in {"ended", "shifting"} /\ 0 \in 0..MaxData /\ (w = "ended" <=> d.reader = "ended")
  BY BoundsNat
<1> HIDE DEF d, g, w
<1>6. /\ c \in Link /\ c.out = d.out /\ c.hand = 0 /\ c.got = g /\ c.streamed = d.streamed
      /\ c.told = d.told /\ c.answer = d.answer /\ c.tcp = d.tcp /\ c.pending = d.pending
      /\ c.writer = w /\ c.reader = d.reader /\ c.state = d.state
      /\ c.finalized = d.finalized
  BY <1>1, <1>4, <1>5 DEF Link
<1> HIDE DEF c
<1>7. Busy(c) = 0 /\ Len(c.got) + Busy(c) = Len(d.got) + Busy(d)
  <2>1. Len(d.got) + 1 + 0 = Len(d.got) + 1
    BY <1>2
  <2>2. Busy(c) = 0
    BY <1>6 DEF Busy
  <2> QED
    BY <1>2, <1>4, <1>6, <2>1, <2>2
<1>8. Run(c.out, Len(c.got) + Busy(c))
  BY <1>1, <1>6, <1>7 DEF Carried, Flow
<1>9. Flow(c)
  <2>1. c.reader # "off" /\ (c.writer = "ended" => c.reader = "ended")
    BY <1>1, <1>5, <1>6 DEF Carried, Flow
  <2>2. c.told > 0 => c.answer = "success" /\ c.tcp \notin {"none", "open"}
    BY <1>1, <1>6 DEF Carried, Flow
  <2>3. c.told > 0 /\ c.tcp = "eof" => c.pending = 0
    BY <1>1, <1>6 DEF Carried, Flow
  <2> QED
    BY <1>4, <1>6, <1>8, <2>1, <2>2, <2>3 DEF Flow
<1>10. Answered(c) /\ Whole(c)
  BY <1>1, <1>6, <1>7 DEF Carried, Answered, Whole
<1> QED
  BY <1>1, <1>6, <1>9, <1>10, PumpStepFlow DEF d

(* A pump tells the relay of its end when the connection has ended, and all  *)
(* that the destination sent has been read.                                  *)
LEMMA TellsFlow ==
  ASSUME NEW d \in Link, Carried(d), d.state = "linked", d.told < 2,
         d.tcp \notin {"none", "open"}, d.tcp = "eof" => d.pending = 0
  PROVE  /\ Flow(Tells(d)) /\ Tells(d) \in Link
         /\ Tells(d).out = d.out /\ Tells(d).hand = d.hand /\ Tells(d).got = d.got
         /\ Tells(d).streamed = d.streamed /\ Tells(d).answer = d.answer
         /\ Tells(d).tcp = d.tcp /\ Tells(d).pending = d.pending
         /\ Tells(d).writer = d.writer /\ Tells(d).reader = d.reader
         /\ Tells(d).state = d.state /\ Tells(d).finalized = d.finalized
         /\ Tells(d).told > 0 => d.answer = "success"
<1> DEFINE t == Tells(d)
<1>1. d.told \in 0..2 /\ d.told + 1 \in 0..2
  BY DEF Link
<1>2. /\ t \in Link /\ t.told = (IF up THEN d.told + 1 ELSE d.told)
      /\ t.out = d.out /\ t.hand = d.hand /\ t.got = d.got
      /\ t.streamed = d.streamed /\ t.answer = d.answer
      /\ t.tcp = d.tcp /\ t.pending = d.pending
      /\ t.writer = d.writer /\ t.reader = d.reader
      /\ t.state = d.state /\ t.finalized = d.finalized
  BY <1>1 DEF Tells, Link
<1> HIDE DEF t
<1>3. t.told > 0 => d.answer = "success"
  BY <1>2 DEF Carried, Answered, Flow
<1>4. Busy(t) = Busy(d)
  BY <1>2 DEF Busy
<1>5. Flow(t)
  <2>1. /\ t.hand # 0 => t.hand = Len(t.got) + 1
        /\ Run(t.got, 0)
        /\ t.writer # "ended" => Run(t.out, Len(t.got) + Busy(t))
    BY <1>2, <1>4 DEF Carried, Flow
  <2>2. /\ t.writer # "off" => t.reader # "off"
        /\ t.writer = "ended" => t.reader = "ended"
        /\ t.writer # "writing" => t.hand = 0
    BY <1>2 DEF Carried, Flow
  <2> QED
    BY <1>2, <1>3, <2>1, <2>2 DEF Flow
<1> QED
  BY <1>2, <1>3, <1>5 DEF t

LEMMA WriterFailsFlow ==
  ASSUME LinkerInv, FlowInv, NEW l \in Links, WriterFails(l)
  PROVE  FlowInv'
<1> DEFINE d == link[l]
           t == Tells(d)
           c == [t EXCEPT !.writer = "ended", !.reader = "ended", !.hand = 0]
<1>1. /\ d \in Link /\ Carried(d) /\ LinkInv(d) /\ d.writer = "writing" /\ PumpStep(l, c)
      /\ d.tcp \in {"broken", "closed"}
  BY DEF LinkerInv, LinkInv, FlowInv, WriterFails
<1>2. d.state = "linked" /\ d.told < 2
  BY <1>1 DEF LinkInv, Link, Ended
<1> HIDE DEF d
<1>3. /\ Flow(t) /\ t \in Link /\ t.tcp = d.tcp /\ t.finalized = d.finalized
      /\ t.state = d.state /\ t.answer = d.answer
  BY <1>1, <1>2, TellsFlow
<1> HIDE DEF t
<1>4. /\ c \in Link /\ c.out = t.out /\ c.hand = 0 /\ c.got = t.got
      /\ c.told = t.told /\ c.answer = t.answer /\ c.tcp = t.tcp /\ c.pending = t.pending
      /\ c.writer = "ended" /\ c.reader = "ended" /\ c.state = t.state
      /\ c.finalized = t.finalized
  <2>1. 0 \in 0..MaxData
    BY BoundsNat
  <2> QED
    BY <1>3, <2>1 DEF Link
<1> HIDE DEF c
<1>5. Flow(c)
  BY <1>3, <1>4 DEF Flow
<1>6. Answered(c)
  BY <1>1, <1>3, <1>4 DEF Carried, Answered
<1> QED
  BY <1>1, <1>3, <1>4, <1>5, <1>6, PumpStepFlow DEF d

LEMMA ReaderEndsFlow ==
  ASSUME LinkerInv, FlowInv, NEW l \in Links, ReaderEnds(l)
  PROVE  FlowInv'
<1> DEFINE d == link[l]
           t == Tells(d)
           c == PumpsAborted(t)
<1>1. /\ d \in Link /\ Carried(d) /\ LinkInv(d) /\ d.reader = "reading" /\ PumpStep(l, c)
      /\ ReaderDone(d)
  BY DEF LinkerInv, LinkInv, FlowInv, ReaderEnds
<1>2. /\ d.state = "linked" /\ d.told < 2
      /\ d.tcp \notin {"none", "open"} /\ (d.tcp = "eof" => d.pending = 0)
  BY <1>1 DEF LinkInv, Link, Ended, ReaderDone
<1> HIDE DEF d
<1>3. /\ Flow(t) /\ t \in Link /\ t.finalized = d.finalized
      /\ t.state = d.state /\ t.answer = d.answer
      /\ t.out = d.out /\ t.hand = d.hand /\ t.got = d.got /\ t.streamed = d.streamed
  BY <1>1, <1>2, TellsFlow
<1> HIDE DEF t
<1>4. /\ Flow(c) /\ SameStream(c, t) /\ c \in Link /\ c.finalized = t.finalized
  BY <1>3, PumpsAbortedFlow
<1> HIDE DEF c
<1>5. Busy(c) = Busy(d)
  BY <1>3, <1>4 DEF Busy, SameStream
<1>6. Answered(c) /\ Whole(c)
  BY <1>1, <1>3, <1>4, <1>5 DEF Carried, Answered, Whole, SameStream
<1> QED
  BY <1>1, <1>3, <1>4, <1>6, PumpStepFlow DEF d

LEMMA DestinationFlow ==
  ASSUME LinkerInv, FlowInv, NEW l \in Links,
         \/ ReaderReads(l) \/ DestinationSends(l)
         \/ \E how \in {"eof", "broken"} : DestinationEnds(l, how)
  PROVE  FlowInv'
<1> DEFINE d == link[l]
<1>1. /\ d \in Link /\ Carried(d)
  BY DEF LinkerInv, FlowInv
<1>2. d.told \in 0..2 /\ d.pending \in 0..MaxData
  BY <1>1 DEF Link
<1>3. d.told = 0
  BY <1>1, <1>2, BoundsNat DEF ReaderReads, DestinationSends, DestinationEnds, Carried, Flow
<1>4. PICK p \in 0..MaxData, tcp \in {"none", "open", "eof", "broken", "closed"} :
        Changes(l, [d EXCEPT !.pending = p, !.tcp = tcp]) /\ UNCHANGED up
  <2>1. d.tcp \in {"none", "open", "eof", "broken", "closed"}
    BY <1>1 DEF Link
  <2>2. CASE ReaderReads(l)
    <3>1. d.pending - 1 \in 0..MaxData /\ Changes(l, [d EXCEPT !.pending = d.pending - 1])
          /\ UNCHANGED up
      BY <1>2, <2>2, BoundsNat DEF ReaderReads
    <3>2. [d EXCEPT !.pending = d.pending - 1]
            = [d EXCEPT !.pending = d.pending - 1, !.tcp = d.tcp]
      BY <1>1 DEF Link
    <3> QED
      BY <2>1, <3>1, <3>2
  <2>3. CASE DestinationSends(l)
    <3>1. d.pending + 1 \in 0..MaxData /\ Changes(l, [d EXCEPT !.pending = d.pending + 1])
          /\ UNCHANGED up
      BY <1>2, <2>3, BoundsNat DEF DestinationSends
    <3>2. [d EXCEPT !.pending = d.pending + 1]
            = [d EXCEPT !.pending = d.pending + 1, !.tcp = d.tcp]
      BY <1>1 DEF Link
    <3> QED
      BY <2>1, <3>1, <3>2
  <2>4. CASE \E how \in {"eof", "broken"} : DestinationEnds(l, how)
    <3>1. PICK how \in {"eof", "broken"} : Changes(l, [d EXCEPT !.tcp = how]) /\ UNCHANGED up
      BY <2>4 DEF DestinationEnds
    <3>2. [d EXCEPT !.tcp = how] = [d EXCEPT !.pending = d.pending, !.tcp = how]
      BY <1>1 DEF Link
    <3> QED
      BY <1>2, <3>1, <3>2
  <2> QED
    BY <2>2, <2>3, <2>4
<1> DEFINE c == [d EXCEPT !.pending = p, !.tcp = tcp]
<1> HIDE DEF d
<1>5. /\ c \in Link /\ c.out = d.out /\ c.hand = d.hand /\ c.got = d.got
      /\ c.streamed = d.streamed /\ c.told = d.told /\ c.answer = d.answer
      /\ c.writer = d.writer /\ c.reader = d.reader /\ c.state = d.state
      /\ c.finalized = d.finalized
  BY <1>1, <1>4 DEF Link
<1> HIDE DEF c
<1>6. Busy(c) = Busy(d) /\ ~(c.told > 0)
  BY <1>3, <1>5 DEF Busy
<1>7. Flow(c)
  BY <1>1, <1>5, <1>6 DEF Carried, Flow
<1>8. Carried(c)
  BY <1>1, <1>5, <1>6, <1>7 DEF Carried, Answered, Whole
<1> QED
  BY <1>4, <1>5, <1>8, ChangesFlow DEF c

-----------------------------------------------------------------------------
(* The loss of the session empties the outputQueue of a link.                *)
LEMMA LostFlow ==
  ASSUME NEW c \in Link, Flow(c)
  PROVE  Flow(Lost(c)) /\ (Lost(c).writer = "ended" => Lost(c).finalized)
<1> DEFINE e == [c EXCEPT !.out = <<>>]
           d == PumpsAborted(e)
<1>1. <<>> \in Seq(1..MaxData)
  BY EmptySeq
<1>2. /\ e \in Link /\ e.out = <<>> /\ e.hand = c.hand /\ e.got = c.got
      /\ e.told = c.told /\ e.answer = c.answer /\ e.tcp = c.tcp /\ e.pending = c.pending
      /\ e.writer = c.writer /\ e.reader = c.reader
  BY <1>1 DEF Link
<1> HIDE DEF e
<1>3. Run(e.out, Len(e.got) + Busy(e))
  BY <1>2, EmptyRun
<1>4. Flow(e)
  BY <1>2, <1>3 DEF Flow
<1>5. Flow(d) /\ d \in Link
  BY <1>2, <1>4, PumpsAbortedFlow
<1>6. Lost(c) = IF d.writer = "ended" /\ d.reader = "ended" THEN Finalized(d) ELSE d
  BY DEF Lost, d, e
<1> HIDE DEF d
<1>7. CASE d.writer = "ended"
  <2>1. d.reader = "ended"
    BY <1>5, <1>7 DEF Flow
  <2>2. Lost(c) = Finalized(d)
    BY <1>6, <1>7, <2>1
  <2> QED
    BY <1>5, <2>2, FinalizedFlow
<1>8. CASE d.writer # "ended"
  <2>1. Lost(c) = d
    BY <1>6, <1>8
  <2> QED
    BY <1>5, <1>8, <2>1
<1> QED
  BY <1>7, <1>8

LEMMA SessionAbortsFlow ==
  ASSUME LinkerInv, FlowInv, SessionAborts
  PROVE  FlowInv'
<1>1. up' = FALSE /\ \A l \in Links : link'[l] = Lost(link[l])
  BY DEF SessionAborts
<1>2. ASSUME NEW l \in Links
      PROVE  Carried(link[l])'
  <2>1. link[l] \in Link /\ Flow(link[l])
    BY DEF LinkerInv, FlowInv, Carried
  <2>2. /\ Flow(link'[l])
        /\ link'[l].writer = "ended" => link'[l].finalized
    BY <1>1, <2>1, LostFlow
  <2> QED
    BY <1>1, <2>2 DEF Carried, Answered, Whole
<1> QED
  BY <1>2 DEF FlowInv

-----------------------------------------------------------------------------
LEMMA InitFlow == Init => FlowInv
<1> SUFFICES ASSUME Init PROVE FlowInv
  OBVIOUS
<1>1. \A l \in Links : link[l] = NoLink
  BY DEF Init
<1>2. /\ NoLink.out = <<>> /\ NoLink.got = <<>> /\ NoLink.hand = 0 /\ NoLink.streamed = 0
      /\ NoLink.told = 0 /\ NoLink.writer = "off" /\ NoLink.state = "none"
  BY DEF NoLink
<1>3. Carried(NoLink)
  BY <1>2, NoLinkInv, NoLinkCarried
<1> QED
  BY <1>1, <1>3 DEF FlowInv

LEMMA NextFlow == LinkerInv /\ FlowInv /\ [Next]_vars => FlowInv'
<1> SUFFICES ASSUME LinkerInv, FlowInv, [Next]_vars PROVE FlowInv'
  OBVIOUS
<1>1. CASE UNCHANGED vars
  BY <1>1 DEF vars, FlowInv, Carried, Answered, Whole
<1>2. CASE Done
  BY <1>1, <1>2 DEF Done
<1>3. CASE \E l \in Links :
             \/ \E u \in Uids, known \in BOOLEAN : ServiceLink(l, u, known)
             \/ Connects(l) \/ ConnectFails(l)
             \/ Pumps(l)
             \/ DestinationSends(l)
             \/ \E how \in {"eof", "broken"} : DestinationEnds(l, how)
  BY <1>3, ServiceLinkFlow, ConnectsFlow, ConnectFailsFlow, WriterShiftsFlow,
     WriterWritesFlow, WriterFailsFlow, ReaderEndsFlow, DestinationFlow DEF Pumps
<1>4. CASE \E u \in Uids : ServiceStream(u) \/ ServiceClosed(u)
  BY <1>4, ServiceStreamFlow, ServiceClosedFlow
<1>5. CASE SessionAborts
  BY <1>5, SessionAbortsFlow
<1> QED
  BY <1>1, <1>2, <1>3, <1>4, <1>5 DEF Next

(* What lies between the relay and the destination of a link is always what  *)
(* comes next, and of a link that lasts it is all of it.                     *)
THEOREM StreamsCorrect == Spec => [](LinkerInv /\ FlowInv)
<1>1. Init => LinkerInv /\ FlowInv
  BY InitLinkerInv, InitFlow
<1>2. (LinkerInv /\ FlowInv) /\ [Next]_vars => (LinkerInv /\ FlowInv)'
  BY NextLinkerInv, NextFlow
<1> QED
  BY <1>1, <1>2, PTL DEF Spec

(* Chunks that arrive while the connection is being made wait for it: the    *)
(* destination gets every chunk, in order, as long as the link lasts, and    *)
(* the relay is told that the destination ended only after all it had sent,  *)
(* and never of a link it has no SUCCESS for.                                *)
THEOREM NothingCutShortCorrect == Spec => []NothingCutShort
<1>1. LinkerInv /\ FlowInv => NothingCutShort
  <2> SUFFICES ASSUME LinkerInv, FlowInv, NEW l \in Links
               PROVE  /\ \A i \in DOMAIN link[l].got : link[l].got[i] = i
                      /\ up /\ Accepted(l) /\ ~link[l].finalized =>
                           link[l].got \o InHand(l) \o link[l].out
                             = [i \in 1..link[l].streamed |-> i]
                      /\ link[l].told > 0 => link[l].answer = "success"
                      /\ link[l].told > 0 /\ link[l].tcp = "eof" => link[l].pending = 0
    BY DEF NothingCutShort
  <2>1. link[l] \in Link /\ Flow(link[l])
    BY DEF LinkerInv, FlowInv, Carried
  <2>2. \A i \in DOMAIN link[l].got : link[l].got[i] = i
    <3>1. link[l].got \in Seq(1..MaxData) /\ Run(link[l].got, 0)
      BY <2>1, StreamsTyped DEF Flow
    <3>2. DOMAIN link[l].got = 1..Len(link[l].got)
      BY <3>1, LenProperties
    <3> QED
      BY <3>1, <3>2 DEF Run
  <2>3. ASSUME up, Accepted(l), ~link[l].finalized
        PROVE  link[l].got \o InHand(l) \o link[l].out = [i \in 1..link[l].streamed |-> i]
    <3>1. /\ link[l].writer # "ended"
          /\ Len(link[l].got) + Busy(link[l]) + Len(link[l].out) = link[l].streamed
      BY <2>3 DEF FlowInv, Carried, Whole, Accepted, AcceptedStates
    <3> DEFINE got == link[l].got
               out == link[l].out
               hand == link[l].hand
               busy == Busy(link[l])
               sent == link[l].streamed
    <3>2. /\ got \in Seq(1..MaxData) /\ out \in Seq(1..MaxData)
          /\ hand \in 0..MaxData /\ busy \in Nat
      BY <2>1, StreamsTyped
    <3>3. busy = IF hand = 0 THEN 0 ELSE 1
      BY DEF Busy
    <3>4. /\ hand # 0 => hand = Len(got) + 1
          /\ Run(got, 0) /\ Run(out, Len(got) + busy)
      BY <2>1, <3>1 DEF Flow
    <3>5. Len(got) + busy + Len(out) = sent
      BY <3>1
    <3> DEFINE all == got \o (IF hand = 0 THEN <<>> ELSE <<hand>>) \o out
    <3>6. link[l].got \o InHand(l) \o link[l].out = all
      BY DEF InHand
    <3> HIDE DEF got, out, hand, busy, sent
    <3>7. all \in Seq(Int) /\ Len(all) = sent /\ Run(all, 0)
      BY <3>2, <3>3, <3>4, <3>5, AllOfIt
    <3> HIDE DEF all
    <3>8. all = [i \in 1..sent |-> i]
      BY <3>7, RunIs
    <3> QED
      BY <3>6, <3>8 DEF sent
  <2> QED
    BY <2>1, <2>2, <2>3 DEF Flow
<1> QED
  BY <1>1, StreamsCorrect, PTL

===============================================================================
