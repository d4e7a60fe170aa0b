--------------------------- MODULE HandshakeProofs ---------------------------
(***************************************************************************)
(* Proofs about Handshake: type correctness, with the counters of both      *)
(* sides, that only the authorized enter a session, that no frame is read   *)
(* for what it is not, and that the packets of a session carry the numbers  *)
(* that their reader counts through.                                        *)
(***************************************************************************)
EXTENDS Handshake, SequenceTheorems, TLAPS

(* OnlyAuthorized is not inductive: what lets a side in is what it was sent  *)
(* before.  So the invariant speaks of the frames on their way: a hello is   *)
(* that of the client, and who is told AUTHORIZED has been authorized.       *)
Fits == setup.mode \in setup.enabled /\ Version("client") = Version("relay")

Approved ==
  /\ phase["relay"] \in {"session", "gone"}
  /\ remote["relay"] > 0
  /\ setup.known /\ setup.sameKey /\ Fits

(* The numbers of sealed frames are below the bound.                         *)
Sent == {f \in Frames : f.kind = "sealed" => f.counter < MaxCounter}

Expected(x) ==
  {f \in Sent :
    IF x = "client" THEN f.kind = "verdict" /\ f.mode = "AUTHORIZED" => Approved
    ELSE f.kind = "hello" => f = Hello(Version("client"), setup.mode)}

Inboxes ==
  /\ inbox = [x \in Sides |-> inbox[x]]
  /\ \A x \in Sides : inbox[x] \in Seq(Expected(x))

(* What the relay has found out when it is where it is.                      *)
RelayKnows ==
  /\ phase["relay"] \in {"lookup", "pointless", "solution", "verifying", "session"} => Fits
  /\ phase["relay"] \in {"solution", "verifying", "session"} => setup.known
  /\ phase["relay"] = "session" => setup.sameKey /\ remote["relay"] > 0

(* And what was counted by then.                                             *)
Counted ==
  /\ phase["client"] \in {"opening", "challenge"} => remote["client"] = 0
  /\ phase["client"] \in {"opening", "challenge", "solving"} => local["client"] = 0
  /\ phase["relay"] \in {"opening", "hello", "lookup"} => local["relay"] = 0
  /\ phase["relay"] \notin {"session", "gone"} => remote["relay"] = 0

Types ==
  /\ setup \in Setups
  /\ phase \in [Sides -> ClientPhases \cup RelayPhases]
  /\ phase["client"] \in ClientPhases /\ phase["relay"] \in RelayPhases
  /\ local \in [Sides -> 0..MaxCounter]
  /\ remote \in [Sides -> 0..MaxCounter]
  /\ solution \in 0..MaxCounter
  /\ socket \in [Sides -> {"connecting", "open", "closed"}]
  /\ aborted \in [Sides -> BOOLEAN]
  /\ silent \in BOOLEAN

Entered == phase["client"] = "session" => Approved

HandshakeInv == Types /\ Inboxes /\ RelayKnows /\ Counted /\ Entered

-----------------------------------------------------------------------------
(* Sequences and frames.                                                     *)

LEMMA SeqGrows ==
  ASSUME NEW S, NEW T, S \subseteq T, NEW s \in Seq(S)
  PROVE  s \in Seq(T)
<1>1. Len(s) \in Nat /\ s = [i \in 1..Len(s) |-> s[i]] /\ \A i \in 1..Len(s) : s[i] \in S
  BY LenProperties, ElementOfSeq
<1>2. [i \in 1..Len(s) |-> s[i]] \in Seq(T)
  BY <1>1, IsASeq
<1> QED
  BY <1>1, <1>2

LEMMA Bound == MaxCounter \in Nat /\ MaxCounter > 1
BY HandshakeAssumption DEF HandshakeAssumption

LEMMA SealedSent ==
  ASSUME NEW n \in 0..MaxCounter, n < MaxCounter
  PROVE  Sealed(n) \in Sent
BY DEF Sealed, Sent, Frames

LEMMA HelloSent ==
  ASSUME NEW v \in Versions, NEW m \in Modes
  PROVE  Hello(v, m) \in Sent
BY DEF Hello, Sent, Frames

LEMMA ChallengeSent ==
  ASSUME NEW v \in Versions, NEW m \in Modes, NEW o \in BOOLEAN
  PROVE  Challenge(v, m, o) \in Sent /\ Challenge(v, m, o).kind = "challenge"
BY DEF Challenge, Sent, Frames

LEMMA VerdictSent ==
  ASSUME NEW v \in Versions, NEW a \in Verdicts
  PROVE  Verdict(v, a) \in Sent
BY DEF Verdict, Sent, Frames

-----------------------------------------------------------------------------
(* The inboxes.                                                              *)

LEMMA ApprovedStays ==
  ASSUME Types, Types', UNCHANGED setup,
         phase["relay"] \in {"session", "gone"} => phase'["relay"] \in {"session", "gone"},
         remote'["relay"] >= remote["relay"]
  PROVE  Approved => Approved'
<1>1. remote["relay"] \in Int /\ remote'["relay"] \in Int
  BY DEF Types, Sides
<1> QED
  BY <1>1 DEF Approved, Fits, Version

LEMMA ExpectedGrows ==
  ASSUME UNCHANGED setup, Approved => Approved', NEW x \in Sides
  PROVE  Expected(x) \subseteq Expected(x)'
BY DEF Expected, Version

LEMMA PeersDiffer ==
  ASSUME NEW x \in Sides
  PROVE  Peer(x) \in Sides /\ Peer(x) # x /\ \A y \in Sides : y = x \/ y = Peer(x)
BY DEF Peer, Sides

(* One side reads the head of its inbox, leaves or drops it, the other gets  *)
(* what is sent to it.                                                       *)
LEMMA InboxesKeep ==
  ASSUME Inboxes, UNCHANGED setup, Approved => Approved', NEW x \in Sides, NEW q, NEW out,
         q \in {inbox[x], <<>>} \/ (inbox[x] # <<>> /\ q = Tail(inbox[x])),
         out \in Seq(Expected(Peer(x))'),
         inbox' = [inbox EXCEPT ![x] = q, ![Peer(x)] = @ \o out]
  PROVE  Inboxes'
<1>1. \A y \in Sides : inbox[y] \in Seq(Expected(y)')
  BY ExpectedGrows, SeqGrows DEF Inboxes
<1>2. q \in Seq(Expected(x)')
  BY <1>1, EmptySeq, HeadTailProperties
<1>3. inbox[Peer(x)] \o out \in Seq(Expected(Peer(x))')
  BY <1>1, PeersDiffer, ConcatProperties
<1>4. inbox'[x] = q /\ inbox'[Peer(x)] = inbox[Peer(x)] \o out
  BY PeersDiffer DEF Inboxes
<1>5. \A y \in Sides : inbox'[y] \in Seq(Expected(y)')
  BY <1>2, <1>3, <1>4, PeersDiffer
<1>6. inbox' = [y \in Sides |-> inbox'[y]]
  BY DEF Inboxes
<1> QED
  BY <1>5, <1>6 DEF Inboxes

LEMMA GoesOnKeeps ==
  ASSUME HandshakeInv, NEW x \in Sides, NEW p, NEW read \in BOOLEAN, NEW out,
         GoesOn(x, p, read, out), read => inbox[x] # <<>>,
         out \in Seq(Expected(Peer(x))'), Approved => Approved'
  PROVE  Inboxes' /\ UNCHANGED <<setup, aborted, silent>> /\ phase' = [phase EXCEPT ![x] = p]
<1>1. UNCHANGED <<setup, aborted, silent>> /\ phase' = [phase EXCEPT ![x] = p]
  BY DEF GoesOn, Goes
<1> DEFINE q == IF read THEN Tail(inbox[x]) ELSE inbox[x]
           sent == IF Carries(x) THEN out ELSE <<>>
<1>2. inbox' = [inbox EXCEPT ![x] = q, ![Peer(x)] = @ \o sent]
  BY DEF GoesOn
<1>3. sent \in Seq(Expected(Peer(x))')
  BY EmptySeq
<1>4. q \in {inbox[x], <<>>} \/ (inbox[x] # <<>> /\ q = Tail(inbox[x]))
  OBVIOUS
<1> HIDE DEF q, sent
<1>5. Inboxes /\ UNCHANGED setup
  BY <1>1 DEF HandshakeInv
<1> QED
  BY <1>1, <1>2, <1>3, <1>4, <1>5, InboxesKeep

LEMMA EndsKeeps ==
  ASSUME HandshakeInv, NEW x \in Sides, NEW out, Ends(x, out),
         out \in Seq(Expected(Peer(x))'),
         UNCHANGED local, remote' \in [Sides -> 0..MaxCounter],
         remote'["client"] = remote["client"],
         remote' = remote \/ (x = "relay" /\ remote'["relay"] >= remote["relay"])
  PROVE  HandshakeInv'
<1>1. /\ phase' = [phase EXCEPT ![x] = "gone"]
      /\ socket' = [socket EXCEPT ![x] = "closed"]
      /\ UNCHANGED <<setup, solution, aborted, silent, local>>
  BY DEF Ends, Goes, HangUp
<1>2. Types'
  BY <1>1 DEF HandshakeInv, Types, ClientPhases, RelayPhases
<1>3. /\ phase'["relay"] \in {phase["relay"], "gone"} /\ phase'["client"] \in {phase["client"], "gone"}
      /\ x = "relay" => phase'["relay"] = "gone"
  BY <1>1 DEF HandshakeInv, Types, Sides
<1>4. remote'["relay"] >= remote["relay"]
  BY DEF HandshakeInv, Types, Sides
<1>5. Approved => Approved'
  BY <1>1, <1>2, <1>3, <1>4, ApprovedStays DEF HandshakeInv
<1>6. Inboxes'
  <2> DEFINE sent == IF Carries(x) THEN out ELSE <<>>
  <2>1. inbox' = [inbox EXCEPT ![x] = <<>>, ![Peer(x)] = @ \o sent]
    BY DEF Ends
  <2>2. sent \in Seq(Expected(Peer(x))')
    BY EmptySeq
  <2> HIDE DEF sent
  <2> QED
    BY <1>1, <1>5, <2>1, <2>2, InboxesKeep DEF HandshakeInv
<1>7. RelayKnows' /\ Counted'
  BY <1>1, <1>3 DEF HandshakeInv, RelayKnows, Counted, Fits, Version
<1>8. Entered'
  BY <1>3, <1>5 DEF HandshakeInv, Entered
<1> QED
  BY <1>2, <1>6, <1>7, <1>8 DEF HandshakeInv

-----------------------------------------------------------------------------
(* What is sent and what is read.                                            *)

LEMMA OneFrame ==
  ASSUME NEW S, NEW f \in S
  PROVE  <<f>> \in Seq(S)
OBVIOUS

LEMMA HeadExpected ==
  ASSUME HandshakeInv, NEW x \in Sides, inbox[x] # <<>>
  PROVE  Frame(x) \in Expected(x) /\ Frame(x) \in Sent
<1>1. inbox[x] \in Seq(Expected(x))
  BY DEF HandshakeInv, Inboxes
<1>2. Frame(x) \in Expected(x)
  BY <1>1, HeadTailProperties DEF Frame
<1> QED
  BY <1>2 DEF Expected

LEMMA SealedExpected ==
  ASSUME NEW x \in Sides, NEW n \in 0..MaxCounter, n < MaxCounter
  PROVE  <<Sealed(n)>> \in Seq(Expected(x)')
<1>1. Sealed(n) \in Sent /\ Sealed(n).kind = "sealed"
  BY SealedSent DEF Sealed
<1>2. Sealed(n) \in Expected(x)'
  BY <1>1 DEF Expected, Sent
<1> QED
  BY <1>2, OneFrame

LEMMA VerdictExpected ==
  ASSUME HandshakeInv, UNCHANGED setup, NEW a \in Verdicts, a = "AUTHORIZED" => Approved'
  PROVE  Verdicting(a) \in Seq(Expected("client")')
<1>1. Version("relay") \in Versions
  BY DEF HandshakeInv, Types, Setups, Version, Sides
<1>2. Verdict(Version("relay"), a) \in Sent
  BY <1>1, VerdictSent
<1>3. Verdict(Version("relay"), a).mode = a
  BY DEF Verdict
<1>4. Verdict(Version("relay"), a) \in Expected("client")'
  BY <1>2, <1>3 DEF Expected, Sent
<1> QED
  BY <1>4, OneFrame DEF Verdicting

LEMMA NothingExpected == \A x \in Sides : <<>> \in Seq(Expected(x)')
BY EmptySeq

LEMMA LeavesKeeps ==
  ASSUME HandshakeInv, NEW x \in Sides, Ends(x, <<>>), UNCHANGED counters
  PROVE  HandshakeInv'
<1>1. local' = local /\ remote' = remote /\ remote' \in [Sides -> 0..MaxCounter]
  BY DEF counters, HandshakeInv, Types
<1>2. <<>> \in Seq(Expected(Peer(x))')
  BY EmptySeq
<1> QED
  BY <1>1, <1>2, EndsKeeps

-----------------------------------------------------------------------------
(* The client.                                                               *)

LEMMA ClientOpensKeeps ==
  ASSUME HandshakeInv, ClientOpens
  PROVE  HandshakeInv'
<1>1. /\ phase["client"] = "opening"
      /\ phase' = [phase EXCEPT !["client"] = "challenge"]
      /\ socket' = [socket EXCEPT !["client"] = "open"]
      /\ UNCHANGED <<setup, local, remote, solution, aborted, silent>>
  BY DEF ClientOpens, Goes, counters
<1>2. Types'
  BY <1>1 DEF HandshakeInv, Types, ClientPhases, Sides
<1>3. phase'["relay"] = phase["relay"] /\ phase'["client"] = "challenge"
  BY <1>1 DEF HandshakeInv, Types, Sides
<1>4. remote["relay"] \in Int
  BY DEF HandshakeInv, Types, Sides
<1>5. Approved => Approved'
  BY <1>1, <1>2, <1>3, <1>4, ApprovedStays DEF HandshakeInv
<1>6. Inboxes'
  <2> DEFINE hello == Hello(Version("client"), setup.mode)
             out == IF Reaches("relay") THEN <<hello>> ELSE <<>>
  <2>1. Version("client") \in Versions /\ setup.mode \in Modes
    BY DEF HandshakeInv, Types, Setups, Version, Sides
  <2>2. hello \in Sent
    BY <2>1, HelloSent
  <2>3. hello \in Expected("relay")'
    BY <1>1, <2>2 DEF Expected, Sent, Version
  <2>4. out \in Seq(Expected("relay")')
    BY <2>3, OneFrame, EmptySeq
  <2>5. inbox' = [inbox EXCEPT !["relay"] = @ \o out]
    BY DEF ClientOpens
  <2> HIDE DEF out
  <2>6. inbox' = [inbox EXCEPT !["client"] = inbox["client"], ![Peer("client")] = @ \o out]
    BY <2>5 DEF Peer, HandshakeInv, Inboxes
  <2>7. "client" \in Sides /\ Peer("client") = "relay"
    BY DEF Sides, Peer
  <2>8. inbox["client"] \in {inbox["client"], <<>>}
    OBVIOUS
  <2> QED
    BY <1>1, <1>5, <2>4, <2>6, <2>7, <2>8, InboxesKeep DEF HandshakeInv
<1>7. RelayKnows' /\ Counted' /\ Entered'
  BY <1>1, <1>3 DEF HandshakeInv, RelayKnows, Counted, Entered, Fits, Version
<1> QED
  BY <1>2, <1>6, <1>7 DEF HandshakeInv

(* The handler of side x goes on; the rest is for the action to say.         *)
LEMMA OneSide ==
  ASSUME HandshakeInv, NEW x \in Sides, NEW p, NEW read \in BOOLEAN, NEW out,
         GoesOn(x, p, read, out), read => inbox[x] # <<>>,
         out \in Seq(Expected(Peer(x))'),
         Types', RelayKnows', Counted',
         phase["relay"] \in {"session", "gone"} => phase'["relay"] \in {"session", "gone"},
         remote'["relay"] >= remote["relay"],
         x = "client" /\ p = "session" => Approved
  PROVE  HandshakeInv'
<1>1. UNCHANGED setup /\ phase' = [phase EXCEPT ![x] = p]
  BY DEF GoesOn, Goes
<1>2. Approved => Approved'
  BY <1>1, ApprovedStays DEF HandshakeInv
<1>3. Inboxes'
  BY <1>2, GoesOnKeeps
<1>4. Entered'
  BY <1>1, <1>2 DEF HandshakeInv, Types, Entered, Sides
<1> QED
  BY <1>3, <1>4 DEF HandshakeInv

LEMMA ClientGoesOn ==
  ASSUME HandshakeInv, NEW p \in ClientPhases \ {"opening"}, NEW read \in BOOLEAN, NEW out,
         GoesOn("client", p, read, out), read => inbox["client"] # <<>>,
         out \in Seq(Expected("relay")'),
         local' \in [Sides -> 0..MaxCounter], remote' \in [Sides -> 0..MaxCounter],
         local'["relay"] = local["relay"], remote'["relay"] = remote["relay"],
         UNCHANGED <<solution, socket>>,
         p = "challenge" => remote'["client"] = 0,
         p \in {"challenge", "solving"} => local'["client"] = 0,
         p = "session" => Approved
  PROVE  HandshakeInv'
<1>1. UNCHANGED <<setup, aborted, silent>> /\ phase' = [phase EXCEPT !["client"] = p]
  BY DEF GoesOn, Goes
<1>2. "client" \in Sides /\ "relay" \in Sides /\ Peer("client") = "relay"
  BY DEF Sides, Peer
<1>3. phase'["client"] = p /\ phase'["relay"] = phase["relay"]
  BY <1>1, <1>2 DEF HandshakeInv, Types
<1>4. Types'
  BY <1>1, <1>2, <1>3 DEF HandshakeInv, Types
<1>5. RelayKnows'
  BY <1>1, <1>3 DEF HandshakeInv, RelayKnows, Fits, Version
<1>6. Counted'
  BY <1>3 DEF HandshakeInv, Counted
<1>7. remote'["relay"] >= remote["relay"]
  BY <1>2 DEF HandshakeInv, Types
<1> QED
  BY <1>2, <1>3, <1>4, <1>5, <1>6, <1>7, OneSide

LEMMA ClientReadsChallengeKeeps ==
  ASSUME HandshakeInv, ClientReadsChallenge
  PROVE  HandshakeInv'
<1>0. "client" \in Sides /\ "relay" \in Sides
  BY DEF Sides
<1>1. phase["client"] = "challenge" /\ inbox["client"] # <<>>
  BY DEF ClientReadsChallenge, Finds
<1>2. CASE Ends("client", <<>>) /\ UNCHANGED counters
  BY <1>0, <1>2, LeavesKeeps
<1>3. CASE /\ GoesOn("client", "solving", TRUE, <<>>)
           /\ remote' = [remote EXCEPT !["client"] = @ + SealsChallenge(setup.mode)]
           /\ UNCHANGED <<local, solution, socket>>
  <2>1. remote["client"] = 0 /\ local["client"] = 0
    BY <1>1 DEF HandshakeInv, Counted
  <2>2. SealsChallenge(setup.mode) \in 0..MaxCounter
    BY Bound DEF SealsChallenge
  <2>3. remote' \in [Sides -> 0..MaxCounter] /\ remote'["relay"] = remote["relay"]
    BY <1>0, <1>3, <2>1, <2>2 DEF HandshakeInv, Types
  <2>4. local' \in [Sides -> 0..MaxCounter]
    BY <1>3 DEF HandshakeInv, Types
  <2>5. UNCHANGED <<solution, socket>> /\ local'["relay"] = local["relay"] /\ local'["client"] = 0
    BY <1>3, <2>1
  <2>6. <<>> \in Seq(Expected("relay")') /\ "solving" \in ClientPhases \ {"opening"}
    BY <1>0, NothingExpected DEF ClientPhases
  <2> QED
    BY <1>1, <1>3, <2>3, <2>4, <2>5, <2>6, ClientGoesOn
<1> QED
  BY <1>2, <1>3 DEF ClientReadsChallenge

LEMMA ClientSolvesKeeps ==
  ASSUME HandshakeInv, ClientSolves
  PROVE  HandshakeInv'
<1>0. "client" \in Sides /\ "relay" \in Sides
  BY DEF Sides
<1>1. /\ phase["client"] = "solving"
      /\ GoesOn("client", "verdict", FALSE, <<Sealed(local["client"])>>)
      /\ local' = [local EXCEPT !["client"] = @ + 1]
      /\ UNCHANGED <<remote, solution, socket>>
  BY DEF ClientSolves
<1>2. local["client"] = 0 /\ 0 \in 0..MaxCounter /\ 1 \in 0..MaxCounter
  BY <1>1, Bound DEF HandshakeInv, Counted
<1>3. local' \in [Sides -> 0..MaxCounter] /\ local'["relay"] = local["relay"]
  BY <1>0, <1>1, <1>2 DEF HandshakeInv, Types
<1>4. remote' \in [Sides -> 0..MaxCounter] /\ remote'["relay"] = remote["relay"]
  BY <1>1 DEF HandshakeInv, Types
<1>5. <<Sealed(local["client"])>> \in Seq(Expected("relay")')
  BY <1>0, <1>2, Bound, SealedExpected
<1>6. UNCHANGED <<solution, socket>> /\ "verdict" \in ClientPhases \ {"opening"}
  BY <1>1 DEF ClientPhases
<1> QED
  BY <1>1, <1>3, <1>4, <1>5, <1>6, ClientGoesOn

(* Who is told AUTHORIZED was authorized.                                    *)
LEMMA ClientReadsVerdictKeeps ==
  ASSUME HandshakeInv, ClientReadsVerdict
  PROVE  HandshakeInv'
<1>0. "client" \in Sides /\ "relay" \in Sides
  BY DEF Sides
<1>1. inbox["client"] # <<>> /\ Frame("client").kind = "verdict"
  BY DEF ClientReadsVerdict, Finds, Frame
<1>2. CASE Ends("client", <<>>) /\ UNCHANGED counters
  BY <1>0, <1>2, LeavesKeeps
<1>3. CASE /\ Accepts(Frame("client"))
           /\ GoesOn("client", "session", TRUE, <<>>) /\ UNCHANGED <<counters, solution, socket>>
  <2>1. Approved
    BY <1>0, <1>1, <1>3, HeadExpected DEF Expected, Accepts
  <2>2. /\ local' \in [Sides -> 0..MaxCounter] /\ remote' \in [Sides -> 0..MaxCounter]
        /\ local' = local /\ remote' = remote
    BY <1>3 DEF HandshakeInv, Types, counters
  <2> QED
    BY <1>0, <1>1, <1>3, <2>1, <2>2, NothingExpected, ClientGoesOn DEF ClientPhases
<1> QED
  BY <1>2, <1>3 DEF ClientReadsVerdict

-----------------------------------------------------------------------------
(* The relay.                                                                *)

LEMMA RelayGoesOn ==
  ASSUME HandshakeInv, NEW p \in RelayPhases \ {"opening", "gone"}, NEW read \in BOOLEAN, NEW out,
         GoesOn("relay", p, read, out), read => inbox["relay"] # <<>>,
         out \in Seq(Expected("client")'),
         local' \in [Sides -> 0..MaxCounter], remote' \in [Sides -> 0..MaxCounter],
         local'["client"] = local["client"], remote'["client"] = remote["client"],
         remote'["relay"] >= remote["relay"],
         solution' \in 0..MaxCounter,
         socket' \in [Sides -> {"connecting", "open", "closed"}],
         phase["relay"] \in {"session", "gone"} => p = "session",
         p \in {"hello", "lookup"} => local'["relay"] = 0,
         p # "session" => remote'["relay"] = 0,
         p # "hello" => Fits,
         p \in {"solution", "verifying", "session"} => setup.known,
         p = "session" => setup.sameKey /\ remote'["relay"] > 0
  PROVE  HandshakeInv'
<1>1. UNCHANGED <<setup, aborted, silent>> /\ phase' = [phase EXCEPT !["relay"] = p]
  BY DEF GoesOn, Goes
<1>2. "client" \in Sides /\ "relay" \in Sides /\ Peer("relay") = "client"
  BY DEF Sides, Peer
<1>3. phase'["relay"] = p /\ phase'["client"] = phase["client"]
  BY <1>1, <1>2 DEF HandshakeInv, Types
<1>4. Types'
  BY <1>1, <1>2, <1>3 DEF HandshakeInv, Types
<1>5. RelayKnows'
  BY <1>1, <1>3 DEF RelayKnows, Fits, Version
<1>6. Counted'
  BY <1>3 DEF HandshakeInv, Counted
<1> QED
  BY <1>2, <1>3, <1>4, <1>5, <1>6, OneSide

LEMMA RelayOpensKeeps ==
  ASSUME HandshakeInv, RelayOpens
  PROVE  HandshakeInv'
<1>0. "client" \in Sides /\ "relay" \in Sides
  BY DEF Sides
<1>1. phase["relay"] = "opening"
  BY DEF RelayOpens
<1>2. CASE Ends("relay", <<>>) /\ UNCHANGED counters
  BY <1>0, <1>2, LeavesKeeps
<1>3. CASE /\ GoesOn("relay", "hello", FALSE, <<>>)
           /\ socket' = [socket EXCEPT !["relay"] = "open"]
           /\ UNCHANGED <<counters, solution>>
  <2>1. local' = local /\ remote' = remote /\ solution' = solution
    BY <1>3 DEF counters
  <2>2. /\ local' \in [Sides -> 0..MaxCounter] /\ remote' \in [Sides -> 0..MaxCounter]
        /\ solution' \in 0..MaxCounter /\ remote'["relay"] >= remote["relay"]
        /\ socket' \in [Sides -> {"connecting", "open", "closed"}]
    BY <1>0, <1>3, <2>1 DEF HandshakeInv, Types
  <2>3. local'["relay"] = 0 /\ remote'["relay"] = 0
    BY <1>1, <2>1 DEF HandshakeInv, Counted
  <2>4. <<>> \in Seq(Expected("client")') /\ "hello" \in RelayPhases \ {"opening", "gone"}
    BY <1>0, NothingExpected DEF RelayPhases
  <2> QED
    BY <1>1, <1>3, <2>1, <2>2, <2>3, <2>4, RelayGoesOn
<1> QED
  BY <1>2, <1>3 DEF RelayOpens

(* The hello that is read is that of the client.                             *)
LEMMA RelayReadsHelloKeeps ==
  ASSUME HandshakeInv, RelayReadsHello
  PROVE  HandshakeInv'
<1>0. "client" \in Sides /\ "relay" \in Sides /\ Peer("relay") = "client"
  BY DEF Sides, Peer
<1>1. phase["relay"] = "hello" /\ inbox["relay"] # <<>> /\ Frame("relay").kind = "hello"
  BY DEF RelayReadsHello, Finds, Frame
<1>2. Frame("relay") = Hello(Version("client"), setup.mode)
  BY <1>0, <1>1, HeadExpected DEF Expected
<1>3. Frame("relay").version = Version("client") /\ Frame("relay").mode = setup.mode
  BY <1>2 DEF Hello
<1>4. CASE Ends("relay", <<>>) /\ UNCHANGED counters
  BY <1>0, <1>4, LeavesKeeps
<1>5. CASE Ends("relay", Verdicting("UNSUPPORTED_AUTH")) /\ UNCHANGED counters
  <2>1. UNCHANGED setup
    BY <1>5 DEF Ends
  <2>2. Verdicting("UNSUPPORTED_AUTH") \in Seq(Expected("client")')
    BY <2>1, VerdictExpected DEF Verdicts
  <2>3. local' = local /\ remote' = remote /\ remote' \in [Sides -> 0..MaxCounter]
    BY <1>5 DEF counters, HandshakeInv, Types
  <2> QED
    BY <1>0, <1>5, <2>2, <2>3, EndsKeeps
<1>6. CASE /\ Frame("relay").version = Version("relay")
           /\ Enabled(Frame("relay").mode)
           /\ GoesOn("relay", "lookup", TRUE, <<>>)
           /\ UNCHANGED <<counters, solution, socket>>
  <2>1. local' = local /\ remote' = remote /\ solution' = solution /\ socket' = socket
    BY <1>6 DEF counters
  <2>2. /\ local' \in [Sides -> 0..MaxCounter] /\ remote' \in [Sides -> 0..MaxCounter]
        /\ solution' \in 0..MaxCounter /\ remote'["relay"] >= remote["relay"]
        /\ socket' \in [Sides -> {"connecting", "open", "closed"}]
    BY <1>0, <2>1 DEF HandshakeInv, Types
  <2>3. local'["relay"] = 0 /\ remote'["relay"] = 0
    BY <1>1, <2>1 DEF HandshakeInv, Counted
  <2>4. <<>> \in Seq(Expected("client")') /\ "lookup" \in RelayPhases \ {"opening", "gone"}
    BY <1>0, NothingExpected DEF RelayPhases
  <2>5. Fits
    BY <1>3, <1>6 DEF Fits, Enabled
  <2> QED
    BY <1>1, <1>6, <2>1, <2>2, <2>3, <2>4, <2>5, RelayGoesOn
<1> QED
  BY <1>4, <1>5, <1>6 DEF RelayReadsHello

LEMMA RelayChallengesKeeps ==
  ASSUME HandshakeInv, RelayChallenges
  PROVE  HandshakeInv'
<1>0. "client" \in Sides /\ "relay" \in Sides
  BY DEF Sides
<1> DEFINE next == IF setup.known THEN "solution" ELSE "pointless"
           opens == setup.known /\ setup.sameKey
           challenge == Challenge(Version("relay"), setup.mode, opens)
           count == ChallengeCount(setup.mode, setup.known)
<1>1. /\ phase["relay"] = "lookup"
      /\ GoesOn("relay", next, FALSE, <<challenge>>)
      /\ local' = [local EXCEPT !["relay"] = @ + count]
      /\ UNCHANGED <<remote, solution, socket>>
  BY DEF RelayChallenges
<1>2. local["relay"] = 0 /\ remote["relay"] = 0 /\ Fits
  BY <1>1 DEF HandshakeInv, Counted, RelayKnows
<1>3. count \in 0..MaxCounter
  BY Bound DEF ChallengeCount, SealsChallenge
<1>4. next \in {"solution", "pointless"} /\ (next = "solution" => setup.known)
  OBVIOUS
<1>5. <<challenge>> \in Seq(Expected("client")')
  <2>1. Version("relay") \in Versions /\ setup.mode \in Modes
    BY DEF HandshakeInv, Types, Setups, Version, Sides
  <2>2. opens \in BOOLEAN
    BY Zenon
  <2> HIDE DEF opens
  <2>3. challenge \in Sent /\ challenge.kind = "challenge"
    BY <2>1, <2>2, ChallengeSent
  <2>4. challenge \in Expected("client")'
    BY <2>3 DEF Expected, Sent
  <2> QED
    BY <2>4, OneFrame
<1> HIDE DEF next, opens, challenge, count
<1>6. /\ local' \in [Sides -> 0..MaxCounter] /\ local'["client"] = local["client"]
      /\ remote' \in [Sides -> 0..MaxCounter] /\ remote'["client"] = remote["client"]
      /\ remote'["relay"] = 0 /\ remote'["relay"] >= remote["relay"]
      /\ solution' \in 0..MaxCounter
      /\ socket' \in [Sides -> {"connecting", "open", "closed"}]
  BY <1>0, <1>1, <1>2, <1>3 DEF HandshakeInv, Types
<1>7. next \in RelayPhases \ {"opening", "gone"} /\ next \notin {"hello", "lookup", "verifying", "session"}
  BY <1>4 DEF RelayPhases
<1> QED
  BY <1>1, <1>2, <1>4, <1>5, <1>6, <1>7, RelayGoesOn

LEMMA RelayReadsSolutionKeeps ==
  ASSUME HandshakeInv, RelayReadsSolution
  PROVE  HandshakeInv'
<1>0. "client" \in Sides /\ "relay" \in Sides
  BY DEF Sides
<1>1. /\ phase["relay"] = "solution" /\ inbox["relay"] # <<>> /\ Frame("relay").kind = "sealed"
      /\ GoesOn("relay", "verifying", TRUE, <<>>)
      /\ solution' = Frame("relay").counter
      /\ UNCHANGED <<counters, socket>>
  BY DEF RelayReadsSolution, Finds, Frame
<1>2. Frame("relay").counter \in 0..MaxCounter
  <2>1. Frame("relay") \in Frames
    BY <1>0, <1>1, HeadExpected DEF Sent
  <2> QED
    BY <1>1, <2>1 DEF Frames, Hello, Challenge, Verdict, Sealed
<1>3. local' = local /\ remote' = remote /\ socket' = socket
  BY <1>1 DEF counters
<1>4. /\ local' \in [Sides -> 0..MaxCounter] /\ remote' \in [Sides -> 0..MaxCounter]
      /\ remote'["relay"] >= remote["relay"] /\ solution' \in 0..MaxCounter
      /\ socket' \in [Sides -> {"connecting", "open", "closed"}]
  BY <1>0, <1>1, <1>2, <1>3 DEF HandshakeInv, Types
<1>5. remote'["relay"] = 0 /\ Fits /\ setup.known
  BY <1>1, <1>3 DEF HandshakeInv, Counted, RelayKnows
<1>6. <<>> \in Seq(Expected("client")') /\ "verifying" \in RelayPhases \ {"opening", "gone"}
  BY <1>0, NothingExpected DEF RelayPhases
<1> QED
  BY <1>1, <1>3, <1>4, <1>5, <1>6, RelayGoesOn

(* The relay tells the client AUTHORIZED when it is in the session itself.   *)
LEMMA RelayVerifiesKeeps ==
  ASSUME HandshakeInv, RelayVerifies
  PROVE  HandshakeInv'
<1>0. "client" \in Sides /\ "relay" \in Sides /\ Peer("relay") = "client"
  BY DEF Sides, Peer
<1>1. phase["relay"] = "verifying" /\ local' = local
      /\ remote' = [remote EXCEPT !["relay"] = @ + 1]
  BY DEF RelayVerifies
<1>2. remote["relay"] = 0 /\ Fits /\ setup.known
  BY <1>1 DEF HandshakeInv, Counted, RelayKnows
<1>3. /\ local' \in [Sides -> 0..MaxCounter] /\ remote' \in [Sides -> 0..MaxCounter]
      /\ remote'["relay"] = 1 /\ remote'["client"] = remote["client"]
  BY <1>0, <1>1, <1>2, Bound DEF HandshakeInv, Types
<1>4. CASE Ends("relay", Verdicting("UNAUTHORIZED"))
  <2>1. UNCHANGED setup
    BY <1>4 DEF Ends
  <2>2. Verdicting("UNAUTHORIZED") \in Seq(Expected("client")')
    BY <2>1, VerdictExpected DEF Verdicts
  <2>3. remote'["relay"] >= remote["relay"]
    BY <1>2, <1>3
  <2> QED
    BY <1>0, <1>1, <1>3, <1>4, <2>2, <2>3, EndsKeeps
<1>5. CASE /\ setup.sameKey
           /\ GoesOn("relay", "session", FALSE, Approval) /\ UNCHANGED <<solution, socket>>
  <2>1. UNCHANGED setup /\ phase'["relay"] = "session"
    BY <1>0, <1>5 DEF GoesOn, Goes, HandshakeInv, Types
  <2>2. Approved'
    BY <1>2, <1>3, <1>5, <2>1 DEF Approved, Fits, Version
  <2>3. Approval \in Seq(Expected("client")')
    BY <2>1, <2>2, VerdictExpected DEF Verdicts, Approval
  <2>4. /\ solution' \in 0..MaxCounter
        /\ socket' \in [Sides -> {"connecting", "open", "closed"}]
    BY <1>5 DEF HandshakeInv, Types
  <2>5. "session" \in RelayPhases \ {"opening", "gone"} /\ remote'["relay"] >= remote["relay"]
    BY <1>2, <1>3 DEF RelayPhases
  <2>6. setup.sameKey /\ setup.known /\ Fits /\ remote'["relay"] > 0
    BY <1>2, <1>3, <1>5
  <2>7. local'["client"] = local["client"] /\ FALSE \in BOOLEAN
    BY <1>1
  <2>8. GoesOn("relay", "session", FALSE, Approval)
    BY <1>5
  <2> QED
    BY <1>3, <2>3, <2>4, <2>5, <2>6, <2>7, <2>8, RelayGoesOn
<1> QED
  BY <1>4, <1>5 DEF RelayVerifies

-----------------------------------------------------------------------------
(* Both sides, and the transport.                                            *)

LEMMA SpeaksKeeps ==
  ASSUME HandshakeInv, NEW x \in Sides, Speaks(x)
  PROVE  HandshakeInv'
<1>0. "client" \in Sides /\ "relay" \in Sides /\ Peer("relay") = "client" /\ Peer("client") = "relay"
  BY DEF Sides, Peer
<1>1. /\ phase[x] = "session" /\ local[x] < MaxCounter
      /\ GoesOn(x, "session", FALSE, <<Sealed(local[x])>>)
      /\ local' = [local EXCEPT ![x] = @ + 1]
      /\ UNCHANGED <<remote, solution, socket>>
  BY DEF Speaks
<1>2. local[x] \in 0..MaxCounter /\ local[x] + 1 \in 0..MaxCounter
  BY <1>1, Bound DEF HandshakeInv, Types
<1>3. /\ local' \in [Sides -> 0..MaxCounter]
      /\ \A y \in Sides : y # x => local'[y] = local[y]
  BY <1>1, <1>2 DEF HandshakeInv, Types
<1>4. /\ remote' = remote /\ remote' \in [Sides -> 0..MaxCounter]
      /\ solution' = solution /\ solution' \in 0..MaxCounter
      /\ socket' = socket /\ socket' \in [Sides -> {"connecting", "open", "closed"}]
      /\ remote'["relay"] >= remote["relay"]
  BY <1>0, <1>1 DEF HandshakeInv, Types
<1>5. <<Sealed(local[x])>> \in Seq(Expected(Peer(x))')
  BY <1>1, <1>2, PeersDiffer, SealedExpected
<1> DEFINE out == <<Sealed(local[x])>>
<1> HIDE DEF out
<1>6. GoesOn(x, "session", FALSE, out) /\ out \in Seq(Expected(Peer(x))')
  BY <1>1, <1>5 DEF out
<1>7. CASE x = "client"
  <2>1. Approved /\ "session" \in ClientPhases \ {"opening"}
    BY <1>1, <1>7 DEF HandshakeInv, Entered, ClientPhases
  <2>2. local'["relay"] = local["relay"] /\ remote'["relay"] = remote["relay"]
    BY <1>0, <1>3, <1>4, <1>7
  <2> QED
    BY <1>0, <1>3, <1>4, <1>6, <1>7, <2>1, <2>2, ClientGoesOn
<1>8. CASE x = "relay"
  <2>1. /\ setup.sameKey /\ setup.known /\ Fits /\ remote'["relay"] > 0
        /\ "session" \in RelayPhases \ {"opening", "gone"}
    BY <1>1, <1>4, <1>8 DEF HandshakeInv, RelayKnows, RelayPhases
  <2>2. local'["client"] = local["client"] /\ remote'["client"] = remote["client"]
    BY <1>0, <1>3, <1>4, <1>8
  <2> QED
    BY <1>0, <1>3, <1>4, <1>6, <1>8, <2>1, <2>2, RelayGoesOn
<1> QED
  BY <1>7, <1>8 DEF Sides

LEMMA ListensKeeps ==
  ASSUME HandshakeInv, NEW x \in Sides, Listens(x)
  PROVE  HandshakeInv'
<1>0. "client" \in Sides /\ "relay" \in Sides /\ Peer("relay") = "client" /\ Peer("client") = "relay"
  BY DEF Sides, Peer
<1>1. phase[x] = "session" /\ inbox[x] # <<>> /\ Frame(x).kind = "sealed"
  BY DEF Listens, Finds, Frame
<1>2. CASE Ends(x, <<>>) /\ UNCHANGED counters
  BY <1>2, LeavesKeeps
<1>3. CASE /\ Frame(x).counter = remote[x]
           /\ GoesOn(x, "session", TRUE, <<>>)
           /\ remote' = [remote EXCEPT ![x] = @ + 1]
           /\ UNCHANGED <<local, solution, socket>>
  <2>1. Frame(x).counter < MaxCounter
    BY <1>1, HeadExpected DEF Sent
  <2>2. remote[x] \in 0..MaxCounter /\ remote[x] + 1 \in 0..MaxCounter
    BY <1>3, <2>1, Bound DEF HandshakeInv, Types
  <2>3. /\ remote' \in [Sides -> 0..MaxCounter]
        /\ remote'["relay"] >= remote["relay"]
        /\ \A y \in Sides : y # x => remote'[y] = remote[y]
    BY <1>0, <1>3, <2>2 DEF HandshakeInv, Types
  <2>4. /\ local' = local /\ local' \in [Sides -> 0..MaxCounter]
        /\ solution' = solution /\ solution' \in 0..MaxCounter
        /\ socket' = socket /\ socket' \in [Sides -> {"connecting", "open", "closed"}]
    BY <1>3 DEF HandshakeInv, Types
  <2>5. GoesOn(x, "session", TRUE, <<>>) /\ <<>> \in Seq(Expected(Peer(x))') /\ inbox[x] # <<>>
    BY <1>1, <1>3, PeersDiffer, NothingExpected
  <2>6. CASE x = "client"
    <3>1. Approved /\ "session" \in ClientPhases \ {"opening"}
      BY <1>1, <2>6 DEF HandshakeInv, Entered, ClientPhases
    <3>2. local'["relay"] = local["relay"] /\ remote'["relay"] = remote["relay"]
      BY <1>0, <2>3, <2>4, <2>6
    <3> QED
      BY <1>0, <2>3, <2>4, <2>5, <2>6, <3>1, <3>2, ClientGoesOn
  <2>7. CASE x = "relay"
    <3>1. /\ setup.sameKey /\ setup.known /\ Fits /\ remote["relay"] > 0
          /\ "session" \in RelayPhases \ {"opening", "gone"}
      BY <1>1, <2>7 DEF HandshakeInv, RelayKnows, RelayPhases
    <3>2. remote'["relay"] > 0
      BY <1>0, <2>2, <2>3, <3>1 DEF HandshakeInv, Types
    <3>3. local'["client"] = local["client"] /\ remote'["client"] = remote["client"]
      BY <1>0, <2>3, <2>4, <2>7
    <3> QED
      BY <1>0, <2>3, <2>4, <2>5, <2>7, <3>1, <3>2, <3>3, RelayGoesOn
  <2> QED
    BY <2>6, <2>7 DEF Sides
<1> QED
  BY <1>2, <1>3 DEF Listens

(* The transport changes no more than the frames that are on their way.      *)
LEMMA TransportKeeps ==
  ASSUME HandshakeInv, NEW x \in Sides,
         SocketCloses(x) \/ SignalAborts(x) \/ FallsSilent
  PROVE  HandshakeInv'
<1>1. UNCHANGED <<setup, phase, local, remote, solution>>
  BY DEF SocketCloses, SignalAborts, FallsSilent, counters
<1>2. Types'
  <2>1. socket' \in [Sides -> {"connecting", "open", "closed"}]
    BY DEF SocketCloses, SignalAborts, FallsSilent, HandshakeInv, Types
  <2>2. aborted' \in [Sides -> BOOLEAN]
    BY DEF SocketCloses, SignalAborts, FallsSilent, HandshakeInv, Types
  <2>3. silent' \in {silent, TRUE}
    BY DEF SocketCloses, SignalAborts, FallsSilent
  <2>4. silent' \in BOOLEAN
    BY <2>3, Zenon DEF HandshakeInv, Types
  <2> QED
    BY <1>1, <2>1, <2>2, <2>4 DEF HandshakeInv, Types
<1>3. (Approved <=> Approved') /\ \A y \in Sides : Expected(y) = Expected(y)'
  BY <1>1 DEF Approved, Fits, Version, Expected
<1>4. Inboxes'
  <2>1. CASE inbox' = [inbox EXCEPT ![x] = <<>>]
    <3>1. \A y \in Sides : inbox'[y] \in {inbox[y], <<>>}
      BY <2>1 DEF HandshakeInv, Inboxes
    <3>2. \A y \in Sides : inbox'[y] \in Seq(Expected(y)')
      BY <1>3, <3>1, EmptySeq DEF HandshakeInv, Inboxes
    <3>3. inbox' = [y \in Sides |-> inbox'[y]]
      BY <2>1 DEF HandshakeInv, Inboxes
    <3> QED
      BY <3>2, <3>3 DEF Inboxes
  <2>2. CASE FallsSilent
    <3>1. PICK n \in 0..Len(inbox["client"]), m \in 0..Len(inbox["relay"]) :
            inbox' = [client |-> SubSeq(inbox["client"], 1, n), relay |-> SubSeq(inbox["relay"], 1, m)]
      BY <2>2 DEF FallsSilent
    <3>2. inbox["client"] \in Seq(Expected("client")') /\ inbox["relay"] \in Seq(Expected("relay")')
      BY <1>3 DEF HandshakeInv, Inboxes, Sides
    <3>3. /\ SubSeq(inbox["client"], 1, n) \in Seq(Expected("client")')
          /\ SubSeq(inbox["relay"], 1, m) \in Seq(Expected("relay")')
      BY <3>1, <3>2, SubSeqProperties, LenProperties
    <3>4. \A y \in Sides : inbox'[y] \in Seq(Expected(y)')
      BY <3>1, <3>3 DEF Sides
    <3>5. inbox' = [y \in Sides |-> inbox'[y]]
      BY <3>1 DEF Sides
    <3> QED
      BY <3>4, <3>5 DEF Inboxes
  <2> QED
    BY <2>1, <2>2 DEF SocketCloses, SignalAborts
<1>5. RelayKnows' /\ Counted' /\ Entered'
  BY <1>1, <1>3 DEF HandshakeInv, RelayKnows, Counted, Entered, Fits, Version
<1> QED
  BY <1>2, <1>4, <1>5 DEF HandshakeInv

-----------------------------------------------------------------------------
(* All of it.                                                                *)

LEMMA InitHandshakeInv == Init => HandshakeInv
<1> SUFFICES ASSUME Init PROVE HandshakeInv
  OBVIOUS
<1>1. silent \in BOOLEAN
  BY Zenon DEF Init
<1>2. aborted \in [Sides -> BOOLEAN]
  BY DEF Init
<1>3. 0 \in 0..MaxCounter
  BY Bound
<1>4. /\ phase["client"] = "opening" /\ phase["relay"] = "opening"
      /\ local["client"] = 0 /\ local["relay"] = 0
      /\ remote["client"] = 0 /\ remote["relay"] = 0
  BY DEF Init, Sides
<1>5. Types
  BY <1>1, <1>2, <1>3 DEF Init, Types, Sides, ClientPhases, RelayPhases
<1>6. Inboxes
  BY EmptySeq DEF Init, Inboxes
<1> QED
  BY <1>4, <1>5, <1>6 DEF HandshakeInv, RelayKnows, Counted, Entered

LEMMA NextHandshakeInv == HandshakeInv /\ [Next]_vars => HandshakeInv'
<1> SUFFICES ASSUME HandshakeInv, [Next]_vars PROVE HandshakeInv'
  OBVIOUS
<1>1. CASE Client
  BY <1>1, ClientOpensKeeps, ClientReadsChallengeKeeps, ClientSolvesKeeps, ClientReadsVerdictKeeps
  DEF Client
<1>2. CASE Relay
  BY <1>2, RelayOpensKeeps, RelayReadsHelloKeeps, RelayChallengesKeeps, RelayReadsSolutionKeeps,
     RelayVerifiesKeeps
  DEF Relay
<1>3. ASSUME NEW x \in Sides, Rejected(x) \/ SendThrows(x) \/ TimesOut(x) \/ Leaves(x)
      PROVE  HandshakeInv'
  BY <1>3, LeavesKeeps DEF Rejected, SendThrows, TimesOut, Leaves
<1>4. ASSUME NEW x \in Sides, Listens(x) \/ Speaks(x)
      PROVE  HandshakeInv'
  BY <1>4, ListensKeeps, SpeaksKeeps
<1>5. ASSUME NEW x \in Sides, SocketCloses(x) \/ SignalAborts(x)
      PROVE  HandshakeInv'
  BY <1>5, TransportKeeps
<1>6. CASE FallsSilent
  BY <1>6, TransportKeeps DEF Sides
<1>7. CASE UNCHANGED vars
  <2>1. UNCHANGED <<setup, phase, local, remote, solution, inbox, socket, aborted, silent>>
    BY <1>7 DEF vars, counters
  <2>2. (Approved <=> Approved') /\ \A x \in Sides : Expected(x) = Expected(x)'
    BY <2>1 DEF Approved, Fits, Version, Expected
  <2>3. Inboxes'
    BY <2>1, <2>2 DEF HandshakeInv, Inboxes
  <2>4. Types'
    BY <2>1 DEF HandshakeInv, Types
  <2>5. RelayKnows' /\ Counted' /\ Entered'
    BY <2>1, <2>2 DEF HandshakeInv, RelayKnows, Counted, Entered, Fits, Version
  <2> QED
    BY <2>3, <2>4, <2>5 DEF HandshakeInv
<1>8. CASE BothGone
  BY <1>7, <1>8 DEF BothGone
<1> QED
  BY <1>1, <1>2, <1>3, <1>4, <1>5, <1>6, <1>7, <1>8 DEF Next, Handler

(* The inductive invariant of the handshake holds in every reachable state.  *)
THEOREM HandshakeCorrect == Spec => []HandshakeInv
<1> QED
  BY InitHandshakeInv, NextHandshakeInv, PTL DEF Spec

(* Every variable keeps its type, the frames on their way included.          *)
THEOREM TypesCorrect == Spec => []TypeOK
<1>1. HandshakeInv => TypeOK
  <2> SUFFICES ASSUME HandshakeInv PROVE TypeOK
    OBVIOUS
  <2>1. \A x \in Sides : inbox[x] \in Seq(Expected(x)) /\ Expected(x) \subseteq Frames
    BY DEF HandshakeInv, Inboxes, Expected, Sent
  <2>2. \A x \in Sides : inbox[x] \in Seq(Frames)
    BY <2>1, SeqGrows
  <2>3. inbox \in [Sides -> Seq(Frames)]
    BY <2>2 DEF HandshakeInv, Inboxes
  <2> QED
    BY <2>3 DEF HandshakeInv, Types, TypeOK
<1> QED
  BY <1>1, HandshakeCorrect, PTL

(* Whoever is in a session was authorized: the relay has found the client,   *)
(* with its key, its version and a mode that is enabled, whatever timers,    *)
(* refusals and broken connections come between.                             *)
THEOREM OnlyAuthorizedCorrect == Spec => []OnlyAuthorized
<1>1. HandshakeInv => OnlyAuthorized
  <2> SUFFICES ASSUME HandshakeInv PROVE OnlyAuthorized
    OBVIOUS
  <2>1. phase["client"] = "session" => Approved
    BY DEF HandshakeInv, Entered
  <2>2. phase["relay"] = "session" => setup.known /\ setup.sameKey /\ Fits
    BY DEF HandshakeInv, RelayKnows
  <2> QED
    BY <2>1, <2>2 DEF OnlyAuthorized, Approved, Fits, Sides
<1> QED
  BY <1>1, HandshakeCorrect, PTL

-----------------------------------------------------------------------------
(* The frames on their way.  CountersMeet and NothingMisread speak of what    *)
(* one side finds; what makes them inductive is how the phases of the two     *)
(* sides fit, and for each pair of phases what can be between them.           *)

(* Of what fills an inbox, all but the first k frames are sealed and counted *)
(* from c.                                                                   *)
Counting(s, k, c) ==
  \A i \in k + 1 .. Len(s) : s[i].kind = "sealed" /\ s[i].counter = c + i - k - 1

(* They are the last ones the peer has encrypted, unless something was lost; *)
(* then nothing more is carried.                                             *)
Flows(x, k, c) ==
  /\ Counting(inbox[x], k, c)
  /\ c + Len(inbox[x]) - k <= local[Peer(x)]
  /\ Carries(Peer(x)) => c + Len(inbox[x]) - k = local[Peer(x)]

(* At most one frame, of one of these kinds.                                 *)
Alone(x, kinds) == Len(inbox[x]) <= 1 /\ \A i \in 1..Len(inbox[x]) : inbox[x][i].kind \in kinds

(* The solution in the hands of the relay.                                   *)
InHand == IF phase["relay"] = "verifying" THEN 1 ELSE 0

ToRelay ==
  /\ phase["client"] = "opening" => inbox["relay"] = <<>>
  /\ phase["relay"] \in {"opening", "hello"} => Alone("relay", {"hello"})
  /\ phase["relay"] \in {"lookup", "pointless"} => inbox["relay"] = <<>>
  /\ phase["relay"] \in {"solution", "verifying", "session"} =>
       Flows("relay", 0, remote["relay"] + InHand)

(* The challenge the client can open was sent by a relay that waits for it.  *)
Opened == phase["relay"] \in {"solution", "gone"} /\ local["relay"] = SealsChallenge(setup.mode)

ToClient ==
  /\ phase["client"] \in {"opening", "solving"} => inbox["client"] = <<>>
  /\ phase["client"] = "challenge" =>
       /\ Alone("client", {"challenge", "verdict"})
       /\ phase["relay"] \in {"opening", "hello", "lookup"} => inbox["client"] = <<>>
       /\ \A i \in 1..Len(inbox["client"]) :
            inbox["client"][i].kind = "challenge" /\ inbox["client"][i].opens => Opened
  /\ phase["client"] = "solving" => Opened /\ remote["client"] = local["relay"]
  /\ phase["client"] = "verdict" =>
       IF phase["relay"] \in {"solution", "verifying"}
       THEN inbox["client"] = <<>> /\ remote["client"] = local["relay"]
       ELSE /\ remote["client"] <= local["relay"]
            /\ inbox["client"] # <<>> => inbox["client"][1].kind = "verdict"
            /\ Flows("client", 1, remote["client"])
  /\ phase["client"] = "session" => Flows("client", 0, remote["client"])

InStep ==
  /\ phase["client"] = "opening" => phase["relay"] \in {"opening", "hello", "gone"}
  /\ phase["client"] \in {"solving", "verdict"} =>
       phase["relay"] \in {"solution", "verifying", "session", "gone"}
  /\ \A x \in Sides : phase[x] = "gone" => socket[x] = "closed"

StreamInv == InStep /\ ToRelay /\ ToClient

(* What was sent is read, lengthened or cut short.                           *)

LEMMA CountingReads ==
  ASSUME NEW S, NEW s \in Seq(S), s # <<>>, NEW k \in {0, 1}, NEW c \in Int, Counting(s, k, c)
  PROVE  /\ Counting(Tail(s), 0, c + 1 - k)
         /\ Len(s) \in Nat /\ Len(Tail(s)) = Len(s) - 1
         /\ (c + 1 - k) + Len(Tail(s)) - 0 = c + Len(s) - k
<1> DEFINE t == Tail(s)
<1>1. Len(t) = Len(s) - 1 /\ \A i \in 1..Len(t) : t[i] = s[i + 1]
  BY HeadTailProperties
<1>2. Len(s) \in Nat \ {0}
  BY EmptySeq
<1> HIDE DEF t
<1>3. ASSUME NEW i \in 1..Len(t)
      PROVE  t[i].kind = "sealed" /\ t[i].counter = (c + 1 - k) + i - 1
  <2>1. i + 1 \in k + 1 .. Len(s)
    BY <1>1, <1>2
  <2>2. s[i + 1].kind = "sealed" /\ s[i + 1].counter = c + (i + 1) - k - 1
    BY <2>1 DEF Counting
  <2> QED
    BY <1>1, <2>2
<1>4. Counting(t, 0, c + 1 - k)
  BY <1>3 DEF Counting
<1>5. (c + 1 - k) + Len(t) - 0 = c + Len(s) - k
  BY <1>1, <1>2
<1> QED
  BY <1>1, <1>2, <1>4, <1>5 DEF t

LEMMA CountingAdds ==
  ASSUME NEW S, NEW s \in Seq(S), NEW k \in {0, 1}, NEW c \in Int, Counting(s, k, c),
         NEW n \in Int, n = c + Len(s) - k
  PROVE  /\ Counting(s \o <<Sealed(n)>>, k, c)
         /\ Len(s) \in Nat /\ Len(s \o <<Sealed(n)>>) = Len(s) + 1
         /\ c + Len(s \o <<Sealed(n)>>) - k = n + 1
         /\ s # <<>> => (s \o <<Sealed(n)>>)[1] = s[1]
<1> DEFINE f == Sealed(n)
           t == s \o <<f>>
<1>1. Len(s) \in Nat /\ Len(t) = Len(s) + 1
      /\ \A i \in 1..Len(s) + 1 : t[i] = IF i <= Len(s) THEN s[i] ELSE f
  OBVIOUS
<1>2. f.kind = "sealed" /\ f.counter = n
  BY DEF Sealed
<1> HIDE DEF t, f
<1>3. ASSUME NEW i \in k + 1 .. Len(t)
      PROVE  t[i].kind = "sealed" /\ t[i].counter = c + i - k - 1
  <2>1. i \in 1..Len(s) + 1
    BY <1>1
  <2>2. CASE i <= Len(s)
    <3>1. t[i] = s[i]
      BY <1>1, <2>1, <2>2
    <3>2. i \in k + 1 .. Len(s)
      BY <1>1, <2>2
    <3> QED
      BY <3>1, <3>2 DEF Counting
  <2>3. CASE ~(i <= Len(s))
    <3>1. t[i] = f
      BY <1>1, <2>1, <2>3
    <3>2. i = Len(s) + 1 /\ n = c + i - k - 1
      BY <1>1, <2>1, <2>3
    <3> QED
      BY <1>2, <3>1, <3>2
  <2> QED
    BY <2>2, <2>3
<1>4. s # <<>> => t[1] = s[1]
  BY <1>1, EmptySeq
<1>5. c + Len(t) - k = n + 1
  BY <1>1
<1> QED
  BY <1>1, <1>3, <1>4, <1>5 DEF Counting, t, f

LEMMA CutShort ==
  ASSUME NEW S, NEW s \in Seq(S), NEW n \in 0..Len(s)
  PROVE  /\ SubSeq(s, 1, n) \in Seq(S) /\ Len(SubSeq(s, 1, n)) = n
         /\ n <= Len(s) /\ Len(s) \in Nat
         /\ \A i \in 1..n : SubSeq(s, 1, n)[i] = s[i]
<1>1. Len(s) \in Nat
  OBVIOUS
<1>2. \A i \in 1..n : s[i] \in S
  BY ElementOfSeq
<1> QED
  BY <1>1, <1>2, SubSeqProperties

LEMMA SidesAre ==
  /\ "client" \in Sides /\ "relay" \in Sides
  /\ Peer("client") = "relay" /\ Peer("relay") = "client"
  /\ \A x \in Sides : x = "client" \/ x = "relay"
BY DEF Sides, Peer

LEMMA Kinds ==
  ASSUME HandshakeInv
  PROVE  /\ \A y \in Sides : /\ inbox[y] \in Seq(Frames) /\ Len(inbox[y]) \in Nat
                             /\ local[y] \in Nat /\ remote[y] \in Nat
                             /\ inbox[y] = <<>> <=> Len(inbox[y]) = 0
         /\ phase["client"] \in ClientPhases /\ phase["relay"] \in RelayPhases
<1>1. \A y \in Sides : Expected(y) \subseteq Frames /\ inbox[y] \in Seq(Expected(y))
  BY DEF HandshakeInv, Inboxes, Expected, Sent
<1>2. \A y \in Sides : inbox[y] \in Seq(Frames)
  BY <1>1, SeqGrows
<1>3. \A y \in Sides : Len(inbox[y]) \in Nat /\ (inbox[y] = <<>> <=> Len(inbox[y]) = 0)
  BY <1>2, EmptySeq
<1>4. \A y \in Sides : local[y] \in Nat /\ remote[y] \in Nat
  BY Bound DEF HandshakeInv, Types
<1> QED
  BY <1>2, <1>3, <1>4 DEF HandshakeInv, Types

(* What a handler that goes on leaves as it was.                             *)
LEMMA WhatGoesOn ==
  ASSUME HandshakeInv, NEW x \in Sides, NEW p, NEW read \in BOOLEAN, NEW out,
         GoesOn(x, p, read, out), UNCHANGED socket
  PROVE  /\ phase'[x] = p /\ phase'[Peer(x)] = phase[Peer(x)]
         /\ read => inbox'[x] = Tail(inbox[x])
         /\ ~read => inbox'[x] = inbox[x]
         /\ Carries(x) => inbox'[Peer(x)] = inbox[Peer(x)] \o out
         /\ ~Carries(x) => inbox'[Peer(x)] = inbox[Peer(x)]
         /\ UNCHANGED <<setup, socket>>
         /\ \A y \in Sides : Carries(y)' <=> Carries(y)
<1>1. /\ phase' = [phase EXCEPT ![x] = p]
      /\ inbox' = [inbox EXCEPT ![x] = IF read THEN Tail(@) ELSE @,
                                ![Peer(x)] = @ \o IF Carries(x) THEN out ELSE <<>>]
      /\ UNCHANGED <<setup, aborted, silent>>
  BY DEF GoesOn, Goes
<1>2. phase'[x] = p /\ phase'[Peer(x)] = phase[Peer(x)]
  BY <1>1, PeersDiffer DEF HandshakeInv, Types
<1>3. DOMAIN inbox = Sides /\ inbox[Peer(x)] \in Seq(Frames)
  BY Kinds, PeersDiffer DEF HandshakeInv, Inboxes
<1>4. inbox[Peer(x)] \o <<>> = inbox[Peer(x)]
  BY <1>3
<1>5. inbox'[x] = IF read THEN Tail(inbox[x]) ELSE inbox[x]
  BY <1>1, <1>3, PeersDiffer
<1>6. inbox'[Peer(x)] = inbox[Peer(x)] \o IF Carries(x) THEN out ELSE <<>>
  BY <1>1, <1>3, PeersDiffer
<1>7. \A y \in Sides : Carries(y)' <=> Carries(y)
  BY <1>1 DEF Carries, Reaches
<1> QED
  BY <1>1, <1>2, <1>4, <1>5, <1>6, <1>7

LEMMA WhatReads ==
  ASSUME HandshakeInv, NEW x \in Sides, NEW p, GoesOn(x, p, TRUE, <<>>), UNCHANGED socket
  PROVE  /\ phase'[x] = p /\ phase'[Peer(x)] = phase[Peer(x)]
         /\ inbox'[x] = Tail(inbox[x]) /\ inbox'[Peer(x)] = inbox[Peer(x)]
         /\ UNCHANGED <<setup, socket>>
         /\ \A y \in Sides : Carries(y)' <=> Carries(y)
<1> DEFINE none == <<>>
<1>1. inbox[Peer(x)] \o none = inbox[Peer(x)]
  BY Kinds, PeersDiffer
<1>2. GoesOn(x, p, TRUE, none) /\ TRUE \in BOOLEAN
  OBVIOUS
<1> HIDE DEF none
<1>3. /\ phase'[x] = p /\ phase'[Peer(x)] = phase[Peer(x)]
      /\ inbox'[x] = Tail(inbox[x])
      /\ inbox'[Peer(x)] = IF Carries(x) THEN inbox[Peer(x)] \o none ELSE inbox[Peer(x)]
      /\ UNCHANGED <<setup, socket>>
      /\ \A y \in Sides : Carries(y)' <=> Carries(y)
  <2>1. UNCHANGED <<setup, socket>> /\ \A y \in Sides : Carries(y)' <=> Carries(y)
    BY <1>2, WhatGoesOn, Zenon
  <2>2. phase'[x] = p /\ phase'[Peer(x)] = phase[Peer(x)] /\ inbox'[x] = Tail(inbox[x])
    BY <1>2, WhatGoesOn, Zenon
  <2>3. inbox'[Peer(x)] = IF Carries(x) THEN inbox[Peer(x)] \o none ELSE inbox[Peer(x)]
    <3>1. Carries(x) => inbox'[Peer(x)] = inbox[Peer(x)] \o none
      BY <1>2, WhatGoesOn, Zenon
    <3>2. ~Carries(x) => inbox'[Peer(x)] = inbox[Peer(x)]
      BY <1>2, WhatGoesOn, Zenon
    <3> QED
      BY <3>1, <3>2
  <2> QED
    BY <2>1, <2>2, <2>3
<1> QED
  BY <1>1, <1>3

LEMMA WhatSays ==
  ASSUME HandshakeInv, NEW x \in Sides, NEW p, NEW out, GoesOn(x, p, FALSE, out), UNCHANGED socket
  PROVE  /\ phase'[x] = p /\ phase'[Peer(x)] = phase[Peer(x)]
         /\ inbox'[x] = inbox[x]
         /\ inbox'[Peer(x)] = IF Carries(x) THEN inbox[Peer(x)] \o out ELSE inbox[Peer(x)]
         /\ UNCHANGED <<setup, socket>>
         /\ \A y \in Sides : Carries(y)' <=> Carries(y)
<1>1. FALSE \in BOOLEAN
  OBVIOUS
<1>2. UNCHANGED <<setup, socket>> /\ \A y \in Sides : Carries(y)' <=> Carries(y)
  BY <1>1, WhatGoesOn, Zenon
<1>3. phase'[x] = p /\ phase'[Peer(x)] = phase[Peer(x)] /\ inbox'[x] = inbox[x]
  BY <1>1, WhatGoesOn, Zenon
<1>4. Carries(x) => inbox'[Peer(x)] = inbox[Peer(x)] \o out
  BY <1>1, WhatGoesOn, Zenon
<1>5. ~Carries(x) => inbox'[Peer(x)] = inbox[Peer(x)]
  BY <1>1, WhatGoesOn, Zenon
<1> QED
  BY <1>2, <1>3, <1>4, <1>5

LEMMA WholeOrNone ==
  ASSUME HandshakeInv, NEW y \in Sides
  PROVE  \A t \in {inbox[y], <<>>} : \E n \in 0..Len(inbox[y]) : t = SubSeq(inbox[y], 1, n)
<1>1. inbox[y] \in Seq(Frames) /\ Len(inbox[y]) \in Nat
  BY Kinds
<1>2. SubSeq(inbox[y], 1, 0) = <<>> /\ 0 \in 0..Len(inbox[y])
  BY <1>1
<1>3. SubSeq(inbox[y], 1, Len(inbox[y])) = inbox[y] /\ Len(inbox[y]) \in 0..Len(inbox[y])
  BY <1>1
<1> QED
  BY <1>2, <1>3

(* A side leaves, a queue is emptied, the last frames are lost: no side goes *)
(* on, and where something was lost nothing more is carried.                 *)
LEMMA LossKeeps ==
  ASSUME HandshakeInv, StreamInv,
         UNCHANGED <<setup, local, remote>>,
         phase'["client"] \in {phase["client"], "gone"},
         phase'["relay"] \in {phase["relay"], "gone"},
         \A y \in Sides : phase'[y] = "gone" => socket'[y] = "closed",
         \A y \in Sides : Carries(y)' => Carries(y),
         \A y \in Sides : inbox'[y] = inbox[y] \/ ~Carries(Peer(y))',
         \A y \in Sides : \E n \in 0..Len(inbox[y]) : inbox'[y] = SubSeq(inbox[y], 1, n)
  PROVE  StreamInv'
<1>1. \A y \in Sides : /\ inbox'[y] \in Seq(Frames)
                       /\ Len(inbox'[y]) \in 0..Len(inbox[y]) /\ Len(inbox[y]) \in Nat
                       /\ inbox[y] = <<>> => inbox'[y] = <<>>
                       /\ \A i \in 1..Len(inbox'[y]) : inbox'[y][i] = inbox[y][i]
  <2> SUFFICES ASSUME NEW y \in Sides
               PROVE  /\ inbox'[y] \in Seq(Frames)
                      /\ Len(inbox'[y]) \in 0..Len(inbox[y]) /\ Len(inbox[y]) \in Nat
                      /\ inbox[y] = <<>> => inbox'[y] = <<>>
                      /\ \A i \in 1..Len(inbox'[y]) : inbox'[y][i] = inbox[y][i]
    OBVIOUS
  <2>1. PICK n \in 0..Len(inbox[y]) : inbox'[y] = SubSeq(inbox[y], 1, n)
    OBVIOUS
  <2>2. inbox[y] \in Seq(Frames) /\ Len(inbox[y]) \in Nat
    BY Kinds
  <2>3. /\ inbox'[y] \in Seq(Frames) /\ Len(inbox'[y]) = n
        /\ \A i \in 1..n : inbox'[y][i] = inbox[y][i]
    BY <2>1, <2>2, CutShort
  <2>4. inbox[y] = <<>> => inbox'[y] = <<>>
    BY <2>1, <2>2, <2>3, EmptySeq
  <2> QED
    BY <2>2, <2>3, <2>4
<1>2. \A kinds : \A y \in Sides : Alone(y, kinds) => Alone(y, kinds)'
  BY <1>1 DEF Alone
<1>3. ASSUME NEW y \in Sides, NEW k \in {0, 1}, NEW c \in Int, Flows(y, k, c)
      PROVE  Flows(y, k, c)'
  <2>1. Counting(inbox'[y], k, c)
    <3> SUFFICES ASSUME NEW i \in k + 1 .. Len(inbox'[y])
                 PROVE  /\ inbox'[y][i].kind = "sealed"
                        /\ inbox'[y][i].counter = c + i - k - 1
      BY DEF Counting
    <3>1. i \in 1..Len(inbox'[y]) /\ i \in k + 1 .. Len(inbox[y])
      BY <1>1
    <3>2. inbox'[y][i] = inbox[y][i]
      BY <1>1, <3>1
    <3> QED
      BY <1>3, <3>1, <3>2 DEF Flows, Counting
  <2>2. local'[Peer(y)] = local[Peer(y)] /\ local[Peer(y)] \in Nat
    BY PeersDiffer, Kinds
  <2>3. c + Len(inbox'[y]) - k <= local'[Peer(y)]
    BY <1>1, <1>3, <2>2 DEF Flows
  <2>4. Carries(Peer(y))' => c + Len(inbox'[y]) - k = local'[Peer(y)]
    BY <1>3, <2>2, PeersDiffer DEF Flows
  <2> QED
    BY <2>1, <2>3, <2>4 DEF Flows
<1>4. remote["relay"] \in Nat /\ remote["client"] \in Nat /\ local["relay"] \in Nat
  BY Kinds, SidesAre
<1>5. \A y \in Sides : phase'[y] = "gone" => ~Carries(y)'
  BY DEF Carries
<1>6. InStep'
  BY SidesAre DEF StreamInv, InStep
<1>7. ToRelay'
  <2>1. phase'["client"] = "opening" => inbox'["relay"] = <<>>
    BY <1>1, SidesAre DEF StreamInv, ToRelay
  <2>2. phase'["relay"] \in {"opening", "hello"} => Alone("relay", {"hello"})'
    BY <1>2, SidesAre DEF StreamInv, ToRelay
  <2>3. phase'["relay"] \in {"lookup", "pointless"} => inbox'["relay"] = <<>>
    BY <1>1, SidesAre DEF StreamInv, ToRelay
  <2>4. ASSUME phase'["relay"] \in {"solution", "verifying", "session"}
        PROVE  Flows("relay", 0, remote["relay"] + InHand)'
    <3>1. phase'["relay"] = phase["relay"] /\ InHand' = InHand /\ InHand \in {0, 1}
      BY <2>4 DEF InHand
    <3> DEFINE c == remote["relay"] + InHand
    <3>2. Flows("relay", 0, c) /\ c \in Int
      BY <1>4, <2>4, <3>1 DEF StreamInv, ToRelay
    <3>3. c' = c
      BY <3>1
    <3> HIDE DEF c
    <3>4. Flows("relay", 0, c)'
      BY <1>3, <3>2, <3>3, SidesAre DEF Flows
    <3> QED
      BY <3>4 DEF c
  <2> QED
    BY <2>1, <2>2, <2>3, <2>4 DEF ToRelay
<1>8. ToClient'
  <2>1. phase'["client"] \in {"opening", "solving"} => inbox'["client"] = <<>>
    BY <1>1, SidesAre DEF StreamInv, ToClient
  <2>2. Opened => Opened'
    BY SidesAre DEF Opened
  <2>3. ASSUME phase'["client"] = "challenge"
        PROVE  /\ Alone("client", {"challenge", "verdict"})'
               /\ phase'["relay"] \in {"opening", "hello", "lookup"} => inbox'["client"] = <<>>
               /\ \A i \in 1..Len(inbox'["client"]) :
                    inbox'["client"][i].kind = "challenge" /\ inbox'["client"][i].opens => Opened'
    <3>1. phase["client"] = "challenge"
      BY <2>3
    <3>2. /\ Alone("client", {"challenge", "verdict"})
          /\ phase["relay"] \in {"opening", "hello", "lookup"} => inbox["client"] = <<>>
          /\ \A i \in 1..Len(inbox["client"]) :
                inbox["client"][i].kind = "challenge" /\ inbox["client"][i].opens => Opened
      BY <3>1 DEF StreamInv, ToClient
    <3>3. ASSUME NEW i \in 1..Len(inbox'["client"]),
                 inbox'["client"][i].kind = "challenge", inbox'["client"][i].opens
          PROVE  Opened'
      <4>1. i \in 1..Len(inbox["client"]) /\ inbox'["client"][i] = inbox["client"][i]
        BY <1>1, SidesAre
      <4> QED
        BY <2>2, <3>2, <3>3, <4>1
    <3> QED
      BY <1>1, <1>2, <3>2, <3>3, SidesAre
  <2>4. phase'["client"] = "solving" => Opened' /\ remote'["client"] = local'["relay"]
    BY <2>2 DEF StreamInv, ToClient
  <2> DEFINE c == remote["client"]
  <2>5. c' = c /\ c \in Int
    BY <1>4
  <2>6. ASSUME phase'["client"] = "verdict"
        PROVE  IF phase'["relay"] \in {"solution", "verifying"}
               THEN inbox'["client"] = <<>> /\ remote'["client"] = local'["relay"]
               ELSE /\ remote'["client"] <= local'["relay"]
                    /\ inbox'["client"] # <<>> => inbox'["client"][1].kind = "verdict"
                    /\ Flows("client", 1, remote["client"])'
    <3>1. CASE phase["relay"] \in {"solution", "verifying"}
      <4>1. inbox["client"] = <<>> /\ remote["client"] = local["relay"]
        BY <2>6, <3>1 DEF StreamInv, ToClient
      <4>2. inbox'["client"] = <<>> /\ remote'["client"] = local'["relay"] /\ local'["relay"] \in Nat
        BY <1>1, <1>4, <4>1, SidesAre
      <4>3. CASE phase'["relay"] \in {"solution", "verifying"}
        BY <4>2, <4>3
      <4>4. CASE phase'["relay"] = "gone"
        <5>1. Counting(inbox'["client"], 1, remote'["client"]) /\ Len(inbox'["client"]) = 0
          BY <4>2 DEF Counting
        <5>2. ~Carries("relay")'
          BY <1>5, <4>4, SidesAre
        <5>3. Flows("client", 1, remote["client"])'
          BY <4>2, <5>1, <5>2, SidesAre DEF Flows
        <5>4. remote'["client"] <= local'["relay"]
          BY <4>2
        <5> QED
          BY <4>2, <4>4, <5>3, <5>4
      <4> QED
        BY <3>1, <4>3, <4>4
    <3>2. CASE phase["relay"] \notin {"solution", "verifying"}
      <4>1. /\ c <= local["relay"]
            /\ inbox["client"] # <<>> => inbox["client"][1].kind = "verdict"
            /\ Flows("client", 1, c)
        BY <2>6, <3>2 DEF StreamInv, ToClient
      <4>2. phase'["relay"] \notin {"solution", "verifying"}
        BY <3>2
      <4>3. inbox'["client"] # <<>> => inbox'["client"][1].kind = "verdict"
        <5>1. inbox'["client"] # <<>> => 1 \in 1..Len(inbox'["client"]) /\ inbox["client"] # <<>>
          BY <1>1, SidesAre, EmptySeq
        <5> QED
          BY <1>1, <4>1, <5>1, SidesAre
      <4> HIDE DEF c
      <4>4. Flows("client", 1, c)'
        BY <1>3, <2>5, <4>1, SidesAre DEF Flows
      <4> USE DEF c
      <4>5. Flows("client", 1, remote["client"])'
        BY <4>4
      <4>6. remote'["client"] <= local'["relay"]
        BY <4>1
      <4> QED
        BY <4>2, <4>3, <4>5, <4>6
    <3> QED
      BY <3>1, <3>2
  <2>7. ASSUME phase'["client"] = "session"
        PROVE  Flows("client", 0, remote["client"])'
    <3>1. Flows("client", 0, c)
      BY <2>7 DEF StreamInv, ToClient
    <3> HIDE DEF c
    <3>2. Flows("client", 0, c)'
      BY <1>3, <2>5, <3>1, SidesAre DEF Flows
    <3> QED
      BY <3>2 DEF c
  <2> QED
    BY <2>1, <2>3, <2>4, <2>6, <2>7 DEF ToClient
<1> QED
  BY <1>6, <1>7, <1>8 DEF StreamInv

LEMMA WhatEnds ==
  ASSUME HandshakeInv, StreamInv, NEW x \in Sides, NEW out, Ends(x, out)
  PROVE  /\ phase'[x] = "gone" /\ phase'[Peer(x)] = phase[Peer(x)]
         /\ inbox'[x] = <<>>
         /\ inbox'[Peer(x)] = IF Carries(x) THEN inbox[Peer(x)] \o out ELSE inbox[Peer(x)]
         /\ socket'[x] = "closed" /\ socket'[Peer(x)] = socket[Peer(x)]
         /\ UNCHANGED setup
         /\ \A y \in Sides : ~Carries(y)'
         /\ \A y \in Sides : phase'[y] = "gone" => socket'[y] = "closed"
<1>1. /\ phase' = [phase EXCEPT ![x] = "gone"]
      /\ inbox' = [inbox EXCEPT ![x] = <<>>, ![Peer(x)] = @ \o IF Carries(x) THEN out ELSE <<>>]
      /\ socket' = [socket EXCEPT ![x] = "closed"]
      /\ UNCHANGED <<setup, aborted, silent>>
  BY DEF Ends, Goes, HangUp
<1>2. /\ phase'[x] = "gone" /\ phase'[Peer(x)] = phase[Peer(x)]
      /\ socket'[x] = "closed" /\ socket'[Peer(x)] = socket[Peer(x)]
  BY <1>1, PeersDiffer DEF HandshakeInv, Types
<1>3. DOMAIN inbox = Sides /\ inbox[Peer(x)] \o <<>> = inbox[Peer(x)]
  BY Kinds, PeersDiffer DEF HandshakeInv, Inboxes
<1>4. inbox'[x] = <<>> /\ inbox'[Peer(x)] = inbox[Peer(x)] \o IF Carries(x) THEN out ELSE <<>>
  BY <1>1, <1>3, PeersDiffer
<1>5. \A y \in Sides : ~Carries(y)'
  BY <1>2, SidesAre DEF Carries, Reaches
<1>6. \A y \in Sides : phase'[y] = "gone" => socket'[y] = "closed"
  BY <1>2, PeersDiffer DEF StreamInv, InStep
<1> QED
  BY <1>1, <1>2, <1>3, <1>4, <1>5, <1>6

LEMMA LeavingLoses ==
  ASSUME HandshakeInv, StreamInv, NEW x \in Sides, Ends(x, <<>>), UNCHANGED counters
  PROVE  StreamInv'
<1>1. /\ phase'[x] = "gone" /\ phase'[Peer(x)] = phase[Peer(x)]
      /\ inbox'[x] = <<>> /\ inbox'[Peer(x)] = inbox[Peer(x)]
      /\ UNCHANGED setup
      /\ \A y \in Sides : ~Carries(y)'
      /\ \A y \in Sides : phase'[y] = "gone" => socket'[y] = "closed"
  <2>1. inbox[Peer(x)] \o <<>> = inbox[Peer(x)]
    BY Kinds, PeersDiffer
  <2> QED
    BY <2>1, WhatEnds
<1>2. phase'["client"] \in {phase["client"], "gone"} /\ phase'["relay"] \in {phase["relay"], "gone"}
  BY <1>1, SidesAre
<1>3. \A y \in Sides : inbox'[y] = inbox[y] \/ ~Carries(Peer(y))'
  BY <1>1, PeersDiffer
<1>4. \A y \in Sides : \E n \in 0..Len(inbox[y]) : inbox'[y] = SubSeq(inbox[y], 1, n)
  <2>1. \A y \in Sides : inbox'[y] \in {inbox[y], <<>>}
    BY <1>1, PeersDiffer
  <2> QED
    BY <2>1, WholeOrNone
<1>5. UNCHANGED <<setup, local, remote>>
  BY <1>1 DEF counters
<1>6. \A y \in Sides : Carries(y)' => Carries(y)
  BY <1>1
<1> QED
  BY <1>1, <1>2, <1>3, <1>4, <1>5, <1>6, LossKeeps

LEMMA TransportLoses ==
  ASSUME HandshakeInv, StreamInv, NEW x \in Sides,
         SocketCloses(x) \/ SignalAborts(x) \/ FallsSilent
  PROVE  StreamInv'
<1>1. UNCHANGED <<setup, phase, local, remote>>
  BY DEF SocketCloses, SignalAborts, FallsSilent, counters
<1>2. \A y \in Sides : socket[y] = "closed" => socket'[y] = "closed"
  BY DEF SocketCloses, SignalAborts, FallsSilent, HandshakeInv, Types
<1>3. \A y \in Sides : phase'[y] = "gone" => socket'[y] = "closed"
  BY <1>1, <1>2 DEF StreamInv, InStep
<1>4. phase'["client"] \in {phase["client"], "gone"} /\ phase'["relay"] \in {phase["relay"], "gone"}
  BY <1>1
<1>5. CASE SocketCloses(x) \/ SignalAborts(x)
  <2>1. /\ inbox' = [inbox EXCEPT ![x] = <<>>] /\ aborted' = [aborted EXCEPT ![x] = TRUE]
        /\ silent' = silent
    BY <1>5 DEF SocketCloses, SignalAborts
  <2>2. socket' = [socket EXCEPT ![x] = "closed"] \/ socket' = socket
    BY <1>5 DEF SocketCloses, SignalAborts
  <2>3. inbox'[x] = <<>> /\ inbox'[Peer(x)] = inbox[Peer(x)] /\ aborted'[x] /\ Peer(Peer(x)) = x
    BY <2>1, PeersDiffer, SidesAre DEF HandshakeInv, Inboxes, Types
  <2>4. \A y \in Sides : Carries(y)' => Carries(y)
    <3> SUFFICES ASSUME NEW y \in Sides, Carries(y)'
                 PROVE  Carries(y)
      OBVIOUS
    <3>1. Peer(y) \in Sides
      BY PeersDiffer
    <3>2. socket'[y] = "open" /\ ~silent' /\ socket'[Peer(y)] # "closed" /\ ~aborted'[Peer(y)]
      BY DEF Carries, Reaches
    <3>3. socket[y] = "open" /\ socket[Peer(y)] # "closed"
      BY <2>2, <3>1, <3>2 DEF HandshakeInv, Types
    <3>4. ~aborted[Peer(y)]
      BY <2>1, <3>1, <3>2 DEF HandshakeInv, Types
    <3> QED
      BY <2>1, <3>2, <3>3, <3>4 DEF Carries, Reaches
  <2>5. ~Carries(Peer(x))'
    BY <2>3 DEF Carries, Reaches
  <2>6. \A y \in Sides : inbox'[y] = inbox[y] \/ ~Carries(Peer(y))'
    BY <2>3, <2>5, PeersDiffer
  <2>7. \A y \in Sides : \E n \in 0..Len(inbox[y]) : inbox'[y] = SubSeq(inbox[y], 1, n)
    <3>1. \A y \in Sides : inbox'[y] \in {inbox[y], <<>>}
      BY <2>3, PeersDiffer
    <3> QED
      BY <3>1, WholeOrNone
  <2> QED
    BY <1>1, <1>3, <1>4, <2>4, <2>6, <2>7, LossKeeps
<1>6. CASE FallsSilent
  <2>1. PICK n \in 0..Len(inbox["client"]), m \in 0..Len(inbox["relay"]) :
          inbox' = [client |-> SubSeq(inbox["client"], 1, n), relay |-> SubSeq(inbox["relay"], 1, m)]
    BY <1>6 DEF FallsSilent
  <2>2. \A y \in Sides : \E i \in 0..Len(inbox[y]) : inbox'[y] = SubSeq(inbox[y], 1, i)
    <3>1. inbox'["client"] = SubSeq(inbox["client"], 1, n) /\ inbox'["relay"] = SubSeq(inbox["relay"], 1, m)
      BY <2>1
    <3>2. \E i \in 0..Len(inbox["client"]) : inbox'["client"] = SubSeq(inbox["client"], 1, i)
      BY <3>1, Zenon
    <3>3. \E i \in 0..Len(inbox["relay"]) : inbox'["relay"] = SubSeq(inbox["relay"], 1, i)
      BY <3>1, Zenon
    <3> QED
      BY <3>2, <3>3, SidesAre
  <2>3. silent'
    BY <1>6 DEF FallsSilent
  <2>4. \A y \in Sides : ~Carries(y)'
    BY <2>3, Zenon DEF Carries, Reaches
  <2>5. \A y \in Sides : (inbox'[y] = inbox[y] \/ ~Carries(Peer(y))') /\ (Carries(y)' => Carries(y))
    BY <2>4, PeersDiffer
  <2> QED
    BY <1>1, <1>3, <1>4, <2>2, <2>5, LossKeeps
<1> QED
  BY <1>5, <1>6

(* The client.                                                               *)

LEMMA ClientOpensFlows ==
  ASSUME HandshakeInv, StreamInv, ClientOpens
  PROVE  StreamInv'
<1> DEFINE hello == Hello(Version("client"), setup.mode)
<1>1. /\ phase["client"] = "opening" /\ phase' = [phase EXCEPT !["client"] = "challenge"]
      /\ socket' = [socket EXCEPT !["client"] = "open"]
      /\ inbox' = [inbox EXCEPT !["relay"] = @ \o IF Reaches("relay") THEN <<hello>> ELSE <<>>]
  BY DEF ClientOpens, Goes
<1>2. /\ phase'["client"] = "challenge" /\ phase'["relay"] = phase["relay"]
      /\ socket'["relay"] = socket["relay"]
  BY <1>1, SidesAre DEF HandshakeInv, Types
<1>3. /\ phase["relay"] \in {"opening", "hello", "gone"}
      /\ inbox["client"] = <<>> /\ inbox["relay"] = <<>>
  BY <1>1 DEF StreamInv, InStep, ToRelay, ToClient
<1>4. inbox'["client"] = <<>> /\ inbox'["relay"] \in {<<>>, <<hello>>}
  <2>1. inbox'["client"] = inbox["client"]
    BY <1>1 DEF HandshakeInv, Inboxes, Sides
  <2>2. inbox'["relay"] = <<>> \o IF Reaches("relay") THEN <<hello>> ELSE <<>>
    BY <1>1, <1>3 DEF HandshakeInv, Inboxes, Sides
  <2> QED
    BY <1>3, <2>1, <2>2
<1>5. Alone("relay", {"hello"})' /\ Alone("client", {"challenge", "verdict"})'
  <2>1. hello.kind = "hello"
    BY DEF Hello
  <2> HIDE DEF hello
  <2>2. Len(<<>>) = 0 /\ Len(<<hello>>) = 1 /\ <<hello>>[1] = hello
    OBVIOUS
  <2>3. Alone("client", {"challenge", "verdict"})'
    BY <1>4, <2>2 DEF Alone
  <2>4. CASE inbox'["relay"] = <<>>
    BY <2>2, <2>3, <2>4 DEF Alone
  <2>5. CASE inbox'["relay"] = <<hello>>
    <3>1. Len(inbox'["relay"]) = 1 /\ inbox'["relay"][1].kind = "hello"
      BY <2>1, <2>2, <2>5
    <3>2. Alone("relay", {"hello"})'
      BY <3>1 DEF Alone
    <3> QED
      BY <2>3, <3>2
  <2> QED
    BY <1>4, <2>4, <2>5
<1>6. InStep'
  BY <1>2, <1>3, SidesAre DEF StreamInv, InStep
<1>7. ToRelay'
  BY <1>2, <1>3, <1>5 DEF ToRelay
<1>8. ToClient'
  BY <1>2, <1>4, <1>5 DEF ToClient
<1> QED
  BY <1>6, <1>7, <1>8 DEF StreamInv

(* One is read, one is encrypted.                                            *)
LEMMA FlowReads ==
  ASSUME HandshakeInv, NEW y \in Sides, NEW k \in {0, 1}, NEW c \in Int, Flows(y, k, c),
         inbox[y] # <<>>, inbox'[y] = Tail(inbox[y]),
         local'[Peer(y)] = local[Peer(y)], Carries(Peer(y))' <=> Carries(Peer(y)),
         NEW d \in Int, d = c + 1 - k
  PROVE  Flows(y, 0, d)'
<1>1. inbox[y] \in Seq(Frames) /\ Counting(inbox[y], k, c)
  BY Kinds DEF Flows
<1>2. Counting(Tail(inbox[y]), 0, d) /\ d + Len(Tail(inbox[y])) - 0 = c + Len(inbox[y]) - k
  BY <1>1, CountingReads
<1>3. Counting(inbox'[y], 0, d) /\ d + Len(inbox'[y]) - 0 = c + Len(inbox[y]) - k
  BY <1>2
<1> QED
  BY <1>3 DEF Flows

LEMMA FlowSays ==
  ASSUME HandshakeInv, NEW y \in Sides, NEW k \in {0, 1}, NEW c \in Int, Flows(y, k, c),
         inbox'[y] = IF Carries(Peer(y)) THEN inbox[y] \o <<Sealed(local[Peer(y)])>> ELSE inbox[y],
         local'[Peer(y)] = local[Peer(y)] + 1, Carries(Peer(y))' <=> Carries(Peer(y))
  PROVE  /\ Flows(y, k, c)'
         /\ inbox[y] # <<>> => inbox'[y][1] = inbox[y][1]
<1> DEFINE n == local[Peer(y)]
           s == inbox[y]
           t == s \o <<Sealed(n)>>
<1>1. /\ n \in Nat /\ s \in Seq(Frames) /\ Len(s) \in Nat
      /\ Counting(s, k, c) /\ c + Len(s) - k <= n
      /\ Carries(Peer(y)) => c + Len(s) - k = n
  BY Kinds, PeersDiffer DEF Flows
<1> HIDE DEF n, s
<1>2. n = c + Len(s) - k =>
        Counting(t, k, c) /\ c + Len(t) - k = n + 1 /\ (s # <<>> => t[1] = s[1])
  BY <1>1, CountingAdds
<1> HIDE DEF t
<1>3. CASE Carries(Peer(y))
  <2>1. inbox'[y] = t
    BY <1>3 DEF t, s, n
  <2>2. Counting(t, k, c) /\ c + Len(t) - k = n + 1 /\ (s # <<>> => t[1] = s[1])
    BY <1>1, <1>2, <1>3
  <2>3. Counting(inbox'[y], k, c) /\ c + Len(inbox'[y]) - k = n + 1
        /\ (s # <<>> => inbox'[y][1] = s[1])
    BY <2>1, <2>2, Zenon
  <2>4. local'[Peer(y)] = n + 1 /\ n + 1 \in Int
    BY <1>1 DEF n
  <2> QED
    BY <2>3, <2>4 DEF Flows, s
<1>4. CASE ~Carries(Peer(y))
  <2>1. inbox'[y] = s /\ local'[Peer(y)] = n + 1
    BY <1>4 DEF s, n
  <2>2. c + Len(s) - k <= n + 1
    BY <1>1
  <2> QED
    BY <1>1, <1>4, <2>1, <2>2 DEF Flows, s
<1> QED
  BY <1>3, <1>4

(* While the client does something else, nothing happens to what is on its   *)
(* way to the relay.                                                         *)
LEMMA ToRelayStays ==
  ASSUME HandshakeInv, StreamInv,
         inbox'["relay"] = inbox["relay"], phase'["relay"] = phase["relay"],
         phase'["client"] # "opening",
         local'["client"] = local["client"], remote'["relay"] = remote["relay"],
         Carries("client")' <=> Carries("client")
  PROVE  ToRelay'
<1>1. \A kinds : Alone("relay", kinds) => Alone("relay", kinds)'
  BY DEF Alone
<1>2. ASSUME phase'["relay"] \in {"solution", "verifying", "session"}
      PROVE  Flows("relay", 0, remote["relay"] + InHand)'
  <2>1. InHand' = InHand
    BY DEF InHand
  <2>2. Flows("relay", 0, remote["relay"] + InHand)
    BY <1>2 DEF StreamInv, ToRelay
  <2> QED
    BY <2>1, <2>2, SidesAre DEF Flows
<1> QED
  BY <1>1, <1>2 DEF StreamInv, ToRelay

LEMMA ClientReadsChallengeFlows ==
  ASSUME HandshakeInv, StreamInv, ClientReadsChallenge
  PROVE  StreamInv'
<1>1. /\ phase["client"] = "challenge" /\ inbox["client"] # <<>>
      /\ Frame("client").kind \in {"challenge", "verdict"}
  BY DEF ClientReadsChallenge, Finds, Frame
<1>2. CASE Ends("client", <<>>) /\ UNCHANGED counters
  BY <1>2, SidesAre, LeavingLoses
<1>3. CASE /\ Frame("client").mode = setup.mode /\ Frame("client").opens
           /\ GoesOn("client", "solving", TRUE, <<>>)
           /\ remote' = [remote EXCEPT !["client"] = @ + SealsChallenge(setup.mode)]
           /\ UNCHANGED <<local, solution, socket>>
  <2>1. Frame("client").kind = "challenge"
    <3>1. Frame("client") \in Frames /\ setup.mode \in Modes
      BY <1>1, SidesAre, HeadExpected DEF Sent, HandshakeInv, Types, Setups
    <3>2. Frame("client").kind = "verdict" => Frame("client").mode \in Verdicts
      BY <3>1 DEF Frames, Hello, Challenge, Verdict, Sealed
    <3> QED
      BY <1>1, <1>3, <3>1, <3>2 DEF Modes, Verdicts
  <2>2. /\ Len(inbox["client"]) = 1 /\ inbox["client"][1] = Frame("client")
        /\ inbox["client"] \in Seq(Frames)
    <3>1. Len(inbox["client"]) <= 1
      BY <1>1 DEF StreamInv, ToClient, Alone
    <3>2. Len(inbox["client"]) \in Nat \ {0} /\ inbox["client"] \in Seq(Frames)
      BY <1>1, Kinds, SidesAre
    <3>3. inbox["client"][1] = Frame("client")
      BY <1>1, <3>2 DEF Frame
    <3>4. \A m \in Nat \ {0} : m <= 1 => m = 1
      OBVIOUS
    <3>5. Len(inbox["client"]) = 1
      BY <3>1, <3>2, <3>4
    <3> QED
      BY <3>2, <3>3, <3>5
  <2>3. Opened
    BY <1>1, <1>3, <2>1, <2>2 DEF StreamInv, ToClient
  <2>4. /\ phase'["client"] = "solving" /\ phase'["relay"] = phase["relay"]
        /\ inbox'["client"] = Tail(inbox["client"])
        /\ inbox'["relay"] = inbox["relay"]
        /\ UNCHANGED <<setup, socket>>
        /\ \A y \in Sides : Carries(y)' <=> Carries(y)
    <3>1. GoesOn("client", "solving", TRUE, <<>>) /\ UNCHANGED socket
      BY <1>3
    <3> QED
      BY <3>1, SidesAre, WhatReads
  <2>5. inbox'["client"] = <<>>
    <3>1. Len(inbox'["client"]) = 0 /\ inbox'["client"] \in Seq(Frames)
      BY <1>1, <2>2, <2>4, HeadTailProperties
    <3> QED
      BY <3>1, EmptySeq
  <2>6. /\ local'["client"] = local["client"] /\ local'["relay"] = local["relay"]
        /\ remote'["relay"] = remote["relay"] /\ remote'["client"] = SealsChallenge(setup.mode)
    <3>1. remote["client"] = 0 /\ SealsChallenge(setup.mode) \in Int
      BY <1>1 DEF HandshakeInv, Counted, SealsChallenge
    <3> QED
      BY <1>3, <3>1 DEF HandshakeInv, Types, Sides
  <2>7. ToRelay'
    BY <2>4, <2>6, SidesAre, ToRelayStays
  <2>8. Opened'
    BY <2>3, <2>4, <2>6 DEF Opened
  <2>9. ToClient'
    BY <2>3, <2>4, <2>5, <2>6, <2>8 DEF ToClient, Opened
  <2>10. InStep'
    BY <2>3, <2>4, SidesAre DEF StreamInv, InStep, Opened
  <2> QED
    BY <2>7, <2>9, <2>10 DEF StreamInv
<1> QED
  BY <1>2, <1>3 DEF ClientReadsChallenge

(* The client encrypts one more.                                             *)
LEMMA ClientSays ==
  ASSUME HandshakeInv, StreamInv, phase["client"] \in {"solving", "session"},
         phase'["client"] # "opening", phase'["relay"] = phase["relay"],
         inbox'["relay"] = IF Carries("client") THEN inbox["relay"] \o <<Sealed(local["client"])>>
                                                ELSE inbox["relay"],
         local'["client"] = local["client"] + 1, remote'["relay"] = remote["relay"],
         Carries("client")' <=> Carries("client")
  PROVE  ToRelay'
<1>1. phase["relay"] \in {"solution", "verifying", "session", "gone"}
  BY DEF StreamInv, InStep, HandshakeInv, Entered, Approved
<1>2. ASSUME phase["relay"] \in {"solution", "verifying", "session"}
      PROVE  Flows("relay", 0, remote["relay"] + InHand)'
  <2> DEFINE c == remote["relay"] + InHand
  <2>1. c' = c /\ c \in Int
    BY Kinds, SidesAre DEF InHand
  <2>2. Flows("relay", 0, c)
    BY <1>2 DEF StreamInv, ToRelay
  <2> HIDE DEF c
  <2>3. Flows("relay", 0, c)'
    BY <2>1, <2>2, SidesAre, FlowSays DEF Flows
  <2> QED
    BY <2>3 DEF c
<1> QED
  BY <1>1, <1>2 DEF ToRelay

LEMMA ClientSolvesFlows ==
  ASSUME HandshakeInv, StreamInv, ClientSolves
  PROVE  StreamInv'
<1> DEFINE n == local["client"]
<1>1. /\ phase["client"] = "solving"
      /\ GoesOn("client", "verdict", FALSE, <<Sealed(n)>>)
      /\ local' = [local EXCEPT !["client"] = @ + 1]
      /\ UNCHANGED <<remote, solution, socket>>
  BY DEF ClientSolves
<1>2. /\ Opened /\ remote["client"] = local["relay"] /\ inbox["client"] = <<>>
      /\ n \in Nat /\ remote["relay"] \in Nat /\ local["relay"] \in Nat
  BY <1>1, Kinds, SidesAre DEF StreamInv, ToClient
<1>3. /\ phase'["client"] = "verdict" /\ phase'["relay"] = phase["relay"]
      /\ inbox'["client"] = inbox["client"]
      /\ inbox'["relay"] = IF Carries("client") THEN inbox["relay"] \o <<Sealed(n)>> ELSE inbox["relay"]
      /\ UNCHANGED <<setup, socket>>
      /\ \A y \in Sides : Carries(y)' <=> Carries(y)
  <2> DEFINE out == <<Sealed(n)>>
  <2>1. GoesOn("client", "verdict", FALSE, out) /\ UNCHANGED socket
    BY <1>1
  <2> HIDE DEF out
  <2>2. /\ phase'["client"] = "verdict" /\ phase'["relay"] = phase["relay"]
        /\ inbox'["client"] = inbox["client"]
        /\ inbox'["relay"] = IF Carries("client") THEN inbox["relay"] \o out ELSE inbox["relay"]
        /\ UNCHANGED <<setup, socket>>
        /\ \A y \in Sides : Carries(y)' <=> Carries(y)
    BY <2>1, SidesAre, WhatSays
  <2> QED
    BY <2>2 DEF out
<1>4. /\ local'["client"] = n + 1 /\ local'["relay"] = local["relay"]
      /\ remote'["client"] = remote["client"] /\ remote'["relay"] = remote["relay"]
  BY <1>1 DEF HandshakeInv, Types, Sides
<1>5. ToRelay'
  <2>1. phase["client"] \in {"solving", "session"} /\ phase'["client"] # "opening"
    BY <1>1, <1>3
  <2> QED
    BY <1>3, <1>4, <2>1, SidesAre, ClientSays
<1>6. ToClient'
  <2>1. CASE phase["relay"] = "solution"
    BY <1>2, <1>3, <1>4, <2>1 DEF ToClient
  <2>2. CASE phase["relay"] = "gone"
    <3>1. ~Carries("relay")'
      BY <1>3, <2>2, SidesAre DEF StreamInv, InStep, Carries
    <3>2. Counting(inbox'["client"], 1, remote'["client"]) /\ Len(inbox'["client"]) = 0
      BY <1>2, <1>3 DEF Counting
    <3>3. Flows("client", 1, remote["client"])'
      BY <1>2, <1>4, <3>1, <3>2, SidesAre DEF Flows
    <3> QED
      BY <1>2, <1>3, <1>4, <2>2, <3>3 DEF ToClient
  <2> QED
    BY <1>2, <2>1, <2>2 DEF Opened
<1>7. InStep'
  BY <1>2, <1>3, SidesAre DEF StreamInv, InStep, Opened
<1> QED
  BY <1>5, <1>6, <1>7 DEF StreamInv

LEMMA ClientReadsVerdictFlows ==
  ASSUME HandshakeInv, StreamInv, ClientReadsVerdict
  PROVE  StreamInv'
<1>1. phase["client"] = "verdict" /\ inbox["client"] # <<>>
  BY DEF ClientReadsVerdict, Finds
<1>2. CASE Ends("client", <<>>) /\ UNCHANGED counters
  BY <1>2, SidesAre, LeavingLoses
<1>3. CASE GoesOn("client", "session", TRUE, <<>>) /\ UNCHANGED <<counters, solution, socket>>
  <2>1. /\ phase'["client"] = "session" /\ phase'["relay"] = phase["relay"]
        /\ inbox'["client"] = Tail(inbox["client"])
        /\ inbox'["relay"] = inbox["relay"]
        /\ UNCHANGED <<setup, socket>>
        /\ \A y \in Sides : Carries(y)' <=> Carries(y)
    <3>1. GoesOn("client", "session", TRUE, <<>>) /\ UNCHANGED socket
      BY <1>3
    <3> QED
      BY <3>1, SidesAre, WhatReads
  <2>2. local' = local /\ remote' = remote
    BY <1>3 DEF counters
  <2> DEFINE c == remote["client"]
  <2>3. Flows("client", 1, c) /\ c \in Int /\ local["relay"] \in Nat
    BY <1>1, Kinds, SidesAre DEF StreamInv, ToClient
  <2> HIDE DEF c
  <2>4. c = c + 1 - 1 /\ c' = c
    BY <2>2, <2>3 DEF c
  <2>5. local'["relay"] = local["relay"] /\ 1 \in {0, 1}
    BY <2>2
  <2>6. Flows("client", 0, c)'
    BY <1>1, <2>1, <2>3, <2>4, <2>5, SidesAre, FlowReads DEF Flows
  <2>7. Flows("client", 0, remote["client"])'
    BY <2>6 DEF c
  <2>8. ToRelay'
    BY <2>1, <2>2, SidesAre, ToRelayStays
  <2>9. ToClient'
    BY <2>1, <2>7 DEF ToClient
  <2>10. InStep'
    BY <2>1, SidesAre DEF StreamInv, InStep
  <2> QED
    BY <2>8, <2>9, <2>10 DEF StreamInv
<1> QED
  BY <1>2, <1>3 DEF ClientReadsVerdict

(* The relay.                                                                *)

LEMMA ToClientStays ==
  ASSUME HandshakeInv, StreamInv, UNCHANGED setup,
         inbox'["client"] = inbox["client"], phase'["client"] = phase["client"],
         phase'["relay"] = phase["relay"],
         local'["relay"] = local["relay"], remote'["client"] = remote["client"],
         Carries("relay")' <=> Carries("relay")
  PROVE  ToClient'
<1>1. \A kinds : Alone("client", kinds) => Alone("client", kinds)'
  BY DEF Alone
<1>2. Opened => Opened'
  BY DEF Opened
<1>3. Flows("client", 0, remote["client"]) => Flows("client", 0, remote["client"])'
  BY SidesAre DEF Flows
<1>4. Flows("client", 1, remote["client"]) => Flows("client", 1, remote["client"])'
  BY SidesAre DEF Flows
<1> QED
  BY <1>1, <1>2, <1>3, <1>4 DEF StreamInv, ToClient

(* Before the relay has answered nothing is on its way to the client, which  *)
(* waits.                                                                    *)
LEMMA Unanswered ==
  ASSUME HandshakeInv, StreamInv, phase["relay"] \in {"opening", "hello", "lookup"}
  PROVE  /\ phase["client"] \in {"opening", "challenge", "gone"}
         /\ phase["client"] # "gone" => inbox["client"] = <<>>
         /\ phase["client"] = "opening" => phase["relay"] # "lookup" /\ inbox["relay"] = <<>>
<1>1. phase["client"] \in ClientPhases
  BY Kinds
<1>2. phase["client"] # "session"
  BY DEF HandshakeInv, Entered, Approved
<1>3. phase["client"] \in {"opening", "challenge", "gone"}
  BY <1>1, <1>2 DEF ClientPhases, StreamInv, InStep
<1> QED
  BY <1>3 DEF StreamInv, InStep, ToRelay, ToClient

LEMMA RelayOpensFlows ==
  ASSUME HandshakeInv, StreamInv, RelayOpens
  PROVE  StreamInv'
<1>1. phase["relay"] = "opening"
  BY DEF RelayOpens
<1>2. CASE Ends("relay", <<>>) /\ UNCHANGED counters
  BY <1>2, SidesAre, LeavingLoses
<1>3. CASE /\ GoesOn("relay", "hello", FALSE, <<>>)
           /\ socket' = [socket EXCEPT !["relay"] = "open"]
           /\ UNCHANGED <<counters, solution>>
  <2>1. phase' = [phase EXCEPT !["relay"] = "hello"]
    BY <1>3 DEF GoesOn, Goes
  <2>2. /\ phase'["relay"] = "hello" /\ phase'["client"] = phase["client"]
        /\ socket'["client"] = socket["client"]
    BY <1>3, <2>1, SidesAre DEF HandshakeInv, Types
  <2>3. inbox'["relay"] = inbox["relay"] /\ inbox'["client"] = inbox["client"]
    <3>1. /\ inbox["client"] \o <<>> = inbox["client"]
          /\ DOMAIN inbox = Sides
      BY Kinds, SidesAre DEF HandshakeInv, Inboxes
    <3>2. inbox' = [inbox EXCEPT !["relay"] = @,
                                 !["client"] = @ \o IF Carries("relay") THEN <<>> ELSE <<>>]
      BY <1>3, SidesAre DEF GoesOn
    <3> QED
      BY <3>1, <3>2, SidesAre
  <2>4. /\ phase["client"] \in {"opening", "challenge", "gone"}
        /\ phase["client"] # "gone" => inbox["client"] = <<>>
        /\ phase["client"] = "opening" => inbox["relay"] = <<>>
    BY <1>1, Unanswered
  <2>5. Alone("relay", {"hello"})
    BY <1>1 DEF StreamInv, ToRelay
  <2>6. InStep'
    BY <2>2, <2>4, SidesAre DEF StreamInv, InStep
  <2>7. ToRelay'
    BY <2>2, <2>3, <2>4, <2>5 DEF ToRelay, Alone
  <2>8. ToClient'
    <3>1. phase["client"] # "gone" => inbox'["client"] = <<>> /\ Len(<<>>) = 0
      BY <2>3, <2>4
    <3> QED
      BY <2>2, <2>4, <3>1 DEF ToClient, Alone
  <2> QED
    BY <2>6, <2>7, <2>8 DEF StreamInv
<1> QED
  BY <1>2, <1>3 DEF RelayOpens

LEMMA RelayReadsHelloFlows ==
  ASSUME HandshakeInv, StreamInv, RelayReadsHello
  PROVE  StreamInv'
<1>1. phase["relay"] = "hello" /\ inbox["relay"] # <<>>
  BY DEF RelayReadsHello, Finds
<1>2. /\ phase["client"] \in {"challenge", "gone"}
      /\ phase["client"] # "gone" => inbox["client"] = <<>>
  BY <1>1, Unanswered
<1>3. CASE Ends("relay", <<>>) /\ UNCHANGED counters
  BY <1>3, SidesAre, LeavingLoses
<1>4. CASE Ends("relay", Verdicting("UNSUPPORTED_AUTH")) /\ UNCHANGED counters
  <2> DEFINE v == Verdict(Version("relay"), "UNSUPPORTED_AUTH")
             out == <<v>>
  <2>1. Ends("relay", out)
    BY <1>4 DEF Verdicting
  <2>2. v.kind = "verdict" /\ Len(out) = 1 /\ out[1] = v /\ <<>> \o out = out /\ Len(<<>>) = 0
    BY DEF Verdict
  <2> HIDE DEF v, out
  <2>3. /\ phase'["relay"] = "gone" /\ phase'["client"] = phase["client"]
        /\ inbox'["client"] = IF Carries("relay") THEN inbox["client"] \o out ELSE inbox["client"]
        /\ \A y \in Sides : phase'[y] = "gone" => socket'[y] = "closed"
    BY <2>1, SidesAre, WhatEnds
  <2>4. InStep' /\ ToRelay'
    BY <1>2, <2>3 DEF InStep, ToRelay
  <2>5. ASSUME phase["client"] # "gone"
        PROVE  /\ Len(inbox'["client"]) \in {0, 1}
               /\ \A i \in 1..Len(inbox'["client"]) : inbox'["client"][i].kind = "verdict"
    <3>1. inbox'["client"] \in {<<>>, out}
      BY <1>2, <2>2, <2>3, <2>5
    <3>2. CASE inbox'["client"] = <<>>
      BY <2>2, <3>2
    <3>3. CASE inbox'["client"] = out
      <4>1. Len(inbox'["client"]) = 1 /\ inbox'["client"][1] = v
        BY <2>2, <3>3, Zenon
      <4> QED
        BY <2>2, <4>1
    <3> QED
      BY <3>1, <3>2, <3>3
  <2>6. ToClient'
    <3>1. CASE phase["client"] = "gone"
      BY <2>3, <3>1 DEF ToClient
    <3>2. CASE phase["client"] = "challenge"
      <4>1. Alone("client", {"challenge", "verdict"})'
        BY <2>5, <3>2 DEF Alone
      <4> QED
        BY <2>3, <2>5, <3>2, <4>1 DEF ToClient
    <3> QED
      BY <1>2, <3>1, <3>2
  <2> QED
    BY <2>4, <2>6 DEF StreamInv
<1>5. CASE GoesOn("relay", "lookup", TRUE, <<>>) /\ UNCHANGED <<counters, solution, socket>>
  <2>1. /\ phase'["relay"] = "lookup" /\ phase'["client"] = phase["client"]
        /\ inbox'["relay"] = Tail(inbox["relay"])
        /\ inbox'["client"] = inbox["client"]
        /\ UNCHANGED socket
    <3>1. GoesOn("relay", "lookup", TRUE, <<>>) /\ UNCHANGED socket
      BY <1>5
    <3> QED
      BY <3>1, SidesAre, WhatReads
  <2>2. inbox'["relay"] = <<>>
    <3>1. Len(inbox["relay"]) <= 1
      BY <1>1 DEF StreamInv, ToRelay, Alone
    <3>2. inbox["relay"] \in Seq(Frames) /\ Len(inbox["relay"]) \in Nat
      BY Kinds, SidesAre
    <3>3. /\ Tail(inbox["relay"]) \in Seq(Frames)
          /\ Len(Tail(inbox["relay"])) \in Nat /\ Len(Tail(inbox["relay"])) <= 0
      BY <1>1, <3>1, <3>2, HeadTailProperties, LenProperties
    <3>4. Tail(inbox["relay"]) = <<>>
      BY <3>3, EmptySeq
    <3> QED
      BY <2>1, <3>4
  <2>3. InStep'
    BY <1>2, <2>1, SidesAre DEF StreamInv, InStep
  <2>4. ToRelay'
    BY <2>1, <2>2 DEF ToRelay
  <2>5. ToClient'
    <3>1. phase["client"] # "gone" => inbox'["client"] = <<>> /\ Len(<<>>) = 0
      BY <1>2, <2>1
    <3> QED
      BY <1>2, <2>1, <3>1 DEF ToClient, Alone
  <2> QED
    BY <2>3, <2>4, <2>5 DEF StreamInv
<1> QED
  BY <1>3, <1>4, <1>5 DEF RelayReadsHello

LEMMA RelayChallengesFlows ==
  ASSUME HandshakeInv, StreamInv, RelayChallenges
  PROVE  StreamInv'
<1> DEFINE next == IF setup.known THEN "solution" ELSE "pointless"
           opens == setup.known /\ setup.sameKey
           f == Challenge(Version("relay"), setup.mode, opens)
           out == <<f>>
           count == ChallengeCount(setup.mode, setup.known)
<1>1. /\ phase["relay"] = "lookup"
      /\ GoesOn("relay", next, FALSE, out)
      /\ local' = [local EXCEPT !["relay"] = @ + count]
      /\ UNCHANGED <<remote, solution, socket>>
  BY DEF RelayChallenges
<1>2. /\ f.kind = "challenge" /\ (f.opens => setup.known)
      /\ Len(out) = 1 /\ out[1] = f /\ <<>> \o out = out /\ Len(<<>>) = 0
  <2>1. f.opens = opens /\ f.kind = "challenge"
    BY DEF Challenge
  <2>2. f.opens => setup.known
    BY <2>1, Zenon
  <2> HIDE DEF f, opens
  <2>3. Len(out) = 1 /\ out[1] = f /\ <<>> \o out = out /\ Len(<<>>) = 0
    OBVIOUS
  <2> QED
    BY <2>1, <2>2, <2>3
<1>3. /\ phase["client"] \in {"challenge", "gone"}
      /\ phase["client"] # "gone" => inbox["client"] = <<>>
      /\ inbox["relay"] = <<>> /\ Len(inbox["relay"]) = 0
  BY <1>1, <1>2, Unanswered DEF StreamInv, ToRelay
<1>4. local["relay"] = 0 /\ remote["relay"] = 0 /\ local["client"] \in Nat
      /\ (phase["client"] = "challenge" => local["client"] = 0)
  BY <1>1, Kinds, SidesAre DEF HandshakeInv, Counted
<1>5. (setup.known => next = "solution" /\ count = SealsChallenge(setup.mode))
      /\ next \in {"solution", "pointless"} /\ count \in Nat
  BY DEF ChallengeCount, SealsChallenge
<1> HIDE DEF next, opens, f, out, count
<1>6. /\ phase'["relay"] = next /\ phase'["client"] = phase["client"]
      /\ inbox'["relay"] = inbox["relay"]
      /\ inbox'["client"] = IF Carries("relay") THEN inbox["client"] \o out ELSE inbox["client"]
      /\ UNCHANGED <<setup, socket>>
      /\ \A y \in Sides : Carries(y)' <=> Carries(y)
  BY <1>1, SidesAre, WhatSays
<1>7. /\ local'["relay"] = count /\ local'["client"] = local["client"]
      /\ remote'["relay"] = 0
  BY <1>1, <1>4, <1>5, SidesAre DEF HandshakeInv, Types
<1>8. InStep'
  BY <1>3, <1>5, <1>6, SidesAre DEF StreamInv, InStep
<1>9. ToRelay'
  <2>1. Flows("relay", 0, remote["relay"] + InHand)'
    <3>1. InHand' = 0
      BY <1>5, <1>6 DEF InHand
    <3>2. inbox'["relay"] = <<>> /\ Len(inbox'["relay"]) = 0
      BY <1>3, <1>6
    <3>3. Counting(inbox'["relay"], 0, 0)
      BY <3>2 DEF Counting
    <3>4. Carries("client")' => local["client"] = 0
      BY <1>3, <1>4, <1>6, SidesAre DEF Carries, StreamInv, InStep
    <3> QED
      BY <1>4, <1>7, <3>1, <3>2, <3>3, <3>4, SidesAre DEF Flows
  <2> QED
    BY <1>3, <1>5, <1>6, <2>1 DEF ToRelay
<1>10. ToClient'
  <2>1. CASE phase["client"] = "gone"
    BY <1>6, <2>1 DEF ToClient
  <2>2. CASE phase["client"] = "challenge"
    <3>1. inbox'["client"] \in {<<>>, out}
      BY <1>2, <1>3, <1>6, <2>2
    <3>2. /\ Len(inbox'["client"]) \in {0, 1}
          /\ \A i \in 1..Len(inbox'["client"]) : inbox'["client"][i] = f
      <4>1. CASE inbox'["client"] = <<>>
        BY <1>2, <4>1
      <4>2. CASE inbox'["client"] = out
        <5>1. Len(inbox'["client"]) = 1 /\ inbox'["client"][1] = f
          BY <1>2, <4>2, Zenon
        <5> QED
          BY <5>1
      <4> QED
        BY <3>1, <4>1, <4>2
    <3>3. Alone("client", {"challenge", "verdict"})'
      BY <1>2, <3>2 DEF Alone
    <3>4. f.opens => Opened'
      BY <1>2, <1>5, <1>6, <1>7 DEF Opened
    <3> QED
      BY <1>5, <1>6, <2>2, <3>2, <3>3, <3>4 DEF ToClient
  <2> QED
    BY <1>3, <2>1, <2>2
<1> QED
  BY <1>8, <1>9, <1>10 DEF StreamInv

(* Once the relay has the solution, the client has encrypted it.             *)
LEMMA Solved ==
  ASSUME HandshakeInv, StreamInv,
         \/ phase["relay"] = "solution" /\ inbox["relay"] # <<>>
         \/ phase["relay"] \in {"verifying", "session"}
  PROVE  /\ phase["client"] \in {"verdict", "session", "gone"}
         /\ phase["relay"] # "session" => phase["client"] # "session"
<1>1. /\ Flows("relay", 0, remote["relay"] + InHand) /\ Len(inbox["relay"]) \in Nat
      /\ remote["relay"] \in Nat /\ local["client"] \in Nat
      /\ inbox["relay"] # <<>> => Len(inbox["relay"]) > 0
  BY Kinds, SidesAre DEF StreamInv, ToRelay
<1>2. remote["relay"] + InHand + Len(inbox["relay"]) - 0 <= local["client"]
  BY <1>1, SidesAre DEF Flows
<1>3. remote["relay"] + InHand + Len(inbox["relay"]) > 0
  BY <1>1 DEF InHand, HandshakeInv, RelayKnows
<1>4. local["client"] # 0
  BY <1>1, <1>2, <1>3 DEF InHand
<1>5. phase["client"] \notin {"opening", "challenge", "solving"}
  BY <1>4 DEF HandshakeInv, Counted
<1>6. phase["client"] \in ClientPhases
  BY Kinds
<1> QED
  BY <1>5, <1>6 DEF ClientPhases, HandshakeInv, Entered, Approved

LEMMA RelayReadsSolutionFlows ==
  ASSUME HandshakeInv, StreamInv, RelayReadsSolution
  PROVE  StreamInv'
<1>1. /\ phase["relay"] = "solution" /\ inbox["relay"] # <<>>
      /\ GoesOn("relay", "verifying", TRUE, <<>>) /\ UNCHANGED socket
  BY DEF RelayReadsSolution, Finds
<1>2. local' = local /\ remote' = remote
  BY DEF RelayReadsSolution, counters
<1>3. /\ phase'["relay"] = "verifying" /\ phase'["client"] = phase["client"]
      /\ inbox'["relay"] = Tail(inbox["relay"])
      /\ inbox'["client"] = inbox["client"]
      /\ \A y \in Sides : Carries(y)' <=> Carries(y)
  BY <1>1, SidesAre, WhatReads
<1>4. phase["client"] \in {"verdict", "gone"}
  BY <1>1, Solved
<1>5. ToRelay'
  <2> DEFINE c == remote["relay"]
             d == remote["relay"] + 1
  <2>1. Flows("relay", 0, c) /\ c \in Int /\ d \in Int /\ d = c + 1 - 0
    <3>1. InHand = 0 /\ remote["relay"] \in Nat
      BY <1>1, Kinds, SidesAre DEF InHand
    <3>2. Flows("relay", 0, remote["relay"] + InHand) /\ remote["relay"] + InHand = remote["relay"]
      BY <1>1, <3>1 DEF StreamInv, ToRelay
    <3> QED
      BY <3>1, <3>2
  <2>2. d' = d /\ InHand' = 1 /\ local'["client"] = local["client"]
    BY <1>2, <1>3 DEF InHand
  <2> HIDE DEF c, d
  <2>3. Flows("relay", 0, d)'
    BY <1>1, <1>3, <2>1, <2>2, SidesAre, FlowReads DEF Flows
  <2>4. Flows("relay", 0, remote["relay"] + InHand)'
    BY <2>2, <2>3 DEF d
  <2> QED
    BY <1>3, <1>4, <2>4 DEF ToRelay
<1>6. ToClient'
  BY <1>1, <1>2, <1>3, <1>4 DEF StreamInv, ToClient
<1>7. InStep'
  BY <1>1, <1>3, <1>4, SidesAre DEF StreamInv, InStep
<1> QED
  BY <1>5, <1>6, <1>7 DEF StreamInv

(* A verdict is all there is on its way to a client that waits for one.      *)
LEMMA VerdictFlows ==
  ASSUME HandshakeInv, StreamInv, phase["relay"] = "verifying", NEW a,
         phase'["client"] = phase["client"], phase'["relay"] \in {"session", "gone"},
         inbox'["client"] = IF Carries("relay") THEN inbox["client"] \o Verdicting(a)
                                                ELSE inbox["client"],
         UNCHANGED local, remote'["client"] = remote["client"],
         Carries("relay")' => Carries("relay")
  PROVE  ToClient'
<1> DEFINE v == Verdict(Version("relay"), a)
           out == <<v>>
<1>1. v.kind = "verdict" /\ Len(out) = 1 /\ out[1] = v /\ <<>> \o out = out /\ Len(<<>>) = 0
  BY DEF Verdict
<1>2. inbox'["client"] = IF Carries("relay") THEN inbox["client"] \o out ELSE inbox["client"]
  BY DEF Verdicting
<1> HIDE DEF v, out
<1>3. phase["client"] \in {"verdict", "gone"}
  BY Solved
<1>4. CASE phase["client"] = "verdict"
  <2>1. inbox["client"] = <<>> /\ remote["client"] = local["relay"] /\ local["relay"] \in Nat
    BY <1>4, Kinds, SidesAre DEF StreamInv, ToClient
  <2>2. inbox'["client"] = IF Carries("relay") THEN out ELSE <<>>
    BY <1>1, <1>2, <2>1
  <2>3. /\ Len(inbox'["client"]) = IF Carries("relay") THEN 1 ELSE 0
        /\ inbox'["client"] # <<>> => inbox'["client"][1].kind = "verdict"
    BY <1>1, <2>2
  <2>4. Counting(inbox'["client"], 1, remote'["client"])
    BY <2>3 DEF Counting
  <2>5. Flows("client", 1, remote["client"])'
    BY <2>1, <2>3, <2>4, SidesAre DEF Flows
  <2> QED
    BY <1>4, <2>1, <2>3, <2>5 DEF ToClient
<1>5. CASE phase["client"] = "gone"
  BY <1>5 DEF ToClient
<1> QED
  BY <1>3, <1>4, <1>5

LEMMA RelayVerifiesFlows ==
  ASSUME HandshakeInv, StreamInv, RelayVerifies
  PROVE  StreamInv'
<1>1. /\ phase["relay"] = "verifying" /\ UNCHANGED local
      /\ remote' = [remote EXCEPT !["relay"] = @ + 1]
  BY DEF RelayVerifies
<1>2. /\ remote'["relay"] = remote["relay"] + 1 /\ remote'["client"] = remote["client"]
      /\ remote["relay"] \in Nat
  BY <1>1, Kinds, SidesAre DEF HandshakeInv, Types
<1>3. phase["client"] \in {"verdict", "gone"}
  BY <1>1, Solved
<1>4. CASE Ends("relay", Verdicting("UNAUTHORIZED"))
  <2> DEFINE out == Verdicting("UNAUTHORIZED")
  <2>1. Ends("relay", out)
    BY <1>4
  <2> HIDE DEF out
  <2>2. /\ phase'["relay"] = "gone" /\ phase'["client"] = phase["client"]
        /\ inbox'["client"] = IF Carries("relay") THEN inbox["client"] \o out ELSE inbox["client"]
        /\ \A y \in Sides : ~Carries(y)'
        /\ \A y \in Sides : phase'[y] = "gone" => socket'[y] = "closed"
    BY <2>1, SidesAre, WhatEnds
  <2>3. InStep' /\ ToRelay'
    BY <1>3, <2>2 DEF InStep, ToRelay
  <2>4. ToClient'
    BY <1>1, <1>2, <2>2, SidesAre, VerdictFlows DEF out
  <2> QED
    BY <2>3, <2>4 DEF StreamInv
<1>5. CASE GoesOn("relay", "session", FALSE, Approval) /\ UNCHANGED <<solution, socket>>
  <2>1. /\ phase'["relay"] = "session" /\ phase'["client"] = phase["client"]
        /\ inbox'["relay"] = inbox["relay"]
        /\ inbox'["client"] = IF Carries("relay") THEN inbox["client"] \o Approval
                                                  ELSE inbox["client"]
        /\ UNCHANGED socket
        /\ \A y \in Sides : Carries(y)' <=> Carries(y)
    <3>1. GoesOn("relay", "session", FALSE, Approval) /\ UNCHANGED socket
      BY <1>5
    <3> QED
      BY <3>1, SidesAre, WhatSays
  <2>2. ToRelay'
    <3>1. remote'["relay"] + InHand' = remote["relay"] + InHand
      BY <1>1, <1>2, <2>1 DEF InHand
    <3>2. Flows("relay", 0, remote["relay"] + InHand)
      BY <1>1 DEF StreamInv, ToRelay
    <3>3. Flows("relay", 0, remote["relay"] + InHand)'
      BY <1>1, <2>1, <3>1, <3>2, SidesAre DEF Flows
    <3> QED
      BY <1>3, <2>1, <3>3 DEF ToRelay
  <2>3. ToClient'
    BY <1>1, <1>2, <2>1, SidesAre, VerdictFlows DEF Approval
  <2>4. InStep'
    BY <1>1, <1>3, <2>1, SidesAre DEF StreamInv, InStep
  <2> QED
    BY <2>2, <2>3, <2>4 DEF StreamInv
<1> QED
  BY <1>4, <1>5 DEF RelayVerifies

(* Both sides, in the session.                                               *)

LEMMA SpeaksFlows ==
  ASSUME HandshakeInv, StreamInv, NEW x \in Sides, Speaks(x)
  PROVE  StreamInv'
<1> DEFINE out == <<Sealed(local[x])>>
<1>1. /\ phase[x] = "session"
      /\ GoesOn(x, "session", FALSE, out) /\ UNCHANGED socket
      /\ local' = [local EXCEPT ![x] = @ + 1] /\ remote' = remote
  BY DEF Speaks
<1> HIDE DEF out
<1>2. /\ phase'[x] = "session" /\ phase'[Peer(x)] = phase[Peer(x)]
      /\ inbox'[x] = inbox[x]
      /\ inbox'[Peer(x)] = IF Carries(x) THEN inbox[Peer(x)] \o out ELSE inbox[Peer(x)]
      /\ UNCHANGED <<setup, socket>>
      /\ \A y \in Sides : Carries(y)' <=> Carries(y)
  BY <1>1, WhatSays
<1>3. local'[x] = local[x] + 1 /\ local'[Peer(x)] = local[Peer(x)]
  BY <1>1, PeersDiffer DEF HandshakeInv, Types
<1>4. \A y \in Sides : phase'[y] = phase[y]
  BY <1>1, <1>2, PeersDiffer
<1>5. InStep'
  BY <1>2, <1>4, SidesAre DEF StreamInv, InStep
<1>6. CASE x = "client"
  <2>1. ToRelay'
    BY <1>1, <1>2, <1>3, <1>6, SidesAre, ClientSays DEF out
  <2>2. ToClient'
    BY <1>1, <1>2, <1>3, <1>4, <1>6, SidesAre, ToClientStays
  <2> QED
    BY <1>5, <2>1, <2>2 DEF StreamInv
<1>7. CASE x = "relay"
  <2>1. ToRelay'
    <3>1. phase["client"] # "opening"
      BY <1>1, <1>7, Solved
    <3> QED
      BY <1>1, <1>2, <1>3, <1>4, <1>7, <3>1, SidesAre, ToRelayStays
  <2>2. phase["client"] \in {"verdict", "session", "gone"}
    BY <1>1, <1>7, Solved
  <2> DEFINE c == remote["client"]
  <2>3. c' = c /\ c \in Int
    BY <1>1, Kinds, SidesAre
  <2>4. local["relay"] \in Nat /\ local'["relay"] = local["relay"] + 1
    BY <1>3, <1>7, Kinds, SidesAre
  <2>5. /\ inbox'["client"] = IF Carries("relay") THEN inbox["client"] \o <<Sealed(local["relay"])>>
                                                  ELSE inbox["client"]
        /\ Carries("relay")' <=> Carries("relay")
    BY <1>2, <1>7, SidesAre DEF out
  <2>6. CASE phase["client"] = "verdict"
    <3>1. /\ c <= local["relay"]
          /\ inbox["client"] # <<>> => inbox["client"][1].kind = "verdict"
          /\ Flows("client", 1, c)
      BY <1>1, <1>7, <2>6 DEF StreamInv, ToClient
    <3> HIDE DEF c
    <3>2. /\ Flows("client", 1, c)'
          /\ inbox["client"] # <<>> => inbox'["client"][1] = inbox["client"][1]
      <4>1. 1 \in {0, 1}
        OBVIOUS
      <4>2. Counting(inbox'["client"], 1, c) /\ Flows("client", 1, c)'
        BY <2>3, <2>4, <2>5, <3>1, <4>1, SidesAre, FlowSays DEF Flows
      <4>3. inbox["client"] # <<>> => inbox'["client"][1] = inbox["client"][1]
        BY <2>3, <2>4, <2>5, <3>1, <4>1, SidesAre, FlowSays
      <4> QED
        BY <4>2, <4>3
    <3>3. inbox["client"] = <<>> => inbox'["client"] = <<>>
      <4>1. Len(inbox["client"]) \in Nat /\ (inbox["client"] = <<>> => Len(inbox["client"]) = 0)
        BY Kinds, SidesAre
      <4>2. Carries("relay") => c + Len(inbox["client"]) - 1 = local["relay"]
        BY <3>1, SidesAre DEF Flows
      <4>3. Carries("relay") => Len(inbox["client"]) # 0
        BY <2>3, <2>4, <3>1, <4>2
      <4> QED
        BY <2>5, <4>1, <4>3
    <3>4. c <= local'["relay"]
      BY <2>3, <2>4, <3>1
    <3>5. inbox'["client"] # <<>> => inbox'["client"][1].kind = "verdict"
      BY <3>1, <3>2, <3>3
    <3> USE DEF c
    <3>6. Flows("client", 1, remote["client"])' /\ remote'["client"] <= local'["relay"]
      BY <2>3, <3>2, <3>4
    <3>7. ToClient'
      BY <1>1, <1>4, <1>7, <2>6, <3>5, <3>6, SidesAre DEF ToClient
    <3> QED
      BY <1>5, <2>1, <3>7 DEF StreamInv
  <2>7. CASE phase["client"] = "session"
    <3>1. Flows("client", 0, c)
      BY <2>7 DEF StreamInv, ToClient
    <3> HIDE DEF c
    <3>2. Flows("client", 0, c)'
      BY <2>3, <2>4, <2>5, <3>1, SidesAre, FlowSays DEF Flows
    <3>3. Flows("client", 0, remote["client"])'
      BY <3>2 DEF c
    <3>4. ToClient'
      BY <1>4, <2>7, <3>3, SidesAre DEF ToClient
    <3> QED
      BY <1>5, <2>1, <3>4 DEF StreamInv
  <2>8. CASE phase["client"] = "gone"
    <3>1. ToClient'
      BY <1>4, <2>8, SidesAre DEF ToClient
    <3> QED
      BY <1>5, <2>1, <3>1 DEF StreamInv
  <2> QED
    BY <2>2, <2>6, <2>7, <2>8
<1> QED
  BY <1>6, <1>7 DEF Sides

LEMMA ListensFlows ==
  ASSUME HandshakeInv, StreamInv, NEW x \in Sides, Listens(x)
  PROVE  StreamInv'
<1>1. phase[x] = "session" /\ inbox[x] # <<>>
  BY DEF Listens, Finds
<1>2. CASE Ends(x, <<>>) /\ UNCHANGED counters
  BY <1>2, LeavingLoses
<1>3. CASE /\ GoesOn(x, "session", TRUE, <<>>)
           /\ remote' = [remote EXCEPT ![x] = @ + 1]
           /\ UNCHANGED <<local, solution, socket>>
  <2>1. /\ phase'[x] = "session" /\ phase'[Peer(x)] = phase[Peer(x)]
        /\ inbox'[x] = Tail(inbox[x]) /\ inbox'[Peer(x)] = inbox[Peer(x)]
        /\ UNCHANGED <<setup, socket>>
        /\ \A y \in Sides : Carries(y)' <=> Carries(y)
    <3>1. GoesOn(x, "session", TRUE, <<>>) /\ UNCHANGED socket
      BY <1>3
    <3> QED
      BY <3>1, WhatReads
  <2>2. /\ remote'[x] = remote[x] + 1 /\ remote'[Peer(x)] = remote[Peer(x)]
        /\ \A y \in Sides : local'[y] = local[y]
    BY <1>3, PeersDiffer DEF HandshakeInv, Types
  <2>3. \A y \in Sides : phase'[y] = phase[y]
    BY <1>1, <2>1, PeersDiffer
  <2>4. InStep'
    BY <2>1, <2>3, SidesAre DEF StreamInv, InStep
  <2> DEFINE c == remote[x]
             d == remote[x] + 1
  <2>5. c \in Int /\ d \in Int /\ d = c + 1 - 0 /\ remote'[x] = d
    BY <2>2, Kinds
  <2>6. ASSUME Flows(x, 0, c)
        PROVE  Flows(x, 0, remote[x])'
    <3> HIDE DEF c, d
    <3>1. /\ inbox'[x] = Tail(inbox[x]) /\ local'[Peer(x)] = local[Peer(x)]
          /\ Carries(Peer(x))' <=> Carries(Peer(x))
      BY <2>1, <2>2, PeersDiffer
    <3>2. /\ Counting(inbox'[x], 0, d)
          /\ d + Len(inbox'[x]) - 0 <= local'[Peer(x)]
          /\ Carries(Peer(x))' => d + Len(inbox'[x]) - 0 = local'[Peer(x)]
      BY <1>1, <2>5, <2>6, <3>1, FlowReads DEF Flows
    <3> QED
      BY <2>5, <3>2 DEF Flows
  <2>7. CASE x = "client"
    <3>1. Flows("client", 0, remote["client"])
      BY <1>1, <2>7 DEF StreamInv, ToClient
    <3>2. Flows("client", 0, remote["client"])'
      BY <2>6, <2>7, <3>1
    <3>3. ToClient'
      BY <1>1, <2>3, <2>7, <3>2, SidesAre DEF ToClient
    <3>4. ToRelay'
      BY <1>1, <2>1, <2>2, <2>3, <2>7, SidesAre, ToRelayStays
    <3> QED
      BY <2>4, <3>3, <3>4 DEF StreamInv
  <2>8. CASE x = "relay"
    <3>1. /\ Flows("relay", 0, remote["relay"] + InHand) /\ InHand = 0
          /\ remote["relay"] \in Nat
      BY <1>1, <2>8, Kinds, SidesAre DEF StreamInv, ToRelay, InHand
    <3>2. remote["relay"] + InHand = remote["relay"]
      BY <3>1
    <3>3. Flows("relay", 0, remote["relay"])'
      BY <2>6, <2>8, <3>1, <3>2
    <3>4. InHand' = 0 /\ remote'["relay"] \in Nat
      BY <1>1, <2>2, <2>3, <2>8, <3>1, SidesAre DEF InHand
    <3>5. remote'["relay"] + InHand' = remote'["relay"]
      BY <3>4
    <3>6. Flows("relay", 0, remote["relay"] + InHand)'
      BY <3>3, <3>5 DEF Flows
    <3>7. phase["client"] # "opening"
      BY <1>1, <2>8, Solved
    <3>8. ToRelay'
      BY <1>1, <2>3, <2>8, <3>6, <3>7, SidesAre DEF ToRelay
    <3>9. ToClient'
      BY <2>1, <2>2, <2>3, <2>8, SidesAre, ToClientStays
    <3> QED
      BY <2>4, <3>8, <3>9 DEF StreamInv
  <2> QED
    BY <2>7, <2>8 DEF Sides
<1> QED
  BY <1>2, <1>3 DEF Listens

LEMMA InitStreamInv == Init => StreamInv
<1> SUFFICES ASSUME Init PROVE StreamInv
  OBVIOUS
<1>1. /\ phase["client"] = "opening" /\ phase["relay"] = "opening"
      /\ inbox["client"] = <<>> /\ inbox["relay"] = <<>>
      /\ \A x \in Sides : phase[x] # "gone"
  BY DEF Init, Sides
<1>2. Alone("relay", {"hello"})
  BY <1>1 DEF Alone
<1> QED
  BY <1>1, <1>2 DEF StreamInv, InStep, ToRelay, ToClient

LEMMA NextStreamInv == HandshakeInv /\ StreamInv /\ [Next]_vars => StreamInv'
<1> SUFFICES ASSUME HandshakeInv, StreamInv, [Next]_vars PROVE StreamInv'
  OBVIOUS
<1>1. CASE Client
  BY <1>1, ClientOpensFlows, ClientReadsChallengeFlows, ClientSolvesFlows, ClientReadsVerdictFlows
  DEF Client
<1>2. CASE Relay
  BY <1>2, RelayOpensFlows, RelayReadsHelloFlows, RelayChallengesFlows, RelayReadsSolutionFlows,
     RelayVerifiesFlows
  DEF Relay
<1>3. ASSUME NEW x \in Sides, Rejected(x) \/ SendThrows(x) \/ TimesOut(x) \/ Leaves(x)
      PROVE  StreamInv'
  BY <1>3, LeavingLoses DEF Rejected, SendThrows, TimesOut, Leaves
<1>4. ASSUME NEW x \in Sides, Listens(x) \/ Speaks(x)
      PROVE  StreamInv'
  BY <1>4, ListensFlows, SpeaksFlows
<1>5. ASSUME NEW x \in Sides, SocketCloses(x) \/ SignalAborts(x)
      PROVE  StreamInv'
  BY <1>5, TransportLoses
<1>6. CASE FallsSilent
  BY <1>6, TransportLoses, SidesAre
<1>7. CASE UNCHANGED vars
  <2>1. UNCHANGED <<setup, phase, local, remote, solution, inbox, socket, aborted, silent>>
    BY <1>7 DEF vars, counters
  <2>2. \A y \in Sides : Carries(y)' <=> Carries(y)
    BY <2>1 DEF Carries, Reaches
  <2>3. ToClient'
    BY <2>1, <2>2, SidesAre, ToClientStays
  <2>4. InStep' /\ ToRelay'
    <3>1. \A kinds : Alone("relay", kinds)' <=> Alone("relay", kinds)
      BY <2>1 DEF Alone
    <3>2. Flows("relay", 0, remote["relay"] + InHand)' <=> Flows("relay", 0, remote["relay"] + InHand)
      BY <2>1, <2>2, SidesAre DEF Flows, InHand
    <3> QED
      BY <2>1, <3>1, <3>2 DEF StreamInv, InStep, ToRelay
  <2> QED
    BY <2>3, <2>4 DEF StreamInv
<1>8. CASE BothGone
  BY <1>7, <1>8 DEF BothGone
<1> QED
  BY <1>1, <1>2, <1>3, <1>4, <1>5, <1>6, <1>7, <1>8 DEF Next, Handler

(* In every reachable state the frames on their way are those that the       *)
(* phases of the two sides allow, with the numbers their reader will count.  *)
THEOREM StreamsCorrect == Spec => [](HandshakeInv /\ StreamInv)
<1>1. Init => HandshakeInv /\ StreamInv
  BY InitHandshakeInv, InitStreamInv
<1>2. HandshakeInv /\ StreamInv /\ [Next]_vars => (HandshakeInv /\ StreamInv)'
  BY NextHandshakeInv, NextStreamInv
<1> QED
  BY <1>1, <1>2, PTL DEF Spec

(* No handler takes a frame for what it is not, although frames carry no     *)
(* kind: whatever timers, refusals and losses come between, the next frame   *)
(* a handler finds is one it waits for.                                      *)
THEOREM NothingMisreadCorrect == Spec => []NothingMisread
<1>1. HandshakeInv /\ StreamInv => NothingMisread
  <2> SUFFICES ASSUME HandshakeInv, StreamInv, NEW x \in Sides, inbox[x] # <<>>
               PROVE  LET kind == Frame(x).kind
                      IN /\ phase[x] = "hello" => kind = "hello"
                         /\ phase[x] = "challenge" => kind \in {"challenge", "verdict"}
                         /\ phase[x] = "verdict" => kind = "verdict"
                         /\ phase[x] \in {"solution", "session"} => kind = "sealed"
                         /\ phase[x] # "pointless"
    BY DEF NothingMisread
  <2>1. 1 \in 1..Len(inbox[x]) /\ Frame(x) = inbox[x][1] /\ Len(inbox[x]) \in Nat
    <3>1. inbox[x] \in Seq(Frames) /\ Len(inbox[x]) \in Nat /\ Len(inbox[x]) # 0
      BY Kinds
    <3>2. Frame(x) = inbox[x][1]
      BY <3>1 DEF Frame
    <3>3. \A m \in Nat : m # 0 => 1 \in 1..m
      OBVIOUS
    <3> QED
      BY <3>1, <3>2, <3>3
  <2>2. \A c : Flows(x, 0, c) => Frame(x).kind = "sealed"
    BY <2>1 DEF Flows, Counting
  <2>3. \A kinds : Alone(x, kinds) => Frame(x).kind \in kinds
    BY <2>1 DEF Alone
  <2>4. CASE x = "client"
    <3>1. phase[x] = "challenge" => Frame(x).kind \in {"challenge", "verdict"}
      BY <2>3, <2>4 DEF StreamInv, ToClient
    <3>2. phase[x] = "verdict" => Frame(x).kind = "verdict"
      BY <2>1, <2>4 DEF StreamInv, ToClient
    <3>3. phase[x] = "session" => Frame(x).kind = "sealed"
      BY <2>2, <2>4 DEF StreamInv, ToClient
    <3>4. phase[x] \notin {"hello", "solution", "pointless"}
      BY <2>4, Kinds DEF ClientPhases
    <3> QED
      BY <3>1, <3>2, <3>3, <3>4
  <2>5. CASE x = "relay"
    <3>1. phase[x] = "hello" => Frame(x).kind = "hello"
      BY <2>3, <2>5 DEF StreamInv, ToRelay
    <3>2. phase[x] \in {"solution", "session"} => Frame(x).kind = "sealed"
      BY <2>2, <2>5 DEF StreamInv, ToRelay
    <3>3. phase[x] \notin {"pointless", "challenge", "verdict"}
      BY <2>5, Kinds DEF RelayPhases, StreamInv, ToRelay
    <3> QED
      BY <3>1, <3>2, <3>3
  <2> QED
    BY <2>4, <2>5 DEF Sides
<1> QED
  BY <1>1, StreamsCorrect, PTL

(* The counters of the two sides fit when the session begins and from then   *)
(* on, in both modes: the packets that wait carry the numbers their reader   *)
(* will count, and none that was not encrypted.                              *)
THEOREM CountersMeetCorrect == Spec => []CountersMeet
<1>1. HandshakeInv /\ StreamInv => CountersMeet
  <2> SUFFICES ASSUME HandshakeInv, StreamInv, NEW x \in Sides, phase[x] = "session"
               PROVE  /\ \A i \in DOMAIN inbox[x] :
                           inbox[x][i].kind = "sealed" => inbox[x][i].counter = remote[x] + i - 1
                      /\ remote[x] + Len(inbox[x]) <= local[Peer(x)]
    BY DEF CountersMeet
  <2>1. /\ inbox[x] \in Seq(Frames) /\ Len(inbox[x]) \in Nat
        /\ remote[x] \in Nat /\ local[Peer(x)] \in Nat
    BY Kinds, PeersDiffer
  <2>2. Flows(x, 0, remote[x])
    <3>1. CASE x = "client"
      BY <3>1 DEF StreamInv, ToClient
    <3>2. CASE x = "relay"
      <4>1. Flows("relay", 0, remote["relay"] + InHand) /\ InHand = 0
        BY <3>2 DEF StreamInv, ToRelay, InHand
      <4>2. remote["relay"] + InHand = remote["relay"]
        BY <2>1, <3>2, <4>1
      <4> QED
        BY <3>2, <4>1, <4>2
    <3> QED
      BY <3>1, <3>2 DEF Sides
  <2>3. DOMAIN inbox[x] = 1..Len(inbox[x])
    BY <2>1
  <2>4. ASSUME NEW i \in 1..Len(inbox[x])
        PROVE  inbox[x][i].counter = remote[x] + i - 1
    <3>1. i \in 0 + 1 .. Len(inbox[x])
      OBVIOUS
    <3>2. inbox[x][i].counter = remote[x] + i - 0 - 1
      BY <2>2, <3>1 DEF Flows, Counting
    <3> QED
      BY <2>1, <3>2
  <2>5. remote[x] + Len(inbox[x]) <= local[Peer(x)]
    <3>1. remote[x] + Len(inbox[x]) - 0 <= local[Peer(x)]
      BY <2>2 DEF Flows
    <3> QED
      BY <2>1, <3>1
  <2> QED
    BY <2>3, <2>4, <2>5
<1> QED
  BY <1>1, StreamsCorrect, PTL

=============================================================================
