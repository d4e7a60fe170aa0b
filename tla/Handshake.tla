----------------------------- MODULE Handshake -----------------------------
(***************************************************************************)
(* The authentication that opens every WebSocket, both sides of it and     *)
(* both modes: authenticateRelay (tunnel/server/tunnel.relay.ts) with the  *)
(* two handlers of tunnel/server/auth, and the two handlers of             *)
(* tunnel/client/auth.                                                     *)
(*                                                                         *)
(* The client says hello, the relay answers with a challenge, the client   *)
(* with a sealed solution, the relay with a verdict.  Each wait has a      *)
(* timer, and the relay looks clients up, derives keys and delays its      *)
(* answers at random in between, so that a timer may win any race.  An     *)
(* action is what runs between two waits; consecutive cryptographic awaits *)
(* of one handler count as one.  Afterwards both sides send packets that   *)
(* are numbered on each side alone, from where the handshake left the      *)
(* counters: the model goes on until MaxCounter to see that they fit.      *)
(*                                                                         *)
(* The transport delivers frames in order.  It may close on either side at *)
(* any time, and it may fall silent: frames are lost and no side hears of  *)
(* it, as when a host or a link disappears.                                *)
(***************************************************************************)
EXTENDS Integers, Sequences

CONSTANTS
  Versions,    (* versions of the protocol: a build knows one of them      *)
  MaxCounter   (* bound: the packets a side encrypts                       *)

ASSUME HandshakeAssumption == MaxCounter \in Nat \ {0, 1}

Sides == {"client", "relay"}
Peer(x) == IF x = "client" THEN "relay" ELSE "client"
Modes == {"BASIC_AUTH", "ADVANCED_AUTH"}

(* What the two sides were started with: the client's mode, their builds,   *)
(* the modes the relay has enabled, whether its look-up finds the client,   *)
(* and whether the key it finds is the one the client has.                  *)
Setups == [mode : Modes, version : [Sides -> Versions], enabled : SUBSET Modes,
           known : BOOLEAN, sameKey : BOOLEAN]

Verdicts == {"AUTHORIZED", "UNAUTHORIZED", "UNSUPPORTED_AUTH"}

(* Frames.  A reader knows the kind of a frame only from where it stands in *)
(* the protocol (NothingMisread).  opens says whether the client's key fits.*)
Hello(v, m) == [kind |-> "hello", version |-> v, mode |-> m]
Challenge(v, m, opens) == [kind |-> "challenge", version |-> v, mode |-> m, opens |-> opens]
Verdict(v, a) == [kind |-> "verdict", version |-> v, mode |-> a]
Sealed(n) == [kind |-> "sealed", counter |-> n]

Frames ==
  {Hello(v, m) : v \in Versions, m \in Modes}
    \cup {Challenge(v, m, o) : v \in Versions, m \in Modes, o \in BOOLEAN}
    \cup {Verdict(v, a) : v \in Versions, a \in Verdicts}
    \cup {Sealed(n) : n \in 0..MaxCounter}

ClientPhases == {"opening", "challenge", "solving", "verdict", "session", "gone"}
RelayPhases == {"opening", "hello", "lookup", "solution", "verifying", "pointless",
                "session", "gone"}

VARIABLES
  setup,    (* what the sides were started with; never changes             *)
  phase,    (* where the handler of each side is                           *)
  local,    (* per side: the packets it encrypted                          *)
  remote,   (* per side: the packets it decrypted                          *)
  solution, (* the counter of the solution the relay is about to verify    *)
  inbox,    (* per side: frames on the way to it or in its queue           *)
  socket,   (* per side: the state of its WebSocket                        *)
  aborted,  (* per side: its queue is aborted                              *)
  silent    (* the transport loses everything                              *)

counters == <<local, remote>>
vars == <<setup, phase, counters, solution, inbox, socket, aborted, silent>>

TypeOK ==
  /\ setup \in Setups
  /\ phase["client"] \in ClientPhases /\ phase["relay"] \in RelayPhases
  /\ DOMAIN phase = Sides
  /\ local \in [Sides -> 0..MaxCounter]
  /\ remote \in [Sides -> 0..MaxCounter]
  /\ solution \in 0..MaxCounter
  /\ inbox \in [Sides -> Seq(Frames)]
  /\ socket \in [Sides -> {"connecting", "open", "closed"}]
  /\ aborted \in [Sides -> BOOLEAN]
  /\ silent \in BOOLEAN

Init ==
  /\ setup \in Setups
  /\ phase = [x \in Sides |-> "opening"]
  /\ local = [x \in Sides |-> 0]
  /\ remote = [x \in Sides |-> 0]
  /\ solution = 0
  /\ inbox = [x \in Sides |-> <<>>]
  /\ socket = [x \in Sides |-> "connecting"]
  /\ aborted = [x \in Sides |-> FALSE]
  /\ silent = FALSE

-----------------------------------------------------------------------------
(* Steps the actions are made of.                                           *)

Goes(x, p) == phase' = [phase EXCEPT ![x] = p]

(* What x is sent arrives and waits in its queue.                            *)
Reaches(x) == ~silent /\ socket[x] # "closed" /\ ~aborted[x]
Carries(x) == socket[x] = "open" /\ Reaches(Peer(x))

\* Mutant: the finally does not close the socket.
MutHangUp(x) == UNCHANGED socket

(* A handler that ends closes its socket (safelyClose, socket.close).       *)
HangUp(x) == socket' = [socket EXCEPT ![x] = "closed"]

(* The handler returns or throws after it has sent the frames in out.        *)
Ends(x, out) ==
  /\ Goes(x, "gone")
  /\ inbox' = [inbox EXCEPT ![x] = <<>>,
                            ![Peer(x)] = @ \o IF Carries(x) THEN out ELSE <<>>]
  /\ HangUp(x)
  /\ UNCHANGED <<setup, solution, aborted, silent>>

(* The handler goes on at p, having read the head of its inbox or not, and   *)
(* having sent the frames in out.                                            *)
GoesOn(x, p, read, out) ==
  /\ Goes(x, p)
  /\ inbox' = [inbox EXCEPT ![x] = IF read THEN Tail(@) ELSE @,
                            ![Peer(x)] = @ \o IF Carries(x) THEN out ELSE <<>>]
  /\ UNCHANGED <<setup, aborted, silent>>

(* shift gave the handler that waits at p a frame of one of these kinds.      *)
Finds(x, p, kinds) ==
  /\ phase[x] = p
  /\ ~aborted[x]
  /\ inbox[x] # <<>>
  /\ Head(inbox[x]).kind \in kinds

Frame(x) == Head(inbox[x])
Version(x) == setup.version[x]

-----------------------------------------------------------------------------
(* The client.                                                               *)

ClientOpens ==
  /\ phase["client"] = "opening"
  /\ socket["client"] = "connecting"
  /\ socket' = [socket EXCEPT !["client"] = "open"]
  /\ Goes("client", "challenge")
  /\ inbox' = [inbox EXCEPT !["relay"] = @ \o
       IF Reaches("relay") THEN <<Hello(Version("client"), setup.mode)>> ELSE <<>>]
  /\ UNCHANGED <<setup, counters, solution, aborted, silent>>

(* The challenge of identity authentication is sealed with the session's key *)
(* and takes a number of each side, the session key of credentials           *)
(* authentication is sealed with the passkey's and takes none.               *)
SealsChallenge(mode) == IF mode = "ADVANCED_AUTH" THEN 1 ELSE 0

ClientReadsChallenge ==
  /\ Finds("client", "challenge", {"challenge", "verdict"})
  /\ IF /\ Frame("client").version = Version("client")
        /\ Frame("client").mode = setup.mode
        /\ Frame("client").opens
     THEN /\ GoesOn("client", "solving", TRUE, <<>>)
          /\ remote' = [remote EXCEPT !["client"] = @ + SealsChallenge(setup.mode)]
          /\ UNCHANGED <<local, solution, socket>>
     ELSE Ends("client", <<>>) /\ UNCHANGED counters

ClientSolves ==
  /\ phase["client"] = "solving"
  /\ GoesOn("client", "verdict", FALSE, <<Sealed(local["client"])>>)
  /\ local' = [local EXCEPT !["client"] = @ + 1]
  /\ UNCHANGED <<remote, solution, socket>>

Accepts(frame) == frame.version = Version("client") /\ frame.mode = "AUTHORIZED"

ClientReadsVerdict ==
  /\ Finds("client", "verdict", {"verdict"})
  /\ IF Accepts(Frame("client"))
     THEN GoesOn("client", "session", TRUE, <<>>) /\ UNCHANGED <<counters, solution, socket>>
     ELSE Ends("client", <<>>) /\ UNCHANGED counters

-----------------------------------------------------------------------------
(* The relay.                                                                *)

RelayOpens ==
  /\ phase["relay"] = "opening"
  /\ socket["relay"] = "connecting"
  /\ IF aborted["relay"]
     THEN Ends("relay", <<>>) /\ UNCHANGED counters
     ELSE /\ GoesOn("relay", "hello", FALSE, <<>>)
          /\ socket' = [socket EXCEPT !["relay"] = "open"]
          /\ UNCHANGED <<counters, solution>>

Verdicting(a) == <<Verdict(Version("relay"), a)>>

\* Mutant: authenticateRelay does not ask whether the mode is enabled.
MutEnabled(mode) == mode \in Modes

Enabled(mode) == mode \in setup.enabled

RelayReadsHello ==
  /\ Finds("relay", "hello", {"hello"})
  /\ \/ /\ Frame("relay").version # Version("relay")
        /\ Ends("relay", <<>>) /\ UNCHANGED counters
     \/ /\ Frame("relay").version = Version("relay")
        /\ ~Enabled(Frame("relay").mode)
        /\ Ends("relay", Verdicting("UNSUPPORTED_AUTH")) /\ UNCHANGED counters
     \/ /\ Frame("relay").version = Version("relay")
        /\ Enabled(Frame("relay").mode)
        /\ GoesOn("relay", "lookup", TRUE, <<>>)
        /\ UNCHANGED <<counters, solution, socket>>

\* Mutant: the relay seals the challenge with a security manager of its own.
MutChallengeCount(mode, known) == 0

(* The challenge for an unknown client is sealed with a key made up for it,  *)
(* and with a security manager that is thrown away.                          *)
ChallengeCount(mode, known) == IF known THEN SealsChallenge(mode) ELSE 0

RelayChallenges ==
  /\ phase["relay"] = "lookup"
  /\ GoesOn("relay", IF setup.known THEN "solution" ELSE "pointless", FALSE,
            <<Challenge(Version("relay"), setup.mode, setup.known /\ setup.sameKey)>>)
  /\ local' = [local EXCEPT !["relay"] = @ + ChallengeCount(setup.mode, setup.known)]
  /\ UNCHANGED <<remote, solution, socket>>

(* Nothing arrives for a relay that waits for a pointless solution: a client *)
(* that cannot open its challenge leaves (NothingMisread).                   *)
RelayReadsSolution ==
  /\ Finds("relay", "solution", {"sealed"})
  /\ GoesOn("relay", "verifying", TRUE, <<>>)
  /\ solution' = Frame("relay").counter
  /\ UNCHANGED <<counters, socket>>

\* Mutant: the relay enters the session and does not tell.
MutApproval == <<>>

Approval == Verdicting("AUTHORIZED")

(* A solution that opens with the session's key under the number the relay    *)
(* counts is approved; what the client seals always has the right contents.   *)
RelayVerifies ==
  /\ phase["relay"] = "verifying"
  /\ remote' = [remote EXCEPT !["relay"] = @ + 1]
  /\ UNCHANGED local
  /\ IF setup.sameKey /\ solution = remote["relay"]
     THEN GoesOn("relay", "session", FALSE, Approval) /\ UNCHANGED <<solution, socket>>
     ELSE Ends("relay", Verdicting("UNAUTHORIZED"))

-----------------------------------------------------------------------------
(* Both.                                                                     *)

(* Where a handler waits for a frame of the handshake.                        *)
Waits(x) == IF x = "client" THEN {"challenge", "verdict"}
                            ELSE {"hello", "solution", "pointless"}

\* Mutant: nothing limits the wait for the solution.
MutTimed(x) == Waits(x) \ {"solution"}

(* The waits with a timer, of a second each: all of them.                     *)
Timed(x) == Waits(x)

TimesOut(x) ==
  /\ phase[x] \in Timed(x)
  /\ Ends(x, <<>>)
  /\ UNCHANGED counters

(* The wait for a frame, or for the socket to open, is rejected.              *)
Rejected(x) ==
  /\ \/ aborted[x] /\ phase[x] \in Waits(x) \cup {"session"}
     \/ socket[x] = "closed" /\ phase[x] = "opening"
  /\ Ends(x, <<>>)
  /\ UNCHANGED counters

(* send throws on a socket that is closed; the next action of the handler     *)
(* allows for a send that drops the frame instead.                            *)
SendThrows(x) ==
  /\ phase[x] \in {"solving", "lookup", "verifying"}
  /\ socket[x] = "closed"
  /\ Ends(x, <<>>)
  /\ UNCHANGED counters

(* The packets of the session.                                                *)
Speaks(x) ==
  /\ phase[x] = "session"
  /\ socket[x] = "open"
  /\ local[x] < MaxCounter
  /\ GoesOn(x, "session", FALSE, <<Sealed(local[x])>>)
  /\ local' = [local EXCEPT ![x] = @ + 1]
  /\ UNCHANGED <<remote, solution, socket>>

Listens(x) ==
  /\ Finds(x, "session", {"sealed"})
  /\ IF Frame(x).counter = remote[x]
     THEN /\ GoesOn(x, "session", TRUE, <<>>)
          /\ remote' = [remote EXCEPT ![x] = @ + 1]
          /\ UNCHANGED <<local, solution, socket>>
     ELSE Ends(x, <<>>) /\ UNCHANGED counters

(* A session ends for reasons of its own.                                     *)
Leaves(x) ==
  /\ phase[x] = "session"
  /\ Ends(x, <<>>)
  /\ UNCHANGED counters

(* onclose or onerror: the peer hung up, or the connection broke.             *)
SocketCloses(x) ==
  /\ socket[x] # "closed"
  /\ socket' = [socket EXCEPT ![x] = "closed"]
  /\ aborted' = [aborted EXCEPT ![x] = TRUE]
  /\ inbox' = [inbox EXCEPT ![x] = <<>>]
  /\ UNCHANGED <<setup, phase, counters, solution, silent>>

(* The process of x stops; the client closes its socket at once.              *)
SignalAborts(x) ==
  /\ ~aborted[x] /\ phase[x] # "gone"
  /\ aborted' = [aborted EXCEPT ![x] = TRUE]
  /\ inbox' = [inbox EXCEPT ![x] = <<>>]
  /\ socket' = IF x = "client" THEN [socket EXCEPT ![x] = "closed"] ELSE socket
  /\ UNCHANGED <<setup, phase, counters, solution, silent>>

(* Of the frames on their way some first ones still arrive.                   *)
FallsSilent ==
  /\ ~silent
  /\ silent' = TRUE
  /\ \E n \in 0..Len(inbox["client"]), m \in 0..Len(inbox["relay"]) :
       inbox' = [client |-> SubSeq(inbox["client"], 1, n), relay |-> SubSeq(inbox["relay"], 1, m)]
  /\ UNCHANGED <<setup, phase, counters, solution, socket, aborted>>

BothGone == (\A x \in Sides : phase[x] = "gone") /\ UNCHANGED vars

Handler(x) == Rejected(x) \/ SendThrows(x) \/ Listens(x)

Client == ClientOpens \/ ClientReadsChallenge \/ ClientSolves \/ ClientReadsVerdict
Relay == \/ RelayOpens \/ RelayReadsHello \/ RelayChallenges \/ RelayReadsSolution
         \/ RelayVerifies

Next ==
  \/ Client
  \/ Relay
  \/ \E x \in Sides : Handler(x) \/ TimesOut(x) \/ Speaks(x) \/ Leaves(x)
                        \/ SocketCloses(x) \/ SignalAborts(x)
  \/ FallsSilent
  \/ BothGone

Spec == Init /\ [][Next]_vars

(* Promises settle and timers expire; a socket opens or fails in the end; a   *)
(* side hears that its peer hung up unless the transport is silent.           *)
Fairness ==
  /\ WF_vars(Client) /\ WF_vars(Relay)
  /\ \A x \in Sides :
       /\ WF_vars(Handler(x)) /\ WF_vars(TimesOut(x))
       /\ WF_vars(~silent /\ socket[Peer(x)] = "closed" /\ SocketCloses(x))

FairSpec == Spec /\ Fairness

-----------------------------------------------------------------------------
(* Safety.                                                                   *)

(* A frame carries no kind: a handler takes the next one for what it waits   *)
(* for.  Timers, refusals and the random delays never shift the two sides    *)
(* against each other so that one reads a frame for what it is not.          *)
NothingMisread ==
  \A x \in Sides : inbox[x] # <<>> =>
    LET kind == Frame(x).kind
    IN /\ phase[x] = "hello" => kind = "hello"
       /\ phase[x] = "challenge" => kind \in {"challenge", "verdict"}
       /\ phase[x] = "verdict" => kind = "verdict"
       /\ phase[x] \in {"solution", "session"} => kind = "sealed"
       /\ phase[x] # "pointless"

(* A client in session was authorized: the relay is in the session too, or   *)
(* has left it; and the relay authorizes only a client it knows, with its    *)
(* key, its version and a mode that is enabled.                              *)
OnlyAuthorized ==
  /\ phase["client"] = "session" => phase["relay"] \in {"session", "gone"}
                                      /\ remote["relay"] > 0
  /\ "session" \in {phase[x] : x \in Sides} =>
       /\ setup.known /\ setup.sameKey
       /\ setup.mode \in setup.enabled
       /\ Version("client") = Version("relay")

(* The packets that wait for a side of a session carry the numbers it will   *)
(* count through, whichever mode brought it there: the challenge and the     *)
(* solution were counted on both sides or on neither.                        *)
CountersMeet ==
  \A x \in Sides : phase[x] = "session" =>
    /\ \A i \in DOMAIN inbox[x] :
         inbox[x][i].kind = "sealed" => inbox[x][i].counter = remote[x] + i - 1
    /\ remote[x] + Len(inbox[x]) <= local[Peer(x)]

-----------------------------------------------------------------------------
(* Liveness.                                                                 *)

(* A handshake that has begun ends on each side, in a session or without,    *)
(* even if the transport falls silent.                                       *)
HandshakeEnds ==
  \A x \in Sides : phase[x] # "opening" ~> phase[x] \in {"session", "gone"}

(* No side stays alone in a session unless the transport is silent: one that *)
(* gave up while its peer was about to authorize it takes the peer with it.  *)
NobodyAlone == \A x \in Sides : phase[x] = "gone" ~> phase[Peer(x)] = "gone" \/ silent

=============================================================================
