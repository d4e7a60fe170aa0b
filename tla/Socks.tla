-------------------------------- MODULE Socks --------------------------------
(***************************************************************************)
(* One connection of the SOCKS server (handleSocksConnection) from its first *)
(* byte to its pipes.  The protocol is a generator: it yields how many bytes *)
(* it needs, or up to which byte, and is resumed with them; the connection  *)
(* brings them in chunks of any size.  Once the tunnel is there, what was    *)
(* read and not consumed is written to it, and both are piped together.     *)
(*                                                                         *)
(* Bytes are numbers.  The await of a reply is part of the step it belongs    *)
(* to, for the signal is looked at next.  A validation is a stage of its own: *)
(* what it leads to may come before that look.                              *)
(***************************************************************************)
EXTENDS Integers, Sequences, SequencesExt

CONSTANTS
  Inputs,    (* what the application may send                              *)
  Configs    (* options of the server: which versions are enabled, whether *)
             (* they authenticate, and what validate says                  *)

ASSUME SocksAssumption ==
  /\ Inputs \subseteq Seq(0..255)
  /\ Configs \subseteq [socks4 : BOOLEAN, auth4 : BOOLEAN, socks5 : BOOLEAN,
                        auth5 : {"disabled", "optional", "required"}, valid : BOOLEAN]

VARIABLES
  config, input,
  read,      (* how many bytes were read                                   *)
  buffer,    (* workingBuffer: read and not consumed                       *)
  stage,     (* where the generator is                                     *)
  want,      (* bufferRequest: a size, or UntilZero                        *)
  replies,   (* what was written to the application                        *)
  tunnel,    (* what became of the tunnel                                  *)
  piped,     (* the bytes written to it                                    *)
  tcp,       (* the connection of the application                          *)
  aborted    (* options.signal                                             *)

given == <<config, input>>
request == <<stage, want>>
vars == <<given, read, buffer, request, replies, tunnel, piped, tcp, aborted>>

Socks4 == {"s4", "s4user", "s4auser", "s4host"}
Socks5 == {"s5", "methods", "auth", "user", "passlen", "pass",
           "request", "ipv4", "ipv6", "domainlen", "domain", "port"}
Negotiating == {"start", "version"} \cup Socks4 \cup Socks5
(* A validate is awaited: of version 4 for an address and for a name.        *)
Validating == {"validating4", "validating4a", "validating5"}
Version(s) == IF s \in Socks4 THEN 4 ELSE 5

UntilZero == -1

TypeOK ==
  /\ config \in Configs /\ input \in Inputs
  /\ read \in 0..Len(input)
  /\ buffer \in Seq(0..255) /\ piped \in Seq(0..255)
  /\ stage \in Negotiating \cup Validating \cup {"asking4", "asking5", "remaining", "piping", "closed"}
  /\ want \in -1..255
  /\ replies \in Seq({"none", "userpass", "unacceptable", "accepted", "failed",
                      "granted", "refused"})
  /\ tunnel \in {"none", "asked", "open", "closed"}
  /\ tcp \in {"open", "broken", "closed"}
  /\ aborted \in BOOLEAN

Init ==
  /\ config \in Configs /\ input \in Inputs
  /\ read = 0 /\ buffer = <<>>
  /\ stage = "start" /\ want = 0
  /\ replies = <<>>
  /\ tunnel = "none" /\ piped = <<>>
  /\ tcp = "open" /\ aborted = FALSE

-----------------------------------------------------------------------------
(* The loop that serves the generator.                                      *)

FirstZero == SelectInSeq(buffer, LAMBDA b : b = 0)

Satisfied == IF want = UntilZero THEN FirstZero > 0 ELSE want <= Len(buffer)

\* Mutant: the zero that ends a name is left in the buffer.
MutReadTo == IF want = UntilZero THEN FirstZero - 1 ELSE want

ReadTo == IF want = UntilZero THEN FirstZero ELSE want

(* The version is looked at, and read again by the handler it belongs to.    *)
Consumed == IF stage = "version" THEN 0 ELSE ReadTo

Taken == SubSeq(buffer, 1, ReadTo)

Closed ==
  /\ stage' = "closed"
  /\ tcp' = IF tcp = "broken" THEN tcp ELSE "closed"
  /\ tunnel' = IF tunnel = "open" THEN "closed" ELSE tunnel

(* More bytes arrive.                                                       *)
Read ==
  /\ stage \in Negotiating /\ ~Satisfied
  /\ \E k \in 1..Len(input) - read :
       /\ read' = read + k
       /\ buffer' = buffer \o SubSeq(input, read + 1, read + k)
  /\ UNCHANGED <<given, request, replies, tunnel, piped, tcp, aborted>>

\* Mutant: only requests for a number of bytes have a deadline.
MutInterrupted == ~Satisfied /\ want # UntilZero

(* The deadline has passed, the application has ended or the signal is        *)
(* aborted.                                                                 *)
Interrupted == ~Satisfied

(* A read is interrupted, or the connection fails, at a read or at a write.  *)
Fails ==
  /\ stage \in Negotiating
  /\ Interrupted \/ tcp = "broken"
  /\ Closed
  /\ UNCHANGED <<given, read, buffer, want, replies, piped, aborted>>

\* Mutant: the signal is looked at only between reads.
MutServes == TRUE

Serves == ~aborted

StopsServing ==
  /\ stage \in Negotiating /\ Satisfied /\ ~Serves
  /\ Closed
  /\ UNCHANGED <<given, read, buffer, want, replies, piped, aborted>>

At(s) == stage = s /\ Satisfied /\ Serves

(* The generator writes a reply, none or one, and yields, asks for a tunnel  *)
(* or returns.                                                              *)
Resumed(reply) ==
  /\ buffer' = SubSeq(buffer, Consumed + 1, Len(buffer))
  /\ replies' = replies \o reply
  /\ UNCHANGED <<given, read, piped, aborted>>

Yields(reply, next, size) ==
  /\ Resumed(reply)
  /\ stage' = next /\ want' = size
  /\ UNCHANGED <<tunnel, tcp>>

Asks ==
  /\ Resumed(<<>>)
  /\ stage' = IF Version(stage) = 4 THEN "asking4" ELSE "asking5"
  /\ tunnel' = "asked"
  /\ UNCHANGED <<want, tcp>>

Returns(reply) == Resumed(reply) /\ Closed /\ UNCHANGED want

(* The generator awaits a validate, and is not resumed by the loop after it.  *)
Validates(next) == Yields(<<>>, next, want)

-----------------------------------------------------------------------------
(* The generator: handleProtocol and handleSocks4.                          *)

Starts == At("start") /\ Yields(<<>>, "version", 1)

ReadsVersion ==
  /\ At("version")
  /\ \/ Taken[1] = 4 /\ config.socks4 /\ Yields(<<>>, "s4", 8)
     \/ Taken[1] = 5 /\ config.socks5 /\ Yields(<<>>, "s5", 2)
     \/ Taken[1] = 4 /\ ~config.socks4 /\ Returns(<<>>)
     \/ Taken[1] = 5 /\ ~config.socks5 /\ Returns(<<>>)
     \/ Taken[1] \notin {4, 5} /\ Returns(<<>>)

Connect == 1

(* 0.0.0.x, not 0.0.0.0, announces the name of a host after the user.        *)
NamesHost(address) == SubSeq(address, 1, 3) = <<0, 0, 0>> /\ address[4] # 0

Socks4Header ==
  /\ At("s4")
  /\ IF Taken[2] # Connect THEN Returns(<<"refused">>)
     ELSE Yields(<<>>, IF NamesHost(SubSeq(Taken, 5, 8)) THEN "s4auser" ELSE "s4user", UntilZero)

Socks4User ==
  \/ At("s4user") /\ config.auth4 /\ Validates("validating4")
  \/ At("s4auser") /\ config.auth4 /\ Validates("validating4a")
  \/ At("s4user") /\ ~config.auth4 /\ Asks
  \/ At("s4auser") /\ ~config.auth4 /\ Yields(<<>>, "s4host", UntilZero)

Socks4Host == At("s4host") /\ Asks

-----------------------------------------------------------------------------
(* handleSocks5.                                                            *)

(* Its version is that of the byte that was looked at.                       *)
Socks5Greeting == At("s5") /\ Yields(<<>>, "methods", Taken[2])

\* Mutant: authentication is required only of those that offer it.
MutChosen(methods) ==
  IF config.auth5 # "disabled" /\ 2 \in methods THEN "userpass"
  ELSE IF 0 \in methods THEN "none"
  ELSE "unacceptable"

Chosen(methods) ==
  IF config.auth5 # "disabled" /\ 2 \in methods THEN "userpass"
  ELSE IF config.auth5 # "required" /\ 0 \in methods THEN "none"
  ELSE "unacceptable"

Socks5Methods ==
  /\ At("methods")
  /\ LET chosen == Chosen(ToSet(Taken))
     IN \/ chosen = "unacceptable" /\ Returns(<<chosen>>)
        \/ chosen = "userpass" /\ Yields(<<chosen>>, "auth", 2)
        \/ chosen = "none" /\ Yields(<<chosen>>, "request", 4)

Socks5Auth ==
  \/ At("auth") /\ Taken[1] # 1 /\ Returns(<<>>)
  \/ At("auth") /\ Taken[1] = 1 /\ Yields(<<>>, "user", Taken[2])
  \/ At("user") /\ Yields(<<>>, "passlen", 1)
  \/ At("passlen") /\ Yields(<<>>, "pass", Taken[1])
  \/ At("pass") /\ Validates("validating5")

Socks5Request ==
  /\ At("request")
  /\ \/ Taken[1] # 5 /\ Returns(<<>>)
     \/ Taken[1] = 5 /\ Taken[2] # Connect /\ Returns(<<"refused">>)
     \/ /\ Taken[1] = 5 /\ Taken[2] = Connect
        /\ \/ Taken[4] = 1 /\ Yields(<<>>, "ipv4", 4)
           \/ Taken[4] = 4 /\ Yields(<<>>, "ipv6", 16)
           \/ Taken[4] = 3 /\ Yields(<<>>, "domainlen", 1)
           \/ Taken[4] \notin {1, 3, 4} /\ Returns(<<"refused">>)

Socks5Address ==
  \/ (At("ipv4") \/ At("ipv6") \/ At("domain")) /\ Yields(<<>>, "port", 2)
  \/ At("domainlen") /\ Yields(<<>>, "domain", Taken[1])
  \/ At("port") /\ Asks

-----------------------------------------------------------------------------
(* The end of a validation.  Version 4 asks for the tunnel right after it    *)
(* when the request had an address; elsewhere the loop looks at the signal    *)
(* before anything else.                                                    *)

Accepted ==
  /\ config.valid
  /\ \/ /\ stage = "validating4"
        /\ stage' = "asking4" /\ tunnel' = "asked" /\ UNCHANGED <<want, replies>>
     \/ /\ stage = "validating4a"
        /\ stage' = "s4host" /\ want' = UntilZero /\ UNCHANGED <<tunnel, replies>>
     \/ /\ stage = "validating5"
        /\ stage' = "request" /\ want' = 4 /\ replies' = replies \o <<"accepted">>
        /\ UNCHANGED tunnel
  /\ UNCHANGED <<given, read, buffer, piped, tcp, aborted>>

Rejected ==
  /\ stage \in Validating /\ ~config.valid
  /\ replies' = Append(replies, IF stage = "validating5" THEN "failed" ELSE "refused")
  /\ Closed
  /\ UNCHANGED <<given, read, buffer, want, piped, aborted>>

(* It throws, or the write of its outcome fails.                             *)
ValidationFails ==
  /\ stage \in Validating
  /\ Closed
  /\ UNCHANGED <<given, read, buffer, want, replies, piped, aborted>>

-----------------------------------------------------------------------------
(* The tunnel.                                                              *)

(* There is a tunnel and the application is told.  Nobody closes the tunnel  *)
(* if that fails.                                                            *)
Granted ==
  /\ stage \in {"asking4", "asking5"}
  /\ tunnel' = IF aborted THEN "closed" ELSE "open"
  /\ replies' = Append(replies, "granted")
  /\ stage' = IF aborted THEN "closed" ELSE IF buffer = <<>> THEN "piping" ELSE "remaining"
  /\ tcp' = IF aborted /\ tcp = "open" THEN "closed" ELSE tcp
  /\ UNCHANGED <<given, read, buffer, want, piped, aborted>>

GrantFails ==
  /\ stage \in {"asking4", "asking5"} /\ tcp = "broken"
  /\ tunnel' = "open" /\ stage' = "closed"
  /\ UNCHANGED <<given, read, buffer, want, replies, piped, tcp, aborted>>

(* Version 4 does not catch what createTunnel throws.                        *)
Refused ==
  /\ stage \in {"asking4", "asking5"}
  /\ \/ replies' = Append(replies, "refused")
     \/ (stage = "asking4" \/ tcp = "broken") /\ UNCHANGED replies
  /\ stage' = "closed" /\ tunnel' = "none"
  /\ tcp' = IF tcp = "broken" THEN tcp ELSE "closed"
  /\ UNCHANGED <<given, read, buffer, want, piped, aborted>>

WritesRemaining ==
  /\ stage = "remaining"
  /\ piped' = buffer /\ buffer' = <<>>
  /\ stage' = "piping"
  /\ UNCHANGED <<given, read, want, replies, tunnel, tcp, aborted>>

RemainingFails ==
  /\ stage = "remaining"
  /\ Closed
  /\ UNCHANGED <<given, read, buffer, want, replies, piped, aborted>>

Pipes ==
  /\ stage = "piping"
  /\ \E k \in 1..Len(input) - read :
       /\ read' = read + k
       /\ piped' = piped \o SubSeq(input, read + 1, read + k)
  /\ UNCHANGED <<given, buffer, request, replies, tunnel, tcp, aborted>>

(* One pipe fails, or both are through.                                     *)
PipesEnd ==
  /\ stage = "piping"
  /\ Closed
  /\ UNCHANGED <<given, read, buffer, want, replies, piped, aborted>>

-----------------------------------------------------------------------------
(* What happens to the connection.                                          *)

Breaks ==
  /\ tcp = "open"
  /\ tcp' = "broken"
  /\ UNCHANGED <<given, read, buffer, request, replies, tunnel, piped, aborted>>

(* closeConnections listens only while the connection is piped.              *)
Abort ==
  /\ ~aborted
  /\ aborted' = TRUE
  /\ IF stage = "piping" THEN Closed ELSE UNCHANGED <<stage, tcp, tunnel>>
  /\ UNCHANGED <<given, read, buffer, want, replies, piped>>

Done == stage = "closed" /\ UNCHANGED vars

Generator ==
  \/ Starts \/ ReadsVersion \/ Socks4Header \/ Socks4User \/ Socks4Host
  \/ Socks5Greeting \/ Socks5Methods \/ Socks5Auth \/ Socks5Request \/ Socks5Address

Serving == Generator \/ StopsServing \/ Fails

Next ==
  \/ Read \/ Serving
  \/ Accepted \/ Rejected \/ ValidationFails
  \/ Granted \/ GrantFails \/ Refused
  \/ WritesRemaining \/ RemainingFails \/ Pipes \/ PipesEnd
  \/ Breaks \/ Abort \/ Done

Spec == Init /\ [][Next]_vars

(* What the generator asked for is served, and the deadline of a read fires.  *)
(* No application has to send anything, no validate has to answer and no      *)
(* tunnel has to be there.                                                  *)
Fairness == WF_vars(Serving)

FairSpec == Spec /\ Fairness

-----------------------------------------------------------------------------
(* The negotiation as the protocols define it, over the whole input: where   *)
(* its parts end, whether the policy of the server is met, and what the      *)
(* application is told before the answer.                                   *)

(* Version 5.                                                               *)
MethodsEnd == 2 + input[2]
Methods == {input[i] : i \in 3..MethodsEnd}
UserPass == config.auth5 # "disabled" /\ 2 \in Methods
UserEnd == MethodsEnd + 2 + input[MethodsEnd + 2]
AuthEnd == IF UserPass THEN UserEnd + 1 + input[UserEnd + 1] ELSE MethodsEnd
AddressType == input[AuthEnd + 4]
AddressEnd ==
  AuthEnd + 4 + (CASE AddressType = 1 -> 4 [] AddressType = 4 -> 16
                   [] AddressType = 3 -> 1 + input[AuthEnd + 5])
MayRequest == IF UserPass THEN config.valid ELSE config.auth5 # "required" /\ 0 \in Methods

(* Version 4: the zero that ends the user, and the one after it that ends    *)
(* the host.                                                                *)
Zeros == {i \in 9..Len(input) : input[i] = 0}
NameEnd == Min(Zeros)
HostEnd == Min(Zeros \ {NameEnd})
Named == input[5] = 0 /\ input[6] = 0 /\ input[7] = 0 /\ input[8] # 0

Rejected4 == config.auth4 /\ ~config.valid

IsSocks4 == input[1] = 4

NegotiationEnd ==
  IF IsSocks4 THEN IF Named THEN HostEnd ELSE NameEnd ELSE AddressEnd + 2

PolicyMet ==
  IF IsSocks4
  THEN config.socks4 /\ ~Rejected4 /\ input[2] = Connect
  ELSE config.socks5 /\ MayRequest /\ input[AuthEnd + 1] = 5 /\ input[AuthEnd + 2] = Connect

Told == IF IsSocks4 THEN <<>> ELSE IF UserPass THEN <<"userpass", "accepted">> ELSE <<"none">>

Agreed == stage \in {"asking4", "asking5", "remaining", "piping"}

(* However the bytes are cut into chunks, the negotiation takes exactly its   *)
(* own: what the application sent ahead of the reply reaches the tunnel, all  *)
(* of it, in order and before what is piped.                                 *)
NothingSwallowed ==
  Agreed => piped \o buffer \o SubSeq(input, read + 1, Len(input))
              = SubSeq(input, NegotiationEnd + 1, Len(input))

(* A tunnel is asked for only when the policy of the server was met, after   *)
(* the replies the protocol has before it; the application is told of the    *)
(* tunnel, once, before any byte of it; and the tunnel is closed with the    *)
(* connection, unless the connection broke before it was told                *)
(* (socks5.handler.ts:296).                                                  *)
TunnelAsAgreed ==
  /\ Agreed => PolicyMet
  /\ stage \in {"asking4", "asking5"} => replies = Told
  /\ stage \in {"remaining", "piping"} => replies = Append(Told, "granted")
  /\ stage = "closed" /\ tunnel = "open" => tcp = "broken"

Served == {"remaining", "piping"}

(* Once the server is aborted no connection starts to be served, whatever was *)
(* awaited when the signal came (socks.server.ts:198).  Nor does any ask for  *)
(* a tunnel that is then of no use, whatever its buffer already holds         *)
(* (socks.server.ts:141), but one: the validation of version 4 goes on to the *)
(* request of an address by itself (socks4.handler.ts:75, 115).              *)
AbortHeeded ==
  /\ [](aborted /\ stage \notin Served => [](stage \notin Served))
  /\ [](aborted /\ stage \in Negotiating \cup {"validating4a", "validating5"}
          => [](tunnel = "none"))

(* An application that falls silent anywhere in the negotiation loses its    *)
(* connection (the deadline of socks.server.ts:180).                         *)
NegotiationEnds == stage \in Negotiating ~> stage \notin Negotiating

=============================================================================
