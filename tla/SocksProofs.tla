------------------------------ MODULE SocksProofs ------------------------------
(***************************************************************************)
(* That the negotiation takes exactly its bytes and gets a tunnel only as    *)
(* agreed, for all inputs, all ways to cut them into chunks and all options. *)
(*                                                                         *)
(* Both properties compare the run of the generator with a reading of the    *)
(* whole input.  The invariant that relates the two says, for every place of *)
(* the generator, at which position of the input it stands, how much it asks *)
(* for there, and what it has found out on its way; what is between the      *)
(* position and what was read is in the buffer.                             *)
(***************************************************************************)
EXTENDS Socks, SequenceTheorems, WellFoundedInduction, TLAPS

(* Where the generator stands.                                              *)
Position ==
  CASE stage \in {"start", "version", "s4", "s5"} -> 0
    [] stage \in {"s4user", "s4auser"} -> 8
    [] stage \in {"validating4", "validating4a", "s4host"} -> NameEnd
    [] stage = "methods" -> 2
    [] stage = "auth" -> MethodsEnd
    [] stage = "user" -> MethodsEnd + 2
    [] stage = "passlen" -> UserEnd
    [] stage = "pass" -> UserEnd + 1
    [] stage \in {"validating5", "request"} -> AuthEnd
    [] stage \in {"ipv4", "ipv6", "domainlen"} -> AuthEnd + 4
    [] stage = "domain" -> AuthEnd + 5
    [] stage = "port" -> AddressEnd
    [] OTHER -> NegotiationEnd

(* What it asks for there.                                                  *)
Wanted ==
  CASE stage = "start" -> 0
    [] stage = "version" -> 1
    [] stage = "s4" -> 8
    [] stage \in {"s4user", "s4auser", "s4host"} -> UntilZero
    [] stage = "s5" -> 2
    [] stage = "methods" -> input[2]
    [] stage = "auth" -> 2
    [] stage = "user" -> input[MethodsEnd + 2]
    [] stage = "passlen" -> 1
    [] stage = "pass" -> input[UserEnd + 1]
    [] stage = "request" -> 4
    [] stage = "ipv4" -> 4
    [] stage = "ipv6" -> 16
    [] stage = "domainlen" -> 1
    [] stage = "domain" -> input[AuthEnd + 5]
    [] stage = "port" -> 2
    [] OTHER -> want

Least(i, S) == i \in S /\ \A j \in S : i <= j

Authenticating == {"auth", "user", "passlen", "pass", "validating5"}
Addressing == {"ipv4", "ipv6", "domainlen", "domain", "port"}

(* What the generator has found out, and has told the application.           *)
Learned4 ==
  /\ stage \in Socks4 \cup {"validating4", "validating4a"} =>
       input[1] = 4 /\ config.socks4 /\ replies = <<>>
  /\ stage \in (Socks4 \ {"s4"}) \cup {"validating4", "validating4a"} => input[2] = Connect
  /\ stage \in {"s4user", "validating4"} => ~Named
  /\ stage \in {"s4auser", "validating4a", "s4host"} => Named
  /\ stage \in {"validating4a", "s4host"} => Least(NameEnd, Zeros)
  /\ stage = "s4host" => ~Rejected4

Learned5 ==
  /\ stage \in Socks5 \cup {"validating5"} => input[1] = 5 /\ config.socks5
  /\ stage \in {"s5", "methods"} => replies = <<>>
  /\ stage \in Authenticating => UserPass /\ replies = <<"userpass">>
  /\ stage \in {"request"} \cup Addressing => MayRequest /\ replies = Told
  /\ stage \in Addressing =>
       AuthEnd \in Nat /\ input[AuthEnd + 1] = 5 /\ input[AuthEnd + 2] = Connect
  /\ stage = "ipv4" => AddressType = 1
  /\ stage = "ipv6" => AddressType = 4
  /\ stage \in {"domainlen", "domain"} => AddressType = 3
  /\ stage = "port" => AddressType \in {1, 3, 4}

Asking == {"asking4", "asking5"}

LearnedAll ==
  /\ stage \in {"start", "version"} => replies = <<>>
  /\ Agreed => PolicyMet
  /\ stage \in Asking => replies = Told
  /\ stage \in {"remaining", "piping"} => replies = Append(Told, "granted")

(* What was read and not yet taken is in the buffer, and nothing is in the   *)
(* tunnel before it; what was read after it went into the tunnel.            *)
Window ==
  LET p == Position
  IN /\ stage \in Negotiating \cup Validating \cup Asking \cup {"remaining"} =>
          p \in 0..read /\ buffer = SubSeq(input, p + 1, read) /\ piped = <<>>
     /\ stage = "piping" =>
          p \in 0..read /\ buffer = <<>> /\ piped = SubSeq(input, p + 1, read)

TunnelFits ==
  /\ stage \in Negotiating \cup Validating => tunnel = "none"
  /\ stage = "closed" /\ tunnel = "open" => tcp = "broken"

(* The sizes that version 5 finds in its input are behind it.                *)
Begun == stage \in (Socks5 \ {"s5"}) \cup {"validating5"} => Position > 0

SocksInv ==
  /\ TypeOK
  /\ Window /\ Begun
  /\ stage \in Negotiating => want = Wanted
  /\ LearnedAll /\ Learned4 /\ Learned5
  /\ TunnelFits

-----------------------------------------------------------------------------
(* Windows of a sequence: the elements from u + 1 to r.                      *)

Bytes == 0..255

LEMMA WindowIs ==
  ASSUME NEW S, NEW s \in Seq(S), NEW r \in 0..Len(s), NEW u \in 0..r
  PROVE  /\ SubSeq(s, u + 1, r) \in Seq(S)
         /\ Len(SubSeq(s, u + 1, r)) = r - u
         /\ \A i \in 1..r - u : SubSeq(s, u + 1, r)[i] = s[u + i] /\ s[u + i] \in S
<1>1. Len(s) \in Nat /\ u + 1 \in Int /\ r \in Int
  BY LenProperties
<1>2. \A i \in u + 1..r : s[i] \in S
  <2> TAKE i \in u + 1..r
  <2>1. i \in 1..Len(s)
    BY <1>1
  <2> QED
    BY <2>1, ElementOfSeq
<1>3. /\ SubSeq(s, u + 1, r) \in Seq(S)
      /\ Len(SubSeq(s, u + 1, r)) = IF u + 1 <= r THEN r - (u + 1) + 1 ELSE 0
      /\ \A i \in 1..r - (u + 1) + 1 : SubSeq(s, u + 1, r)[i] = s[u + 1 + i - 1]
  BY <1>1, <1>2, SubSeqProperties
<1>4. Len(SubSeq(s, u + 1, r)) = r - u
  BY <1>1, <1>3
<1>5. ASSUME NEW i \in 1..r - u
      PROVE  SubSeq(s, u + 1, r)[i] = s[u + i] /\ s[u + i] \in S
  <2>1. i \in 1..r - (u + 1) + 1 /\ u + 1 + i - 1 = u + i /\ u + i \in u + 1..r
    BY <1>1
  <2> QED
    BY <1>2, <1>3, <2>1
<1> QED
  BY <1>3, <1>4, <1>5

(* More is read: the window grows at its end.                               *)
LEMMA WindowGrows ==
  ASSUME NEW S, NEW s \in Seq(S), NEW r \in 0..Len(s), NEW u \in 0..r,
         NEW k \in 1..Len(s) - r
  PROVE  SubSeq(s, u + 1, r) \o SubSeq(s, r + 1, r + k) = SubSeq(s, u + 1, r + k)
<1>1. Len(s) \in Nat
  BY LenProperties
<1>2. u + 1 \in 1..Len(s) + 1 /\ r \in (u + 1) - 1..Len(s) /\ r + k \in r..Len(s)
  BY <1>1
<1> QED
  BY <1>2, ConcatAdjacentSubSeq

(* Something is taken: what is taken is what the window began with, and the  *)
(* window moves on by it.                                                   *)
LEMMA WindowMoves ==
  ASSUME NEW S, NEW s \in Seq(S), NEW r \in 0..Len(s), NEW u \in 0..r,
         NEW b, b = SubSeq(s, u + 1, r), NEW n \in 0..Len(b)
  PROVE  /\ Len(b) = r - u /\ b \in Seq(S) /\ u + n \in 0..r
         /\ SubSeq(b, 1, n) \in Seq(S) /\ Len(SubSeq(b, 1, n)) = n
         /\ \A i \in 1..n : SubSeq(b, 1, n)[i] = s[u + i] /\ s[u + i] \in S
         /\ SubSeq(b, n + 1, Len(b)) = SubSeq(s, u + n + 1, r)
<1>1. /\ b \in Seq(S) /\ Len(b) = r - u
      /\ \A i \in 1..r - u : b[i] = s[u + i] /\ s[u + i] \in S
  BY WindowIs
<1>2. r - u \in Nat /\ n \in 0..r - u /\ u + n \in 0..r /\ Len(b) \in Nat /\ r \in Nat
  BY <1>1, LenProperties
<1>3. /\ SubSeq(b, 0 + 1, n) \in Seq(S)
      /\ Len(SubSeq(b, 0 + 1, n)) = n - 0
      /\ \A i \in 1..n - 0 : SubSeq(b, 0 + 1, n)[i] = b[0 + i] /\ b[0 + i] \in S
  <2> DEFINE z == 0
  <2>1. n \in 0..Len(b) /\ z \in 0..n
    BY <1>2
  <2> HIDE DEF z
  <2>2. /\ SubSeq(b, z + 1, n) \in Seq(S)
        /\ Len(SubSeq(b, z + 1, n)) = n - z
        /\ \A i \in 1..n - z : SubSeq(b, z + 1, n)[i] = b[z + i] /\ b[z + i] \in S
    BY <1>1, <2>1, WindowIs
  <2> QED
    BY <2>2 DEF z
<1>4. SubSeq(b, 0 + 1, n) = SubSeq(b, 1, n) /\ n - 0 = n
  BY <1>2
<1>5. ASSUME NEW i \in 1..n
      PROVE  SubSeq(b, 1, n)[i] = s[u + i] /\ s[u + i] \in S
  <2>1. i \in 1..n - 0 /\ 0 + i = i /\ i \in 1..r - u
    BY <1>2
  <2> QED
    BY <1>1, <1>3, <1>4, <2>1
<1> DEFINE m == Len(b)
           x == SubSeq(b, n + 1, m)
           v == u + n
           y == SubSeq(s, v + 1, r)
<1>6. m \in 0..Len(b) /\ n \in 0..m /\ v \in 0..r /\ m = r - u /\ v = u + n /\ m \in Nat /\ n \in Nat
  BY <1>1, <1>2
<1>7. /\ x \in Seq(S) /\ Len(x) = m - n
      /\ \A i \in 1..m - n : x[i] = b[n + i] /\ b[n + i] \in S
  BY <1>1, <1>6, WindowIs
<1>8. /\ y \in Seq(S) /\ Len(y) = r - v
      /\ \A i \in 1..r - v : y[i] = s[v + i] /\ s[v + i] \in S
  BY <1>6, WindowIs
<1> HIDE DEF x, y, m, v
<1>9. m - n = r - v
  BY <1>2, <1>6
<1>10. ASSUME NEW i \in 1..m - n
       PROVE  x[i] = y[i]
  <2>1. n + i \in 1..r - u /\ u + (n + i) = v + i
    BY <1>2, <1>6
  <2> QED
    BY <1>1, <1>7, <1>8, <1>9, <2>1
<1>11. x = y
  <2>1. Len(x) = Len(y) /\ \A i \in 1..Len(x) : x[i] = y[i]
    BY <1>7, <1>8, <1>9, <1>10
  <2> QED
    BY <1>7, <1>8, <2>1, SeqEqual
<1>12. SubSeq(b, n + 1, Len(b)) = SubSeq(s, u + n + 1, r)
  BY <1>11 DEF x, y, m, v
<1> QED
  BY <1>1, <1>2, <1>3, <1>4, <1>5, <1>12

-----------------------------------------------------------------------------
(* The first zero.                                                          *)

(* A set of numbers that is not empty has a least one, and Min returns it.   *)
LEMMA MinIs ==
  ASSUME NEW T \in SUBSET Nat, T # {}
  PROVE  Min(T) \in T /\ \A i \in T : Min(T) <= i
<1>1. \E x \in T : \A y \in T : ~(<<y, x>> \in OpToRel(<, Nat))
  BY NatLessThanWellFounded, WFMin
<1>2. PICK x \in T : \A y \in T : ~(<<y, x>> \in OpToRel(<, Nat))
  BY <1>1
<1>3. \A y \in T : x <= y
  <2> TAKE y \in T
  <2>1. ~(y < x)
    BY <1>2 DEF OpToRel
  <2> QED
    BY <2>1
<1> QED
  BY <1>3 DEF Min

LEMMA MinIsLeast ==
  ASSUME NEW T \in SUBSET Nat, NEW i, Least(i, T)
  PROVE  Min(T) = i
<1>1. Min(T) \in T /\ Min(T) <= i /\ i <= Min(T)
  BY MinIs DEF Least
<1>2. Min(T) \in Nat /\ i \in Nat
  BY <1>1 DEF Least
<1> QED
  BY <1>1, <1>2

LEMMA FirstZeroIs ==
  ASSUME buffer \in Seq(Bytes)
  PROVE  /\ FirstZero \in 0..Len(buffer)
         /\ FirstZero > 0 => /\ buffer[FirstZero] = 0
                             /\ \A i \in 1..FirstZero - 1 : buffer[i] # 0
<1> DEFINE T == {i \in 1..Len(buffer) : buffer[i] = 0}
<1>1. FirstZero = IF T # {} THEN Min(T) ELSE 0
  BY DEF FirstZero, SelectInSeq
<1>2. Len(buffer) \in Nat
  BY LenProperties
<1>3. CASE T = {}
  BY <1>1, <1>2, <1>3
<1>4. CASE T # {}
  <2>1. FirstZero \in T /\ \A i \in T : FirstZero <= i
    <3>1. T \in SUBSET Nat
      BY <1>2
    <3> QED
      BY <1>1, <1>4, <3>1, MinIs
  <2>2. FirstZero \in 1..Len(buffer) /\ buffer[FirstZero] = 0
    BY <2>1
  <2>3. ASSUME NEW i \in 1..FirstZero - 1
        PROVE  buffer[i] # 0
    <3>1. i \in 1..Len(buffer) /\ ~(FirstZero <= i)
      BY <1>2, <2>2
    <3> QED
      BY <2>1, <3>1
  <2> QED
    BY <1>2, <2>2, <2>3
<1> QED
  BY <1>3, <1>4

-----------------------------------------------------------------------------
(* What all steps have in common.                                           *)

Reply == {"none", "userpass", "unacceptable", "accepted", "failed", "granted", "refused"}

LEMMA InputIs ==
  ASSUME TypeOK
  PROVE  input \in Seq(Bytes) /\ Len(input) \in Nat /\ read \in 0..Len(input) /\ read \in Nat
<1>1. input \in Seq(Bytes)
  BY SocksAssumption DEF TypeOK, Bytes
<1>2. Len(input) \in Nat
  BY <1>1, LenProperties
<1> QED
  BY <1>1, <1>2 DEF TypeOK

(* The reading of the input does not depend on the run.                      *)
LEMMA ReadingStays ==
  ASSUME UNCHANGED given
  PROVE  /\ MethodsEnd' = MethodsEnd /\ UserEnd' = UserEnd /\ AuthEnd' = AuthEnd
         /\ AddressType' = AddressType /\ AddressEnd' = AddressEnd
         /\ Zeros' = Zeros /\ NameEnd' = NameEnd /\ NegotiationEnd' = NegotiationEnd
         /\ (UserPass' <=> UserPass) /\ (MayRequest' <=> MayRequest) /\ (PolicyMet' <=> PolicyMet)
         /\ (Named' <=> Named) /\ (IsSocks4' <=> IsSocks4) /\ (Rejected4' <=> Rejected4)
         /\ Told' = Told
         /\ config' = config /\ input' = input
<1>1. config' = config /\ input' = input
  BY DEF given
<1>2. MethodsEnd' = MethodsEnd /\ Methods' = Methods /\ (Named' <=> Named) /\ (IsSocks4' <=> IsSocks4)
      /\ (Rejected4' <=> Rejected4) /\ Zeros' = Zeros
  BY <1>1 DEF MethodsEnd, Methods, Named, IsSocks4, Rejected4, Zeros
<1>3. (UserPass' <=> UserPass) /\ UserEnd' = UserEnd /\ NameEnd' = NameEnd /\ HostEnd' = HostEnd
  BY <1>1, <1>2 DEF UserPass, UserEnd, NameEnd, HostEnd
<1>4. AuthEnd' = AuthEnd /\ (MayRequest' <=> MayRequest) /\ Told' = Told
  BY <1>1, <1>2, <1>3 DEF AuthEnd, MayRequest, Told
<1>5. AddressType' = AddressType
  BY <1>1, <1>4 DEF AddressType
<1>6. AddressEnd' = AddressEnd
  BY <1>1, <1>4, <1>5 DEF AddressEnd
<1>7. NegotiationEnd' = NegotiationEnd
  BY <1>2, <1>3, <1>6 DEF NegotiationEnd
<1>8. PolicyMet' <=> PolicyMet
  BY <1>1, <1>2, <1>4 DEF PolicyMet
<1> QED
  BY <1>1, <1>2, <1>3, <1>4, <1>5, <1>6, <1>7, <1>8

(* What the generator is given is what is at its position.                   *)
LEMMA Takes ==
  ASSUME SocksInv, stage \in Negotiating, Satisfied
  PROVE  /\ Position \in 0..read /\ ReadTo \in 0..Len(buffer) /\ Position + ReadTo \in 0..read
         /\ Taken \in Seq(Bytes) /\ Len(Taken) = ReadTo
         /\ \A i \in 1..ReadTo : Taken[i] = input[Position + i] /\ input[Position + i] \in Bytes
         /\ Consumed \in 0..Len(buffer) /\ Position + Consumed \in 0..read
         /\ SubSeq(buffer, Consumed + 1, Len(buffer)) = SubSeq(input, Position + Consumed + 1, read)
         /\ want # UntilZero => ReadTo = want
         /\ want = UntilZero => /\ ReadTo \in 1..Len(buffer)
                                /\ input[Position + ReadTo] = 0
                                /\ \A i \in 1..ReadTo - 1 : input[Position + i] # 0
<1> DEFINE p == Position
<1>1. input \in Seq(Bytes) /\ read \in 0..Len(input) /\ want \in -1..255 /\ buffer \in Seq(Bytes)
  BY InputIs DEF SocksInv, TypeOK, Bytes
<1>2. p \in 0..read /\ buffer = SubSeq(input, p + 1, read)
  BY DEF SocksInv, Window, Validating
<1>3. Len(buffer) \in Nat
  BY <1>1, LenProperties
<1>4. ReadTo \in 0..Len(buffer) /\ (want # UntilZero => ReadTo = want)
      /\ (want = UntilZero => ReadTo \in 1..Len(buffer) /\ ReadTo = FirstZero)
  BY <1>1, <1>3, FirstZeroIs DEF ReadTo, Satisfied, UntilZero
<1>5. Consumed \in 0..Len(buffer)
  BY <1>3, <1>4 DEF Consumed
<1> DEFINE n == ReadTo
           c == Consumed
<1> HIDE DEF p, n, c
<1>6. /\ Len(buffer) = read - p /\ buffer \in Seq(Bytes) /\ p + n \in 0..read
      /\ SubSeq(buffer, 1, n) \in Seq(Bytes) /\ Len(SubSeq(buffer, 1, n)) = n
      /\ \A i \in 1..n : SubSeq(buffer, 1, n)[i] = input[p + i] /\ input[p + i] \in Bytes
  <2>1. n \in 0..Len(buffer)
    BY <1>4 DEF n
  <2> QED
    <3>1. Len(buffer) = read - p /\ buffer \in Seq(Bytes) /\ p + n \in 0..read
      BY <1>1, <1>2, <2>1, WindowMoves
    <3>2. SubSeq(buffer, 1, n) \in Seq(Bytes) /\ Len(SubSeq(buffer, 1, n)) = n
      BY <1>1, <1>2, <2>1, WindowMoves
    <3>3. \A i \in 1..n : SubSeq(buffer, 1, n)[i] = input[p + i] /\ input[p + i] \in Bytes
      BY <1>1, <1>2, <2>1, WindowMoves
    <3> QED
      BY <3>1, <3>2, <3>3
<1>7. p + c \in 0..read /\ SubSeq(buffer, c + 1, Len(buffer)) = SubSeq(input, p + c + 1, read)
  <2>1. c \in 0..Len(buffer)
    BY <1>5 DEF c
  <2> QED
    BY <1>1, <1>2, <2>1, WindowMoves
<1>8. ASSUME want = UntilZero
      PROVE  input[p + n] = 0 /\ \A i \in 1..n - 1 : input[p + i] # 0
  <2>1. n \in 1..Len(buffer) /\ n = FirstZero
    BY <1>4, <1>8 DEF n
  <2>2. buffer[n] = 0 /\ \A i \in 1..n - 1 : buffer[i] # 0
    BY <1>1, <1>3, <2>1, FirstZeroIs
  <2>3. \A i \in 1..read - p : buffer[i] = input[p + i]
    BY <1>1, <1>2, WindowIs
  <2>4. n \in 1..read - p /\ \A i \in 1..n - 1 : i \in 1..read - p
    BY <1>3, <1>6, <2>1
  <2> QED
    BY <2>2, <2>3, <2>4
<1> QED
  BY <1>2, <1>4, <1>5, <1>6, <1>7, <1>8 DEF p, n, c, Taken

(* The generator moves on by what it took: nothing is lost between buffer    *)
(* and input.                                                               *)
LEMMA Moves ==
  ASSUME SocksInv, stage \in Negotiating, Satisfied, NEW reply \in Seq(Reply), Resumed(reply),
         stage' \in Negotiating \cup Validating \cup Asking, want' \in -1..255, UNCHANGED tcp,
         tunnel' = IF stage' \in Asking THEN "asked" ELSE "none",
         Position' = Position + Consumed
  PROVE  TypeOK' /\ Window' /\ TunnelFits' /\ replies' = replies \o reply /\ UNCHANGED given
<1>1. /\ Position + Consumed \in 0..read
      /\ SubSeq(buffer, Consumed + 1, Len(buffer)) = SubSeq(input, Position + Consumed + 1, read)
  BY Takes
<1>2. /\ buffer' = SubSeq(buffer, Consumed + 1, Len(buffer))
      /\ replies' = replies \o reply /\ UNCHANGED <<given, read, piped, aborted>>
  BY DEF Resumed
<1>3. piped = <<>>
  BY DEF SocksInv, Window, Validating
<1>4. config' = config /\ input' = input /\ read' = read /\ piped' = piped /\ aborted' = aborted
  BY <1>2 DEF given
<1>5. Window'
  <2>1. Position' \in 0..read' /\ buffer' = SubSeq(input', Position' + 1, read') /\ piped' = <<>>
    BY <1>1, <1>2, <1>3, <1>4
  <2>2. stage' # "piping"
    BY DEF Negotiating, Validating, Asking, Socks4, Socks5
  <2> QED
    BY <2>1, <2>2 DEF Window, Validating
<1>6. buffer' \in Seq(Bytes)
  <2>1. input \in Seq(Bytes) /\ read \in 0..Len(input)
    BY InputIs DEF SocksInv
  <2> DEFINE q == Position + Consumed
  <2>2. q \in 0..read /\ buffer' = SubSeq(input, q + 1, read)
    BY <1>1, <1>2
  <2> HIDE DEF q
  <2> QED
    BY <2>1, <2>2, WindowIs
<1>7. replies' \in Seq(Reply)
  <2>1. replies \in Seq(Reply)
    BY DEF SocksInv, TypeOK, Reply
  <2> QED
    BY <1>2, <2>1, ConcatProperties
<1>8. TypeOK'
  BY <1>4, <1>6, <1>7 DEF SocksInv, TypeOK, Asking, Bytes, Reply
<1>9. TunnelFits'
  BY DEF TunnelFits, Validating, Negotiating, Asking, Socks4, Socks5
<1> QED
  BY <1>2, <1>5, <1>8, <1>9

(* Of a connection that is closed little is to be said.                      *)
LEMMA Closes ==
  ASSUME TypeOK', stage' = "closed", tunnel' = "open" => tcp' = "broken"
  PROVE  SocksInv'
<1>1. /\ stage' \notin Negotiating /\ stage' \notin Socks4 /\ stage' \notin Socks5
      /\ stage' \notin Authenticating /\ stage' \notin Addressing /\ stage' \notin Asking
      /\ ~Agreed'
  BY DEF Negotiating, Validating, Socks4, Socks5, Authenticating, Addressing, Asking, Agreed
<1>2. Window' /\ TunnelFits' /\ Begun'
  BY <1>1 DEF Window, Validating, TunnelFits, Begun
<1>3. LearnedAll' /\ Learned4' /\ Learned5'
  BY <1>1 DEF LearnedAll, Learned4, Learned5
<1> QED
  BY <1>1, <1>2, <1>3 DEF SocksInv

(* A step of the generator that yields keeps the invariant when the next     *)
(* place is where the bytes taken end, and what is asked for there and what  *)
(* was found out are right.                                                 *)
LEMMA YieldKeepsInv ==
  ASSUME SocksInv, stage \in Negotiating, Satisfied,
         NEW reply \in Seq(Reply), NEW next \in Negotiating \cup Validating, NEW size \in -1..255,
         Yields(reply, next, size),
         next \in (Socks5 \ {"s5"}) \cup {"validating5"} => stage \in Socks5,
         Position' = Position + Consumed, next \in Negotiating => Wanted' = size,
         LearnedAll', Learned4', Learned5'
  PROVE  SocksInv'
<1>1. Resumed(reply) /\ stage' = next /\ want' = size /\ UNCHANGED <<tunnel, tcp>>
  BY DEF Yields
<1>2. tunnel = "none"
  BY DEF SocksInv, TunnelFits, Validating
<1>3. tunnel' = IF stage' \in Asking THEN "asked" ELSE "none"
  BY <1>1, <1>2 DEF Negotiating, Validating, Asking, Socks4, Socks5
<1>4. TypeOK' /\ Window' /\ TunnelFits'
  BY <1>1, <1>3, Moves
<1>5. Begun'
  <2> SUFFICES ASSUME stage \in Socks5
               PROVE  Position' > 0
    BY <1>1 DEF Begun
  <2>1. Position \in Nat /\ Consumed \in Nat
    BY Takes
  <2>2. CASE stage = "s5"
    <3>1. want = 2
      BY <2>2 DEF SocksInv, Wanted
    <3>2. Consumed = 2
      BY <2>2, <3>1 DEF Consumed, ReadTo, UntilZero
    <3> QED
      BY <2>1, <3>2
  <2>3. CASE stage # "s5"
    <3>1. Position > 0
      BY <2>3 DEF SocksInv, Begun
    <3> QED
      BY <2>1, <3>1
  <2> QED
    BY <2>2, <2>3
<1> QED
  BY <1>1, <1>4, <1>5 DEF SocksInv

LEMMA YieldEffect ==
  ASSUME NEW reply, NEW next, NEW size, Yields(reply, next, size)
  PROVE  stage' = next /\ replies' = replies \o reply /\ UNCHANGED given
  BY DEF Yields, Resumed

LEMMA AskMoves ==
  ASSUME SocksInv, stage \in Negotiating, Satisfied, Asks, Position' = Position + Consumed
  PROVE  /\ TypeOK' /\ Window' /\ TunnelFits' /\ replies' = replies \o <<>> /\ UNCHANGED given
         /\ stage' = IF stage \in Socks4 THEN "asking4" ELSE "asking5"
<1>1. Resumed(<<>>) /\ tunnel' = "asked" /\ want' = want /\ tcp' = tcp
      /\ stage' = IF stage \in Socks4 THEN "asking4" ELSE "asking5"
  BY DEF Asks, Version
<1>2. stage' \in Asking /\ stage' \notin Negotiating
  BY <1>1 DEF Asking, Negotiating, Socks4, Socks5
<1>3. want' \in -1..255 /\ <<>> \in Seq(Reply)
  BY <1>1 DEF SocksInv, TypeOK
<1>4. tunnel' = IF stage' \in Asking THEN "asked" ELSE "none"
  BY <1>1, <1>2
<1> QED
  BY <1>1, <1>2, <1>3, <1>4, Moves

LEMMA ReturnCloses ==
  ASSUME SocksInv, stage \in Negotiating, Satisfied, NEW reply \in Seq(Reply), Returns(reply)
  PROVE  SocksInv'
<1>1. /\ buffer' = SubSeq(buffer, Consumed + 1, Len(buffer)) /\ replies' = replies \o reply
      /\ UNCHANGED <<given, read, piped, aborted>> /\ Closed /\ want' = want
  BY DEF Returns, Resumed
<1>2. config' = config /\ input' = input /\ read' = read /\ piped' = piped /\ aborted' = aborted
  BY <1>1 DEF given
<1>3. stage' = "closed" /\ tunnel' = tunnel /\ tunnel = "none"
      /\ tcp' = IF tcp = "broken" THEN tcp ELSE "closed"
  BY <1>1 DEF Closed, SocksInv, TunnelFits, Validating
<1>4. buffer' \in Seq(Bytes)
  <2>1. input \in Seq(Bytes) /\ read \in 0..Len(input)
    BY InputIs DEF SocksInv
  <2> DEFINE q == Position + Consumed
  <2>2. q \in 0..read /\ buffer' = SubSeq(input, q + 1, read)
    BY <1>1, Takes
  <2> HIDE DEF q
  <2> QED
    BY <2>1, <2>2, WindowIs
<1>5. replies' \in Seq(Reply)
  <2>1. replies \in Seq(Reply)
    BY DEF SocksInv, TypeOK, Reply
  <2> QED
    BY <1>1, <2>1, ConcatProperties
<1>6. TypeOK'
  BY <1>1, <1>2, <1>3, <1>4, <1>5 DEF SocksInv, TypeOK, Bytes, Reply
<1> QED
  BY <1>3, <1>6, Closes

-----------------------------------------------------------------------------
(* The steps of the generator.                                              *)

LEMMA Replying ==
  /\ <<>> \in Seq(Reply) /\ <<"none">> \in Seq(Reply) /\ <<"userpass">> \in Seq(Reply)
  /\ <<"unacceptable">> \in Seq(Reply) /\ <<"accepted">> \in Seq(Reply)
  /\ <<"failed">> \in Seq(Reply) /\ <<"refused">> \in Seq(Reply)
  BY DEF Reply

LEMMA BothOf ==
  ASSUME NEW a, NEW b
  PROVE  <<a>> \o <<b>> = <<a, b>>
<1> DEFINE s == <<a>>
           t == <<b>>
           u == s \o t
           v == <<a, b>>
<1>1. s \in Seq({a, b}) /\ Len(s) = 1 /\ s[1] = a
  OBVIOUS
<1>2. t \in Seq({a, b}) /\ Len(t) = 1 /\ t[1] = b
  OBVIOUS
<1>3. v \in Seq({a, b}) /\ Len(v) = 2 /\ v[1] = a /\ v[2] = b
  OBVIOUS
<1> HIDE DEF s, t, v
<1>4. /\ u \in Seq({a, b}) /\ Len(u) = Len(s) + Len(t)
      /\ \A i \in 1..Len(s) + Len(t) : u[i] = IF i <= Len(s) THEN s[i] ELSE t[i - Len(s)]
  BY <1>1, <1>2, ConcatProperties
<1> HIDE DEF u
<1>5. Len(u) = 2 /\ u[1] = a /\ u[2] = b
  BY <1>1, <1>2, <1>4
<1>6. u = v
  <2>1. Len(u) = Len(v) /\ \A i \in 1..Len(u) : u[i] = v[i]
    BY <1>3, <1>5
  <2> QED
    BY <1>3, <1>4, <2>1, SeqEqual
<1> QED
  BY <1>6 DEF s, t, u, v

LEMMA StartsKeepsInv ==
  ASSUME SocksInv, Starts
  PROVE  SocksInv'
<1>1. stage = "start" /\ Satisfied /\ stage \in Negotiating /\ Yields(<<>>, "version", 1)
  BY DEF Starts, At, Negotiating
<1>2. stage' = "version" /\ replies' = replies \o <<>>
  BY <1>1, YieldEffect
<1>3. want = 0 /\ replies = <<>> /\ Position = 0
  BY <1>1 DEF SocksInv, Wanted, LearnedAll, Position
<1>4. Position' = Position + Consumed
  BY <1>1, <1>2, <1>3 DEF Position, Consumed, ReadTo, UntilZero
<1>5. Wanted' = 1
  BY <1>2 DEF Wanted
<1>6. LearnedAll' /\ Learned4' /\ Learned5'
  BY <1>2, <1>3
     DEF LearnedAll, Learned4, Learned5, Agreed, Asking, Socks4, Socks5, Authenticating, Addressing
<1>7. "version" \in Negotiating \ Socks5 /\ 1 \in -1..255 /\ <<>> \in Seq(Reply)
  BY Replying DEF Negotiating, Socks5
<1> QED
  BY <1>1, <1>4, <1>5, <1>6, <1>7, YieldKeepsInv


LEMMA ReadsVersionKeepsInv ==
  ASSUME SocksInv, ReadsVersion
  PROVE  SocksInv'
<1>1. stage = "version" /\ Satisfied /\ stage \in Negotiating
  BY DEF ReadsVersion, At, Negotiating
<1>2. want = 1 /\ replies = <<>> /\ Position = 0 /\ Consumed = 0
  BY <1>1 DEF SocksInv, Wanted, LearnedAll, Position, Consumed
<1>3. Taken[1] = input[1]
  <2>1. ReadTo = 1
    BY <1>2 DEF ReadTo, UntilZero
  <2>2. 1 \in 1..ReadTo /\ Position + 1 = 1
    BY <1>2, <2>1
  <2> QED
    BY <1>1, <2>2, Takes
<1>4. ASSUME Taken[1] = 4, config.socks4, Yields(<<>>, "s4", 8)
      PROVE  SocksInv'
  <2>1. stage' = "s4" /\ replies' = replies \o <<>> /\ UNCHANGED given
    BY <1>4, YieldEffect
  <2>2. Position' = Position + Consumed /\ Wanted' = 8
    BY <1>2, <2>1 DEF Position, Wanted
  <2>3. input'[1] = 4 /\ config'.socks4 /\ replies' = <<>>
    <3>1. input' = input /\ config' = config
      BY <2>1, ReadingStays
    <3>2. replies' = <<>>
      BY <1>2, <2>1
    <3> QED
      BY <1>3, <1>4, <3>1, <3>2
  <2>4. LearnedAll' /\ Learned4' /\ Learned5'
    BY <2>1, <2>3
       DEF LearnedAll, Learned4, Learned5, Agreed, Asking, Socks4, Socks5, Authenticating, Addressing
  <2>5. "s4" \in Negotiating \ Socks5 /\ 8 \in -1..255 /\ <<>> \in Seq(Reply)
    BY Replying DEF Negotiating, Socks4, Socks5
  <2>6. "s4" \in Negotiating \cup Validating /\ "s4" \notin (Socks5 \ {"s5"}) \cup {"validating5"}
    BY <2>5
  <2> QED
    BY <1>1, <1>4, <2>2, <2>4, <2>5, <2>6, YieldKeepsInv
<1>5. ASSUME Taken[1] = 5, config.socks5, Yields(<<>>, "s5", 2)
      PROVE  SocksInv'
  <2>1. stage' = "s5" /\ replies' = replies \o <<>> /\ UNCHANGED given
    BY <1>5, YieldEffect
  <2>2. Position' = Position + Consumed /\ Wanted' = 2
    BY <1>2, <2>1 DEF Position, Wanted
  <2>3. input'[1] = 5 /\ config'.socks5 /\ replies' = <<>>
    <3>1. input' = input /\ config' = config
      BY <2>1, ReadingStays
    <3>2. replies' = <<>>
      BY <1>2, <2>1
    <3> QED
      BY <1>3, <1>5, <3>1, <3>2
  <2>4. LearnedAll' /\ Learned4' /\ Learned5'
    BY <2>1, <2>3
       DEF LearnedAll, Learned4, Learned5, Agreed, Asking, Socks4, Socks5, Authenticating, Addressing
  <2>5. "s5" \in Negotiating /\ 2 \in -1..255 /\ <<>> \in Seq(Reply)
    BY Replying DEF Negotiating, Socks5
  <2> QED
    BY <1>1, <1>5, <2>2, <2>4, <2>5, YieldKeepsInv
<1>6. ASSUME Returns(<<>>)
      PROVE  SocksInv'
  BY <1>1, <1>6, Replying, ReturnCloses
<1> QED
  BY <1>4, <1>5, <1>6 DEF ReadsVersion

(* The address of the header announces the name of a host.                   *)
LEMMA NamesHostIs ==
  ASSUME NEW t \in Seq(Bytes), Len(t) = 8
  PROVE  NamesHost(SubSeq(t, 5, 8)) <=> t[5] = 0 /\ t[6] = 0 /\ t[7] = 0 /\ t[8] # 0
<1> DEFINE u == SubSeq(t, 5, 8)
           v == SubSeq(u, 1, 3)
<1>1. u \in Seq(Bytes) /\ Len(u) = 4 /\ \A i \in 1..4 : u[i] = t[i + 4]
  <2>1. ASSUME NEW i \in 5..8
        PROVE  t[i] \in Bytes
    <3>1. i \in 1..Len(t)
      OBVIOUS
    <3> QED
      BY <3>1, ElementOfSeq
  <2>2. /\ u \in Seq(Bytes) /\ Len(u) = IF 5 <= 8 THEN 8 - 5 + 1 ELSE 0
        /\ \A i \in 1..8 - 5 + 1 : u[i] = t[5 + i - 1]
    BY <2>1, SubSeqProperties
  <2> QED
    BY <2>2
<1> HIDE DEF u
<1>2. v \in Seq(Bytes) /\ Len(v) = 3 /\ \A i \in 1..3 : v[i] = u[i]
  <2>1. ASSUME NEW i \in 1..3
        PROVE  u[i] \in Bytes
    <3>1. i \in 1..Len(u)
      BY <1>1
    <3> QED
      BY <1>1, <3>1, ElementOfSeq
  <2>2. /\ v \in Seq(Bytes) /\ Len(v) = IF 1 <= 3 THEN 3 - 1 + 1 ELSE 0
        /\ \A i \in 1..3 - 1 + 1 : v[i] = u[1 + i - 1]
    BY <2>1, SubSeqProperties
  <2> QED
    BY <2>2
<1>3. u[1] = t[5] /\ u[2] = t[6] /\ u[3] = t[7] /\ u[4] = t[8]
      /\ v[1] = u[1] /\ v[2] = u[2] /\ v[3] = u[3]
  BY <1>1, <1>2
<1> HIDE DEF v
<1>4. v = <<0, 0, 0>> <=> v[1] = 0 /\ v[2] = 0 /\ v[3] = 0
  <2>1. ASSUME v[1] = 0, v[2] = 0, v[3] = 0
        PROVE  v = <<0, 0, 0>>
    <3> DEFINE z == <<0, 0, 0>>
    <3>1. z \in Seq(Bytes) /\ Len(z) = 3 /\ z[1] = 0 /\ z[2] = 0 /\ z[3] = 0
      BY DEF Bytes
    <3> HIDE DEF z
    <3>2. Len(v) = Len(z) /\ \A i \in 1..Len(v) : v[i] = z[i]
      BY <1>2, <2>1, <3>1
    <3>3. v = z
      BY <1>2, <3>1, <3>2, SeqEqual
    <3> QED
      BY <3>3 DEF z
  <2> QED
    BY <2>1
<1> QED
  BY <1>3, <1>4 DEF NamesHost, u, v

LEMMA Socks4HeaderKeepsInv ==
  ASSUME SocksInv, Socks4Header
  PROVE  SocksInv'
<1>1. stage = "s4" /\ Satisfied /\ stage \in Negotiating
  BY DEF Socks4Header, At, Negotiating, Socks4
<1>2. want = 8 /\ Position = 0
  BY <1>1 DEF SocksInv, Wanted, Position
<1>3. input[1] = 4 /\ config.socks4 /\ replies = <<>>
  BY <1>1 DEF SocksInv, Learned4, Socks4
<1>4. ReadTo = 8 /\ Consumed = 8
  BY <1>1, <1>2 DEF Consumed, ReadTo, UntilZero
<1>5. Taken \in Seq(Bytes) /\ Len(Taken) = 8 /\ \A i \in 1..8 : Taken[i] = input[i]
  <2>1. \A i \in 1..8 : Position + i = i
    BY <1>2
  <2> QED
    BY <1>1, <1>4, <2>1, Takes
<1>6. ASSUME Taken[2] = Connect,
             NEW next \in {"s4user", "s4auser"},
             next = IF NamesHost(SubSeq(Taken, 5, 8)) THEN "s4auser" ELSE "s4user",
             Yields(<<>>, next, UntilZero)
      PROVE  SocksInv'
  <2>1. stage' = next /\ replies' = replies \o <<>> /\ UNCHANGED given
    BY <1>6, YieldEffect
  <2>2. next = "s4auser" <=> Named
    BY <1>5, <1>6, NamesHostIs DEF Named
  <2>3. Position' = Position + Consumed /\ Wanted' = UntilZero
    BY <1>2, <1>4, <2>1 DEF Position, Wanted
  <2>4. input' = input /\ config' = config /\ replies' = <<>> /\ (Named' <=> Named)
    BY <1>3, <2>1, ReadingStays
  <2>5. Learned4'
    BY <1>3, <1>5, <1>6, <2>1, <2>2, <2>4 DEF Learned4, Socks4
  <2>6. LearnedAll' /\ Learned5'
    BY <2>1 DEF LearnedAll, Learned5, Agreed, Asking, Socks5, Authenticating, Addressing
  <2>7. next \in Negotiating \ Socks5 /\ UntilZero \in -1..255 /\ <<>> \in Seq(Reply)
    BY Replying DEF Negotiating, Socks4, Socks5, UntilZero
  <2> QED
    BY <1>1, <1>6, <2>3, <2>5, <2>6, <2>7, YieldKeepsInv
<1>7. ASSUME Returns(<<"refused">>)
      PROVE  SocksInv'
  BY <1>1, <1>7, Replying, ReturnCloses
<1> QED
  BY <1>6, <1>7 DEF Socks4Header


(* A request up to a zero ends at the least zero after where it began.       *)
LEMMA UntilZeroEnds ==
  ASSUME SocksInv, stage \in {"s4user", "s4auser", "s4host"}, Satisfied
  PROVE  /\ Consumed = ReadTo /\ Position + Consumed \in Nat
         /\ stage # "s4host" => Least(Position + Consumed, Zeros)
         /\ stage = "s4host" => Least(Position + Consumed, Zeros \ {NameEnd})
<1>1. stage \in Negotiating /\ want = UntilZero /\ stage # "version"
  BY DEF Negotiating, Socks4, SocksInv, Wanted
<1> DEFINE p == Position
           n == ReadTo
<1>2. /\ p \in 0..read /\ n \in 1..Len(buffer) /\ p + n \in 0..read
      /\ input[p + n] = 0 /\ \A i \in 1..n - 1 : input[p + i] # 0
  BY <1>1, Takes
<1>3. Consumed = n
  BY <1>1 DEF Consumed
<1>4. Len(input) \in Nat /\ read \in 0..Len(input) /\ Len(buffer) \in Nat
  <2>1. buffer \in Seq(Bytes)
    BY DEF SocksInv, TypeOK, Bytes
  <2> QED
    BY <2>1, InputIs, LenProperties DEF SocksInv
<1>5. /\ stage # "s4host" => p = 8
      /\ stage = "s4host" => p = NameEnd /\ Least(NameEnd, Zeros)
  BY DEF Position, SocksInv, Learned4
<1> HIDE DEF p, n
<1>6. p >= 8
  BY <1>5 DEF Least, Zeros
<1>7. p + n \in Zeros /\ p + n > p
  BY <1>2, <1>4, <1>6 DEF Zeros
<1>8. ASSUME NEW j \in Zeros, j > p
      PROVE  p + n <= j
  <2>1. j \in Nat /\ input[j] = 0 /\ p \in Nat /\ n \in Nat
    BY <1>2, <1>4 DEF Zeros
  <2>2. j < p + n => j - p \in 1..n - 1 /\ p + (j - p) = j
    BY <1>8, <2>1
  <2>3. ~(j < p + n)
    BY <1>2, <2>1, <2>2
  <2> QED
    BY <2>1, <2>3
<1>9. CASE stage # "s4host"
  <2>1. \A j \in Zeros : j > p
    BY <1>5, <1>9 DEF Zeros
  <2>2. Least(p + n, Zeros)
    BY <1>7, <1>8, <2>1 DEF Least
  <2> QED
    BY <1>2, <1>3, <1>9, <2>2 DEF p, n
<1>10. CASE stage = "s4host"
  <2>1. p = NameEnd /\ \A j \in Zeros : NameEnd <= j
    BY <1>5, <1>10 DEF Least
  <2>2. ASSUME NEW j \in Zeros \ {NameEnd}
        PROVE  j > p
    <3>1. p \in Int /\ j \in Int /\ p <= j /\ p # j
      BY <1>2, <2>1 DEF Zeros
    <3> QED
      BY <3>1
  <2>3. p + n \in Zeros \ {NameEnd}
    BY <1>2, <1>4, <1>7, <2>1
  <2>4. Least(p + n, Zeros \ {NameEnd})
    BY <1>8, <2>2, <2>3 DEF Least
  <2> QED
    BY <1>2, <1>3, <1>10, <2>4 DEF p, n
<1> QED
  BY <1>9, <1>10

LEMMA ZerosAreNat == Zeros \subseteq Nat /\ Zeros \ {NameEnd} \subseteq Nat
  BY DEF Zeros

(* An asking for a tunnel keeps the invariant when the negotiation is over   *)
(* where the bytes taken end, and the policy is met.                        *)
LEMMA AskKeepsInv ==
  ASSUME SocksInv, stage \in Socks4 \cup Socks5, Satisfied, Asks,
         Position + Consumed = NegotiationEnd, PolicyMet, replies = Told
  PROVE  SocksInv'
<1>1. stage \in Negotiating
  BY DEF Negotiating
<1>2. Resumed(<<>>) /\ stage' \in Asking
  BY DEF Asks, Asking
<1>3. NegotiationEnd' = NegotiationEnd /\ PolicyMet' /\ Told' = Told
  BY <1>2, ReadingStays DEF Resumed
<1>4. Position' = Position + Consumed
  BY <1>2, <1>3 DEF Position, Asking
<1>5. TypeOK' /\ Window' /\ TunnelFits' /\ replies' = replies \o <<>>
  BY <1>1, <1>4, AskMoves
<1>6. replies' = Told'
  <2>1. replies \in Seq(Reply)
    BY DEF SocksInv, TypeOK, Reply
  <2>2. replies \o <<>> = replies
    BY <2>1, ConcatEmptySeq
  <2> QED
    BY <1>3, <1>5, <2>2
<1>7. stage' \notin Negotiating
  BY <1>2 DEF Asking, Negotiating, Socks4, Socks5
<1>8. LearnedAll' /\ Learned4' /\ Learned5' /\ Begun'
  BY <1>2, <1>3, <1>6
     DEF Begun, LearnedAll, Learned4, Learned5, Agreed, Asking, Socks4, Socks5, Authenticating, Addressing
<1> QED
  BY <1>5, <1>7, <1>8 DEF SocksInv

LEMMA Socks4UserKeepsInv ==
  ASSUME SocksInv, Socks4User
  PROVE  SocksInv'
<1>1. stage \in {"s4user", "s4auser"} /\ Satisfied /\ stage \in Negotiating /\ stage \in Socks4
  BY DEF Socks4User, At, Negotiating, Socks4
<1>2. Position + Consumed = NameEnd /\ Least(NameEnd, Zeros)
  BY <1>1, UntilZeroEnds, MinIsLeast, ZerosAreNat DEF NameEnd
<1>3. /\ IsSocks4 /\ config.socks4 /\ replies = <<>> /\ input[2] = Connect
      /\ Named <=> stage = "s4auser"
  BY <1>1 DEF SocksInv, Learned4, Socks4, IsSocks4
<1>4. ASSUME stage = "s4user", ~config.auth4, Asks
      PROVE  SocksInv'
  <2>1. NegotiationEnd = NameEnd /\ PolicyMet /\ Told = replies
    BY <1>3, <1>4 DEF NegotiationEnd, PolicyMet, Rejected4, Told
  <2> QED
    BY <1>1, <1>2, <1>4, <2>1, AskKeepsInv
<1>5. ASSUME stage = "s4auser", ~config.auth4, Yields(<<>>, "s4host", UntilZero)
      PROVE  SocksInv'
  <2>1. stage' = "s4host" /\ replies' = replies \o <<>> /\ UNCHANGED given
    BY <1>5, YieldEffect
  <2>2. /\ NameEnd' = NameEnd /\ Zeros' = Zeros /\ (Named' <=> Named) /\ (Rejected4' <=> Rejected4)
        /\ input' = input /\ config' = config
    BY <2>1, ReadingStays
  <2>3. Position' = Position + Consumed /\ Wanted' = UntilZero
    BY <1>2, <2>1, <2>2 DEF Position, Wanted
  <2>4. Learned4'
    <3>1. input'[1] = 4 /\ config'.socks4 /\ input'[2] = Connect /\ replies' = <<>>
      BY <1>3, <2>1, <2>2 DEF IsSocks4
    <3>2. Named' /\ ~Rejected4' /\ Least(NameEnd, Zeros)'
      BY <1>2, <1>3, <1>5, <2>2 DEF Least, Rejected4
    <3> QED
      BY <2>1, <3>1, <3>2 DEF Learned4
  <2>5. LearnedAll' /\ Learned5'
    BY <2>1 DEF LearnedAll, Learned5, Agreed, Asking, Socks5, Authenticating, Addressing
  <2>6. "s4host" \in Negotiating \ Socks5 /\ UntilZero \in -1..255 /\ <<>> \in Seq(Reply)
    BY Replying DEF Negotiating, Socks4, Socks5, UntilZero
  <2> QED
    BY <1>1, <1>5, <2>3, <2>4, <2>5, <2>6, YieldKeepsInv
<1>6. ASSUME NEW next \in {"validating4", "validating4a"}, Validates(next),
             next = "validating4a" <=> Named
      PROVE  SocksInv'
  <2>1. stage' = next /\ replies' = replies \o <<>> /\ UNCHANGED given
    BY <1>6, YieldEffect DEF Validates
  <2>2. /\ NameEnd' = NameEnd /\ Zeros' = Zeros /\ (Named' <=> Named)
        /\ input' = input /\ config' = config
    BY <2>1, ReadingStays
  <2>3. Position' = Position + Consumed
    BY <1>2, <1>6, <2>1, <2>2 DEF Position
  <2>4. Learned4'
    <3>1. input'[1] = 4 /\ config'.socks4 /\ input'[2] = Connect /\ replies' = <<>>
      BY <1>3, <2>1, <2>2 DEF IsSocks4
    <3>2. Least(NameEnd, Zeros)' /\ (stage' = "validating4a" <=> Named')
      BY <1>2, <1>6, <2>1, <2>2 DEF Least
    <3>3. stage' \in {"validating4", "validating4a"}
      BY <1>6, <2>1
    <3> QED
      BY <3>1, <3>2, <3>3 DEF Learned4
  <2>5. LearnedAll' /\ Learned5'
    BY <1>6, <2>1 DEF LearnedAll, Learned5, Agreed, Asking, Socks5, Authenticating, Addressing
  <2>6. next \in Validating /\ next \notin Negotiating /\ next \notin Socks5 \cup {"validating5"}
    BY <1>6 DEF Validating, Negotiating, Socks4, Socks5
  <2>7. want \in -1..255 /\ <<>> \in Seq(Reply)
    BY Replying DEF SocksInv, TypeOK
  <2> QED
    BY <1>1, <1>6, <2>3, <2>4, <2>5, <2>6, <2>7, YieldKeepsInv DEF Validates
<1> QED
  BY <1>3, <1>4, <1>5, <1>6 DEF Socks4User, At

LEMMA Socks4HostKeepsInv ==
  ASSUME SocksInv, Socks4Host
  PROVE  SocksInv'
<1>1. stage = "s4host" /\ Satisfied /\ Asks /\ stage \in Socks4
  BY DEF Socks4Host, At, Socks4
<1>2. Position + Consumed = HostEnd
  BY <1>1, UntilZeroEnds, MinIsLeast, ZerosAreNat DEF HostEnd
<1>3. /\ IsSocks4 /\ config.socks4 /\ replies = <<>> /\ input[2] = Connect
      /\ Named /\ ~Rejected4
  BY <1>1 DEF SocksInv, Learned4, Socks4, IsSocks4
<1>4. NegotiationEnd = HostEnd /\ PolicyMet /\ Told = replies
  BY <1>3 DEF NegotiationEnd, PolicyMet, Told
<1> QED
  BY <1>1, <1>2, <1>4, AskKeepsInv


(* The steps of version 5.                                                  *)

LEMMA Asked5 ==
  ASSUME SocksInv, stage \in Socks5
  PROVE  /\ stage \in Negotiating /\ want = Wanted /\ input[1] = 5 /\ config.socks5 /\ ~IsSocks4
         /\ Consumed = ReadTo
  BY DEF SocksInv, Negotiating, Learned5, IsSocks4, Consumed, Socks5

(* What it stands behind was read.                                          *)
LEMMA ByteBehind ==
  ASSUME SocksInv, stage \in Socks5 \ {"s5"}, Satisfied
  PROVE  input[Position] \in Bytes /\ input[Position] \in Nat
<1>1. input \in Seq(Bytes) /\ Position \in 1..Len(input)
  <2>1. Position > 0 /\ Position \in 0..read
    BY Asked5, Takes DEF SocksInv, Begun
  <2> QED
    BY <2>1, InputIs DEF SocksInv
<1>2. input[Position] \in Bytes
  BY <1>1, ElementOfSeq
<1> QED
  BY <1>2 DEF Bytes

LEMMA Socks5GreetingKeepsInv ==
  ASSUME SocksInv, Socks5Greeting
  PROVE  SocksInv'
<1>1. stage = "s5" /\ Satisfied /\ stage \in Socks5 /\ Yields(<<>>, "methods", Taken[2])
  BY DEF Socks5Greeting, At, Socks5
<1>2. /\ stage \in Negotiating /\ want = 2 /\ input[1] = 5 /\ config.socks5
      /\ Consumed = ReadTo /\ Position = 0
  BY <1>1, Asked5 DEF Wanted, Position
<1>3. ReadTo = 2
  BY <1>1, <1>2 DEF ReadTo, UntilZero
<1>4. Taken[2] = input[2] /\ input[2] \in Bytes
  <2>1. 2 \in 1..ReadTo /\ Position + 2 = 2
    BY <1>2, <1>3
  <2> QED
    BY <1>1, <1>2, <2>1, Takes
<1>5. stage' = "methods" /\ replies' = replies \o <<>> /\ UNCHANGED given
  BY <1>1, YieldEffect
<1>6. input' = input /\ config' = config /\ replies' = <<>>
  BY <1>1, <1>5, ReadingStays DEF SocksInv, Learned5
<1>7. Position' = Position + Consumed /\ Wanted' = Taken[2]
  BY <1>2, <1>3, <1>4, <1>5, <1>6 DEF Position, Wanted
<1>8. LearnedAll' /\ Learned4' /\ Learned5'
  BY <1>2, <1>5, <1>6
     DEF LearnedAll, Learned4, Learned5, Agreed, Asking, Socks4, Socks5, Authenticating, Addressing
<1>9. "methods" \in Negotiating /\ Taken[2] \in -1..255 /\ <<>> \in Seq(Reply)
  BY <1>4, Replying DEF Negotiating, Socks5, Bytes
<1> QED
  BY <1>1, <1>2, <1>7, <1>8, <1>9, YieldKeepsInv

(* What is looked for among the methods is looked for among those of the     *)
(* input.                                                                   *)
LEMMA MethodsAre ==
  ASSUME SocksInv, stage = "methods", Satisfied
  PROVE  ToSet(Taken) = Methods /\ Position + Consumed = MethodsEnd /\ stage \in Socks5
<1>1. stage \in Negotiating /\ stage \in Socks5 /\ want = input[2] /\ Position = 2 /\ Consumed = ReadTo
  BY Asked5 DEF Wanted, Position, Socks5
<1>2. input[2] \in Nat
  BY <1>1, ByteBehind
<1>3. ReadTo = input[2]
  BY <1>1, <1>2 DEF ReadTo, UntilZero
<1>4. Taken \in Seq(Bytes) /\ Len(Taken) = input[2] /\ \A i \in 1..input[2] : Taken[i] = input[2 + i]
  BY <1>1, <1>2, <1>3, Takes
<1>5. ToSet(Taken) = {Taken[i] : i \in 1..input[2]}
  BY <1>4 DEF ToSet
<1>6. ASSUME NEW m
      PROVE  (\E i \in 1..input[2] : m = Taken[i]) <=> (\E i \in 3..2 + input[2] : m = input[i])
  <2>1. ASSUME NEW i \in 1..input[2], m = Taken[i]
        PROVE  \E j \in 3..2 + input[2] : m = input[j]
    <3>1. 2 + i \in 3..2 + input[2] /\ m = input[2 + i]
      BY <1>2, <1>4, <2>1
    <3> QED
      BY <3>1
  <2>2. ASSUME NEW i \in 3..2 + input[2], m = input[i]
        PROVE  \E j \in 1..input[2] : m = Taken[j]
    <3>1. i - 2 \in 1..input[2] /\ 2 + (i - 2) = i
      BY <1>2
    <3>2. m = Taken[i - 2]
      BY <1>4, <2>2, <3>1
    <3> QED
      BY <3>1, <3>2
  <2> QED
    BY <2>1, <2>2
<1>7. ToSet(Taken) = Methods
  BY <1>5, <1>6 DEF Methods, MethodsEnd
<1> QED
  BY <1>1, <1>3, <1>7 DEF MethodsEnd

LEMMA Socks5MethodsKeepsInv ==
  ASSUME SocksInv, Socks5Methods
  PROVE  SocksInv'
<1>1. stage = "methods" /\ Satisfied
  BY DEF Socks5Methods, At
<1>2. ToSet(Taken) = Methods /\ Position + Consumed = MethodsEnd /\ stage \in Socks5
  BY <1>1, MethodsAre
<1>3. stage \in Negotiating /\ input[1] = 5 /\ config.socks5 /\ ~IsSocks4 /\ replies = <<>>
  BY <1>1, <1>2, Asked5 DEF SocksInv, Learned5
<1> DEFINE chosen == Chosen(Methods)
<1>4. /\ chosen = "userpass" <=> UserPass
      /\ chosen = "none" => MayRequest /\ AuthEnd = MethodsEnd
  BY DEF Chosen, UserPass, MayRequest, AuthEnd
<1> HIDE DEF chosen
<1>5. ASSUME chosen = "unacceptable", Returns(<<chosen>>)
      PROVE  SocksInv'
  BY <1>1, <1>3, <1>5, Replying, ReturnCloses
<1>6. ASSUME chosen = "userpass", Yields(<<chosen>>, "auth", 2)
      PROVE  SocksInv'
  <2>1. stage' = "auth" /\ replies' = replies \o <<"userpass">> /\ UNCHANGED given
    BY <1>6, YieldEffect
  <2>2. /\ input' = input /\ config' = config /\ MethodsEnd' = MethodsEnd /\ (UserPass' <=> UserPass)
        /\ replies' = <<"userpass">>
    BY <1>3, <2>1, ReadingStays
  <2>3. Position' = Position + Consumed /\ Wanted' = 2
    BY <1>2, <2>1, <2>2 DEF Position, Wanted
  <2>4. LearnedAll' /\ Learned4' /\ Learned5'
    BY <1>3, <1>4, <1>6, <2>1, <2>2
       DEF LearnedAll, Learned4, Learned5, Agreed, Asking, Socks4, Socks5, Authenticating, Addressing
  <2>5. "auth" \in Negotiating /\ 2 \in -1..255 /\ <<chosen>> \in Seq(Reply)
    BY <1>6, Replying DEF Negotiating, Socks5
  <2> QED
    BY <1>1, <1>2, <1>3, <1>6, <2>3, <2>4, <2>5, YieldKeepsInv
<1>7. ASSUME chosen = "none", Yields(<<chosen>>, "request", 4)
      PROVE  SocksInv'
  <2>1. stage' = "request" /\ replies' = replies \o <<"none">> /\ UNCHANGED given
    BY <1>7, YieldEffect
  <2>2. /\ input' = input /\ config' = config /\ AuthEnd' = AuthEnd
        /\ (MayRequest' <=> MayRequest) /\ Told' = Told /\ replies' = <<"none">>
    BY <1>3, <2>1, ReadingStays
  <2>3. Told = <<"none">>
    BY <1>3, <1>4, <1>7 DEF Told
  <2>4. Position' = Position + Consumed /\ Wanted' = 4
    BY <1>2, <1>4, <1>7, <2>1, <2>2 DEF Position, Wanted
  <2>5. LearnedAll' /\ Learned4' /\ Learned5'
    BY <1>3, <1>4, <1>7, <2>1, <2>2, <2>3
       DEF LearnedAll, Learned4, Learned5, Agreed, Asking, Socks4, Socks5, Authenticating, Addressing
  <2>6. "request" \in Negotiating /\ 4 \in -1..255 /\ <<chosen>> \in Seq(Reply)
    BY <1>7, Replying DEF Negotiating, Socks5
  <2> QED
    BY <1>1, <1>2, <1>3, <1>7, <2>4, <2>5, <2>6, YieldKeepsInv
<1> QED
  BY <1>2, <1>5, <1>6, <1>7 DEF Socks5Methods, chosen


(* A request of a size that is a byte of the input takes exactly that.       *)
LEMMA TakesSize ==
  ASSUME SocksInv, stage \in Socks5, Satisfied, Wanted \in Nat
  PROVE  /\ ReadTo = Wanted /\ Consumed = Wanted /\ Position \in Nat
         /\ \A i \in 1..Wanted : Taken[i] = input[Position + i] /\ input[Position + i] \in Bytes
<1>1. stage \in Negotiating /\ want = Wanted /\ Consumed = ReadTo
  BY Asked5
<1>2. ReadTo = Wanted
  BY <1>1 DEF ReadTo, UntilZero
<1> QED
  BY <1>1, <1>2, Takes

LEMMA Socks5AuthKeepsInv ==
  ASSUME SocksInv, Socks5Auth
  PROVE  SocksInv'
<1>1. stage \in Authenticating /\ Satisfied /\ stage \in Socks5
  BY DEF Socks5Auth, At, Authenticating, Socks5
<1>2. /\ stage \in Negotiating /\ input[1] = 5 /\ config.socks5 /\ ~IsSocks4
      /\ UserPass /\ replies = <<"userpass">>
  BY <1>1, Asked5 DEF SocksInv, Learned5
<1>3. ASSUME NEW next \in Authenticating, NEW size \in -1..255, Yields(<<>>, next, size),
             Position' = Position + Consumed, next \in Negotiating => Wanted' = size
      PROVE  SocksInv'
  <2>1. stage' = next /\ replies' = replies \o <<>> /\ UNCHANGED given
    BY <1>3, YieldEffect
  <2>2. input' = input /\ config' = config /\ UserPass' /\ replies' = <<"userpass">>
    BY <1>2, <2>1, ReadingStays
  <2>3. LearnedAll' /\ Learned4' /\ Learned5'
    BY <1>2, <2>1, <2>2
       DEF LearnedAll, Learned4, Learned5, Agreed, Asking, Socks4, Socks5, Authenticating, Addressing
  <2>4. next \in Negotiating \cup Validating /\ <<>> \in Seq(Reply)
    BY Replying DEF Negotiating, Validating, Socks5, Authenticating
  <2> QED
    BY <1>1, <1>2, <1>3, <2>3, <2>4, YieldKeepsInv
<1>4. ASSUME stage = "auth", Yields(<<>>, "user", Taken[2])
      PROVE  SocksInv'
  <2>1. Position = MethodsEnd /\ Wanted = 2
    BY <1>4 DEF Position, Wanted
  <2>2. Consumed = 2 /\ Taken[2] = input[MethodsEnd + 2] /\ Taken[2] \in Bytes
    BY <1>1, <2>1, TakesSize
  <2>3. stage' = "user" /\ input' = input /\ MethodsEnd' = MethodsEnd
    BY <1>4, YieldEffect, ReadingStays
  <2>4. Position' = Position + Consumed /\ Wanted' = Taken[2]
    BY <2>1, <2>2, <2>3 DEF Position, Wanted
  <2>5. "user" \in Authenticating /\ Taken[2] \in -1..255
    BY <2>2 DEF Authenticating, Bytes
  <2> QED
    BY <1>3, <1>4, <2>4, <2>5
<1>5. ASSUME stage = "user", Yields(<<>>, "passlen", 1)
      PROVE  SocksInv'
  <2>1. Position = MethodsEnd + 2 /\ Wanted = input[MethodsEnd + 2]
    BY <1>5 DEF Position, Wanted
  <2>2. Wanted \in Nat
    BY <1>1, <1>5, <2>1, ByteBehind
  <2>3. Position + Consumed = UserEnd
    BY <1>1, <2>1, <2>2, TakesSize DEF UserEnd
  <2>4. stage' = "passlen" /\ UserEnd' = UserEnd
    BY <1>5, YieldEffect, ReadingStays
  <2>5. Position' = Position + Consumed /\ Wanted' = 1
    BY <2>3, <2>4 DEF Position, Wanted
  <2> QED
    BY <1>3, <1>5, <2>5 DEF Authenticating, Bytes
<1>6. ASSUME stage = "passlen", Yields(<<>>, "pass", Taken[1])
      PROVE  SocksInv'
  <2>1. Position = UserEnd /\ Wanted = 1
    BY <1>6 DEF Position, Wanted
  <2>2. Consumed = 1 /\ Taken[1] = input[UserEnd + 1] /\ Taken[1] \in Bytes
    BY <1>1, <2>1, TakesSize
  <2>3. stage' = "pass" /\ input' = input /\ UserEnd' = UserEnd
    BY <1>6, YieldEffect, ReadingStays
  <2>4. Position' = Position + Consumed /\ Wanted' = Taken[1]
    BY <2>1, <2>2, <2>3 DEF Position, Wanted
  <2>5. "pass" \in Authenticating /\ Taken[1] \in -1..255
    BY <2>2 DEF Authenticating, Bytes
  <2> QED
    BY <1>3, <1>6, <2>4, <2>5
<1>7. ASSUME stage = "pass", Validates("validating5")
      PROVE  SocksInv'
  <2>1. Position = UserEnd + 1 /\ Wanted = input[UserEnd + 1]
    BY <1>7 DEF Position, Wanted
  <2>2. Wanted \in Nat
    BY <1>1, <1>7, <2>1, ByteBehind
  <2>3. Position + Consumed = AuthEnd
    BY <1>1, <1>2, <2>1, <2>2, TakesSize DEF AuthEnd
  <2>4. stage' = "validating5" /\ AuthEnd' = AuthEnd
    BY <1>7, YieldEffect, ReadingStays DEF Validates
  <2>5. Position' = Position + Consumed
    BY <2>3, <2>4 DEF Position
  <2>6. "validating5" \notin Negotiating /\ want \in -1..255
    BY DEF Negotiating, Socks4, Socks5, SocksInv, TypeOK
  <2> QED
    BY <1>3, <1>7, <2>5, <2>6 DEF Validates, Authenticating
<1>8. ASSUME Returns(<<>>)
      PROVE  SocksInv'
  BY <1>1, <1>2, <1>8, Replying, ReturnCloses
<1> QED
  BY <1>4, <1>5, <1>6, <1>7, <1>8 DEF Socks5Auth, At


LEMMA Socks5RequestKeepsInv ==
  ASSUME SocksInv, Socks5Request
  PROVE  SocksInv'
<1>1. stage = "request" /\ Satisfied /\ stage \in Socks5
  BY DEF Socks5Request, At, Socks5
<1>2. /\ stage \in Negotiating /\ input[1] = 5 /\ config.socks5
      /\ MayRequest /\ replies = Told
  BY <1>1, Asked5 DEF SocksInv, Learned5
<1>3. Position = AuthEnd /\ Wanted = 4
  BY <1>1 DEF Position, Wanted
<1>4. /\ Consumed = 4 /\ AuthEnd \in Nat /\ Taken[1] = input[AuthEnd + 1] /\ Taken[2] = input[AuthEnd + 2]
      /\ Taken[4] = AddressType
  BY <1>1, <1>3, TakesSize DEF AddressType
<1>5. ASSUME Taken[1] = 5, Taken[2] = Connect,
             NEW next \in {"ipv4", "ipv6", "domainlen"}, NEW size \in 1..16,
             Yields(<<>>, next, size),
             \/ next = "ipv4" /\ Taken[4] = 1 /\ size = 4
             \/ next = "ipv6" /\ Taken[4] = 4 /\ size = 16
             \/ next = "domainlen" /\ Taken[4] = 3 /\ size = 1
      PROVE  SocksInv'
  <2>1. stage' = next /\ replies' = replies \o <<>> /\ UNCHANGED given
    BY <1>5, YieldEffect
  <2>2. /\ input' = input /\ config' = config /\ AuthEnd' = AuthEnd /\ AddressType' = AddressType
        /\ (MayRequest' <=> MayRequest) /\ Told' = Told
    BY <2>1, ReadingStays
  <2>3. Position' = Position + Consumed /\ Wanted' = size
    BY <1>3, <1>4, <1>5, <2>1, <2>2 DEF Position, Wanted
  <2>4. replies' = Told'
    <3>1. replies \in Seq(Reply)
      BY DEF SocksInv, TypeOK, Reply
    <3> QED
      BY <1>2, <2>1, <2>2, <3>1, ConcatEmptySeq
  <2>5. Learned5'
    <3>1. input'[1] = 5 /\ config'.socks5 /\ MayRequest' /\ AuthEnd' \in Nat
          /\ input'[AuthEnd' + 1] = 5 /\ input'[AuthEnd' + 2] = Connect
      BY <1>2, <1>4, <1>5, <2>2
    <3>2. stage' \notin {"s5", "methods", "domain", "port"} \cup Authenticating
      BY <2>1 DEF Authenticating
    <3>3. /\ stage' = "ipv4" => AddressType' = 1
          /\ stage' = "ipv6" => AddressType' = 4
          /\ stage' = "domainlen" => AddressType' = 3
      BY <1>4, <1>5, <2>1, <2>2
    <3> QED
      BY <2>4, <3>1, <3>2, <3>3 DEF Learned5
  <2>6. LearnedAll' /\ Learned4'
    BY <2>1 DEF LearnedAll, Learned4, Agreed, Asking, Socks4
  <2>7. next \in Negotiating /\ size \in -1..255 /\ <<>> \in Seq(Reply)
    BY Replying DEF Negotiating, Socks5
  <2>8. Yields(<<>>, next, size) /\ (next \in Socks5 \ {"s5"} => stage \in Socks5)
    BY <1>1, <1>5
  <2> QED
    BY <1>1, <1>2, <2>3, <2>5, <2>6, <2>7, <2>8, YieldKeepsInv
<1>6. ASSUME NEW reply \in {<<>>, <<"refused">>}, Returns(reply)
      PROVE  SocksInv'
  <2>1. reply \in Seq(Reply)
    BY Replying
  <2> QED
    BY <1>1, <1>2, <1>6, <2>1, ReturnCloses
<1> QED
  BY <1>5, <1>6 DEF Socks5Request

LEMMA Socks5AddressKeepsInv ==
  ASSUME SocksInv, Socks5Address
  PROVE  SocksInv'
<1>1. stage \in Addressing /\ Satisfied /\ stage \in Socks5
  BY DEF Socks5Address, At, Addressing, Socks5
<1>2. /\ stage \in Negotiating /\ input[1] = 5 /\ config.socks5 /\ ~IsSocks4
      /\ MayRequest /\ replies = Told
      /\ AuthEnd \in Nat /\ input[AuthEnd + 1] = 5 /\ input[AuthEnd + 2] = Connect
  BY <1>1, Asked5 DEF SocksInv, Learned5
<1>3. ASSUME NEW next \in {"domain", "port"}, NEW size \in Bytes, Yields(<<>>, next, size),
             IF next = "domain" THEN AddressType = 3 ELSE AddressType \in {1, 3, 4},
             Position' = Position + Consumed, Wanted' = size
      PROVE  SocksInv'
  <2>1. stage' = next /\ replies' = replies \o <<>> /\ UNCHANGED given
    BY <1>3, YieldEffect
  <2>2. /\ input' = input /\ config' = config /\ AuthEnd' = AuthEnd /\ AddressType' = AddressType
        /\ (MayRequest' <=> MayRequest) /\ Told' = Told
    BY <2>1, ReadingStays
  <2>3. replies' = Told'
    <3>1. replies \in Seq(Reply)
      BY DEF SocksInv, TypeOK, Reply
    <3> QED
      BY <1>2, <2>1, <2>2, <3>1, ConcatEmptySeq
  <2>4. Learned5'
    <3>1. input'[1] = 5 /\ config'.socks5 /\ MayRequest' /\ AuthEnd' \in Nat
          /\ input'[AuthEnd' + 1] = 5 /\ input'[AuthEnd' + 2] = Connect
      BY <1>2, <2>2
    <3>2. stage' \notin {"s5", "methods", "ipv4", "ipv6", "domainlen"} \cup Authenticating
      BY <2>1 DEF Authenticating
    <3>3. /\ stage' = "domain" => AddressType' = 3
          /\ stage' = "port" => AddressType' \in {1, 3, 4}
      BY <1>3, <2>1, <2>2
    <3> QED
      BY <2>3, <3>1, <3>2, <3>3 DEF Learned5
  <2>5. LearnedAll' /\ Learned4'
    BY <2>1 DEF LearnedAll, Learned4, Agreed, Asking, Socks4
  <2>6. next \in Negotiating /\ size \in -1..255 /\ <<>> \in Seq(Reply)
    BY Replying DEF Negotiating, Socks5, Bytes
  <2> QED
    BY <1>1, <1>2, <1>3, <2>4, <2>5, <2>6, YieldKeepsInv
<1>4. ASSUME stage \in {"ipv4", "ipv6", "domain"}, Yields(<<>>, "port", 2)
      PROVE  SocksInv'
  <2>1. /\ stage = "ipv4" => AddressType = 1 /\ Position = AuthEnd + 4 /\ Wanted = 4
        /\ stage = "ipv6" => AddressType = 4 /\ Position = AuthEnd + 4 /\ Wanted = 16
        /\ stage = "domain" =>
             AddressType = 3 /\ Position = AuthEnd + 5 /\ Wanted = input[AuthEnd + 5]
    BY DEF SocksInv, Learned5, Position, Wanted
  <2>2. Wanted \in Nat
    BY <1>1, <1>4, <2>1, ByteBehind
  <2>3. Consumed = Wanted /\ Position \in Nat
    BY <1>1, <2>2, TakesSize
  <2>4. Position + Consumed = AddressEnd
    BY <1>2, <1>4, <2>1, <2>2, <2>3 DEF AddressEnd
  <2>5. stage' = "port" /\ AddressEnd' = AddressEnd
    BY <1>4, YieldEffect, ReadingStays
  <2>6. Position' = Position + Consumed /\ Wanted' = 2
    BY <2>4, <2>5 DEF Position, Wanted
  <2> QED
    BY <1>3, <1>4, <2>1, <2>6 DEF Bytes
<1>5. ASSUME stage = "domainlen", Yields(<<>>, "domain", Taken[1])
      PROVE  SocksInv'
  <2>1. Position = AuthEnd + 4 /\ Wanted = 1 /\ AddressType = 3
    BY <1>5 DEF Position, Wanted, SocksInv, Learned5
  <2>2. Consumed = 1 /\ Taken[1] = input[Position + 1] /\ Taken[1] \in Bytes
    <3>1. Wanted \in Nat /\ 1 \in 1..Wanted
      BY <2>1
    <3> QED
      BY <1>1, <2>1, <3>1, TakesSize, Zenon
  <2>3. Position + 1 = AuthEnd + 5
    BY <1>2, <2>1
  <2>4. stage' = "domain" /\ input' = input /\ AuthEnd' = AuthEnd
    BY <1>5, YieldEffect, ReadingStays
  <2>5. Position' = Position + Consumed /\ Wanted' = Taken[1]
    BY <2>2, <2>3, <2>4 DEF Position, Wanted
  <2> QED
    BY <1>3, <1>5, <2>1, <2>2, <2>5
<1>6. ASSUME stage = "port", Asks
      PROVE  SocksInv'
  <2>1. Position = AddressEnd /\ Wanted = 2
    BY <1>6 DEF Position, Wanted
  <2>2. Consumed = 2
    BY <1>1, <2>1, TakesSize
  <2>3. Position + Consumed = NegotiationEnd /\ PolicyMet
    BY <1>2, <2>1, <2>2 DEF NegotiationEnd, PolicyMet
  <2> QED
    BY <1>1, <1>2, <1>6, <2>3, AskKeepsInv
<1> QED
  BY <1>4, <1>5, <1>6 DEF Socks5Address, At


-----------------------------------------------------------------------------
(* The end of a validation.                                                 *)

(* A generator that goes on has not moved.                                   *)
LEMMA GoesOn ==
  ASSUME SocksInv, stage \in Validating, UNCHANGED <<given, read, buffer, piped, tcp, aborted>>,
         stage' \in Negotiating \cup Asking, want' \in -1..255, replies' \in Seq(Reply),
         tunnel' = IF stage' \in Asking THEN "asked" ELSE "none",
         Position' = Position
  PROVE  TypeOK' /\ Window' /\ TunnelFits'
<1>1. config' = config /\ input' = input /\ read' = read /\ buffer' = buffer /\ piped' = piped
      /\ tcp' = tcp /\ aborted' = aborted
  BY DEF given
<1>2. stage' # "piping" /\ stage' # "closed"
  BY DEF Negotiating, Asking, Socks4, Socks5
<1>3. TypeOK'
  BY <1>1 DEF SocksInv, TypeOK, Asking, Reply
<1>4. Position \in 0..read /\ buffer = SubSeq(input, Position + 1, read) /\ piped = <<>>
  BY DEF SocksInv, Window
<1>5. Window'
  BY <1>1, <1>2, <1>4 DEF Window
<1>6. TunnelFits'
  BY <1>2 DEF TunnelFits, Negotiating, Validating, Asking, Socks4, Socks5
<1> QED
  BY <1>3, <1>5, <1>6

LEMMA AcceptedKeepsInv ==
  ASSUME SocksInv, Accepted
  PROVE  SocksInv'
<1>1. /\ config.valid /\ UNCHANGED <<given, read, buffer, piped, tcp, aborted>>
      /\ stage \in Validating
  BY DEF Accepted, Validating
<1>2. UNCHANGED given
  BY <1>1
<1>3. /\ config' = config /\ input' = input /\ NameEnd' = NameEnd /\ Zeros' = Zeros
      /\ AuthEnd' = AuthEnd /\ NegotiationEnd' = NegotiationEnd /\ (PolicyMet' <=> PolicyMet)
      /\ Told' = Told /\ (Named' <=> Named) /\ (Rejected4' <=> Rejected4)
      /\ (MayRequest' <=> MayRequest)
  BY <1>2, ReadingStays
<1>4. replies \in Seq(Reply) /\ want \in -1..255 /\ tunnel = "none"
  BY <1>1 DEF SocksInv, TypeOK, TunnelFits, Reply
<1>5. CASE stage = "validating4"
  <2>1. stage' = "asking4" /\ tunnel' = "asked" /\ want' = want /\ replies' = replies
    BY <1>5 DEF Accepted
  <2>2. /\ IsSocks4 /\ config.socks4 /\ input[2] = Connect /\ ~Named /\ replies = <<>>
        /\ ~Rejected4
    BY <1>1, <1>5 DEF SocksInv, Learned4, IsSocks4, Rejected4
  <2>3. NegotiationEnd = NameEnd /\ PolicyMet /\ replies = Told
    BY <2>2 DEF NegotiationEnd, PolicyMet, Told
  <2>4. Position' = Position
    BY <1>3, <1>5, <2>1, <2>3 DEF Position
  <2>5. stage' \in Asking /\ stage' \notin Negotiating
    BY <2>1 DEF Asking, Negotiating, Socks4, Socks5
  <2>6. TypeOK' /\ Window' /\ TunnelFits'
    BY <1>1, <1>4, <2>1, <2>4, <2>5, GoesOn
  <2>7. LearnedAll' /\ Learned4' /\ Learned5' /\ Begun'
    BY <1>3, <2>1, <2>3
       DEF Begun, LearnedAll, Learned4, Learned5, Agreed, Asking, Socks4, Socks5, Authenticating, Addressing
  <2> QED
    BY <2>5, <2>6, <2>7 DEF SocksInv
<1>6. CASE stage = "validating4a"
  <2>1. stage' = "s4host" /\ tunnel' = tunnel /\ want' = UntilZero /\ replies' = replies
    BY <1>6 DEF Accepted
  <2>2. /\ input[1] = 4 /\ config.socks4 /\ input[2] = Connect /\ Named /\ replies = <<>>
        /\ Least(NameEnd, Zeros) /\ ~Rejected4
    BY <1>1, <1>6 DEF SocksInv, Learned4, Rejected4
  <2>3. Position' = Position /\ Wanted' = UntilZero
    BY <1>3, <1>6, <2>1 DEF Position, Wanted
  <2>4. stage' \in Negotiating /\ stage' \notin Asking
    BY <2>1 DEF Asking, Negotiating, Socks4
  <2>5. UntilZero \in -1..255
    BY DEF UntilZero
  <2>6. TypeOK' /\ Window' /\ TunnelFits'
    BY <1>1, <1>4, <2>1, <2>3, <2>4, <2>5, GoesOn
  <2>7. Learned4'
    BY <1>3, <2>1, <2>2 DEF Learned4, Least
  <2>8. LearnedAll' /\ Learned5' /\ Begun'
    BY <2>1 DEF Begun, LearnedAll, Learned5, Agreed, Asking, Socks5, Authenticating, Addressing
  <2> QED
    BY <2>1, <2>3, <2>6, <2>7, <2>8 DEF SocksInv
<1>7. CASE stage = "validating5"
  <2>1. /\ stage' = "request" /\ tunnel' = tunnel /\ want' = 4
        /\ replies' = replies \o <<"accepted">>
    BY <1>7 DEF Accepted
  <2>2. input[1] = 5 /\ config.socks5 /\ UserPass /\ replies = <<"userpass">>
    BY <1>7 DEF SocksInv, Learned5, Authenticating
  <2>3. MayRequest /\ replies' = Told
    <3>1. Told = <<"userpass", "accepted">>
      BY <2>2 DEF Told, IsSocks4
    <3>2. <<"userpass">> \o <<"accepted">> = <<"userpass", "accepted">>
      BY BothOf
    <3> QED
      BY <1>1, <2>1, <2>2, <3>1, <3>2 DEF MayRequest
  <2>4. Position' = Position /\ Wanted' = 4 /\ Position > 0
    BY <1>3, <1>7, <2>1 DEF Position, Wanted, SocksInv, Begun
  <2>5. stage' \in Negotiating /\ stage' \notin Asking
    BY <2>1 DEF Asking, Negotiating, Socks5
  <2>6. replies' \in Seq(Reply)
    <3>1. <<"accepted">> \in Seq(Reply)
      BY Replying
    <3> QED
      BY <1>4, <2>1, <3>1, ConcatProperties
  <2>7. TypeOK' /\ Window' /\ TunnelFits'
    BY <1>1, <1>4, <2>1, <2>4, <2>5, <2>6, GoesOn
  <2>8. LearnedAll' /\ Learned4' /\ Learned5' /\ Begun'
    BY <1>3, <2>1, <2>2, <2>3, <2>4
       DEF Begun, LearnedAll, Learned4, Learned5, Agreed, Asking, Socks4, Socks5, Authenticating, Addressing
  <2> QED
    BY <2>1, <2>4, <2>7, <2>8 DEF SocksInv
<1> QED
  BY <1>1, <1>5, <1>6, <1>7 DEF Validating

LEMMA RejectedKeepsInv ==
  ASSUME SocksInv, Rejected
  PROVE  SocksInv'
<1>1. /\ stage \in Validating /\ Closed /\ UNCHANGED <<given, read, buffer, want, piped, aborted>>
      /\ replies' = Append(replies, IF stage = "validating5" THEN "failed" ELSE "refused")
  BY DEF Rejected
<1>2. config' = config /\ input' = input /\ read' = read /\ buffer' = buffer /\ want' = want
      /\ piped' = piped /\ aborted' = aborted
  BY <1>1 DEF given
<1>3. stage' = "closed" /\ tunnel' = "none" /\ tcp' \in {"broken", "closed"}
  BY <1>1 DEF Closed, SocksInv, TunnelFits
<1>4. replies' \in Seq(Reply)
  <2>1. replies \in Seq(Reply) /\ "failed" \in Reply /\ "refused" \in Reply
    BY DEF SocksInv, TypeOK, Reply
  <2> QED
    BY <1>1, <2>1, AppendProperties
<1>5. TypeOK'
  BY <1>2, <1>3, <1>4 DEF SocksInv, TypeOK, Reply
<1> QED
  BY <1>3, <1>5, Closes

-----------------------------------------------------------------------------
(* The other steps.                                                         *)

LEMMA PlaceStays ==
  ASSUME SocksInv, UNCHANGED given, UNCHANGED stage, UNCHANGED replies
  PROVE  /\ Position' = Position /\ (want' = want => Wanted' = Wanted)
         /\ LearnedAll' /\ Learned4' /\ Learned5' /\ Begun'
         /\ (stage' \in Negotiating) = (stage \in Negotiating)
<1>1. stage' = stage /\ replies' = replies /\ input' = input /\ config' = config
  BY ReadingStays
<1>2. /\ MethodsEnd' = MethodsEnd /\ UserEnd' = UserEnd /\ AuthEnd' = AuthEnd
      /\ AddressType' = AddressType /\ AddressEnd' = AddressEnd
      /\ Zeros' = Zeros /\ NameEnd' = NameEnd /\ NegotiationEnd' = NegotiationEnd
      /\ Told' = Told
  BY ReadingStays
<1>3. /\ (UserPass' <=> UserPass) /\ (MayRequest' <=> MayRequest) /\ (PolicyMet' <=> PolicyMet)
      /\ (Named' <=> Named) /\ (Rejected4' <=> Rejected4)
  BY ReadingStays
<1>4. Position' = Position
  BY <1>1, <1>2 DEF Position
<1>5. want' = want => Wanted' = Wanted
  BY <1>1, <1>2 DEF Wanted
<1>6. LearnedAll'
  BY <1>1, <1>2, <1>3 DEF SocksInv, LearnedAll, Agreed
<1>7. Learned4'
  BY <1>1, <1>2, <1>3 DEF SocksInv, Learned4, Least
<1>8. Learned5'
  BY <1>1, <1>2, <1>3 DEF SocksInv, Learned5
<1>9. Begun'
  BY <1>1, <1>4 DEF SocksInv, Begun
<1> QED
  BY <1>1, <1>4, <1>5, <1>6, <1>7, <1>8, <1>9

LEMMA ReadKeepsInv ==
  ASSUME SocksInv, Read
  PROVE  SocksInv'
<1>1. PICK k \in 1..Len(input) - read :
        read' = read + k /\ buffer' = buffer \o SubSeq(input, read + 1, read + k)
  BY DEF Read
<1>2. /\ stage \in Negotiating /\ UNCHANGED given /\ stage' = stage /\ want' = want
      /\ replies' = replies /\ tunnel' = tunnel /\ piped' = piped /\ tcp' = tcp /\ aborted' = aborted
  BY DEF Read, request
<1>3. config' = config /\ input' = input
  BY <1>2 DEF given
<1> DEFINE p == Position
<1>4. p \in 0..read /\ buffer = SubSeq(input, p + 1, read) /\ piped = <<>>
  BY <1>2 DEF SocksInv, Window, Validating
<1>5. input \in Seq(Bytes) /\ Len(input) \in Nat /\ read \in 0..Len(input)
  BY InputIs DEF SocksInv
<1> HIDE DEF p
<1>6. buffer' = SubSeq(input, p + 1, read + k)
  BY <1>1, <1>4, <1>5, WindowGrows
<1> DEFINE r == read + k
<1>7. r \in 0..Len(input) /\ p \in 0..r /\ read' = r
  BY <1>1, <1>4, <1>5
<1> HIDE DEF r
<1>8. buffer' \in Seq(Bytes)
  <2>1. buffer' = SubSeq(input, p + 1, r)
    BY <1>6 DEF r
  <2> QED
    BY <1>5, <1>7, <2>1, WindowIs
<1>9. TypeOK'
  BY <1>2, <1>3, <1>7, <1>8 DEF SocksInv, TypeOK, Bytes
<1>10. Position' = p /\ Wanted' = Wanted /\ LearnedAll' /\ Learned4' /\ Learned5' /\ Begun'
  BY <1>2, PlaceStays DEF p
<1>11. Window'
  <2>1. Position' \in 0..read' /\ buffer' = SubSeq(input', Position' + 1, read') /\ piped' = <<>>
    BY <1>2, <1>3, <1>4, <1>6, <1>7, <1>10 DEF r
  <2>2. stage' # "piping"
    BY <1>2 DEF Negotiating, Socks4, Socks5
  <2> QED
    BY <2>1, <2>2 DEF Window, Validating
<1>12. TunnelFits' /\ (stage' \in Negotiating => want' = Wanted')
  BY <1>2, <1>10 DEF SocksInv, TunnelFits, Validating
<1> QED
  BY <1>9, <1>10, <1>11, <1>12 DEF SocksInv

(* The connection is closed and the rest left as it is.                      *)
LEMMA ClosedKeepsInv ==
  ASSUME SocksInv, Closed, UNCHANGED <<given, read, buffer, want, replies, piped>>,
         aborted' \in BOOLEAN
  PROVE  SocksInv'
<1>1. config' = config /\ input' = input /\ read' = read /\ buffer' = buffer /\ want' = want
      /\ replies' = replies /\ piped' = piped
  BY DEF given
<1>2. stage' = "closed" /\ tcp' = (IF tcp = "broken" THEN tcp ELSE "closed")
      /\ tunnel' = (IF tunnel = "open" THEN "closed" ELSE tunnel)
  BY DEF Closed
<1>3. TypeOK'
  BY <1>1, <1>2 DEF SocksInv, TypeOK
<1>4. tunnel' # "open"
  BY <1>2
<1> QED
  BY <1>2, <1>3, <1>4, Closes

(* Nothing of the negotiation or the pipes changes.                          *)
LEMMA AsideKeepsInv ==
  ASSUME SocksInv, UNCHANGED <<given, read, buffer, request, replies, tunnel, piped>>,
         tcp' \in {tcp, "broken"}, aborted' \in BOOLEAN
  PROVE  SocksInv'
<1>1. config' = config /\ input' = input /\ read' = read /\ buffer' = buffer /\ want' = want
      /\ stage' = stage /\ replies' = replies /\ piped' = piped /\ tunnel' = tunnel
      /\ UNCHANGED given
  BY DEF given, request
<1>2. TypeOK'
  BY <1>1 DEF SocksInv, TypeOK
<1>3. Position' = Position /\ Wanted' = Wanted /\ LearnedAll' /\ Learned4' /\ Learned5' /\ Begun'
  BY <1>1, PlaceStays
<1>4. Window'
  BY <1>1, <1>3 DEF SocksInv, Window, Validating, Asking
<1>5. TunnelFits' /\ (stage' \in Negotiating => want' = Wanted')
  BY <1>1, <1>3 DEF SocksInv, TunnelFits, Validating
<1> QED
  BY <1>2, <1>3, <1>4, <1>5 DEF SocksInv

(* What holds of a negotiation that is over.                                 *)
LEMMA Over ==
  ASSUME SocksInv, stage \in Asking \cup {"remaining", "piping"}
  PROVE  /\ Position = NegotiationEnd /\ NegotiationEnd \in 0..read
         /\ PolicyMet /\ stage \notin Negotiating
  BY DEF SocksInv, Window, Validating, Position, LearnedAll, Agreed, Asking, Negotiating, Socks4, Socks5

(* And what is to be shown to get to its next stage.                         *)
LEMMA OverKeepsInv ==
  ASSUME SocksInv, stage \in Asking \cup {"remaining", "piping"}, UNCHANGED given,
         TypeOK', stage' \in {"remaining", "piping"}, read' >= read, read' \in Int,
         replies' = Append(Told, "granted"),
         stage' = "remaining" =>
           buffer' = SubSeq(input, NegotiationEnd + 1, read') /\ piped' = <<>>,
         stage' = "piping" =>
           buffer' = <<>> /\ piped' = SubSeq(input, NegotiationEnd + 1, read')
  PROVE  SocksInv'
<1>1. input' = input /\ NegotiationEnd' = NegotiationEnd /\ PolicyMet' /\ Told' = Told
  BY ReadingStays, Over
<1>2. Position' = NegotiationEnd
  BY <1>1 DEF Position
<1>3. NegotiationEnd \in 0..read'
  BY Over DEF SocksInv, TypeOK
<1>4. Window'
  BY <1>1, <1>2, <1>3 DEF Window, Validating, Negotiating, Asking, Socks4, Socks5
<1>5. stage' \notin Negotiating /\ TunnelFits'
  BY DEF Negotiating, Validating, Socks4, Socks5, TunnelFits
<1>6. LearnedAll' /\ Learned4' /\ Learned5' /\ Begun'
  BY <1>1 DEF LearnedAll, Learned4, Learned5, Begun, Asking, Socks4, Socks5,
              Authenticating, Addressing
<1> QED
  BY <1>4, <1>5, <1>6 DEF SocksInv

LEMMA GrantedKeepsInv ==
  ASSUME SocksInv, Granted
  PROVE  SocksInv'
<1>1. /\ stage \in Asking
      /\ tunnel' = IF aborted THEN "closed" ELSE "open"
      /\ replies' = Append(replies, "granted")
      /\ stage' = IF aborted THEN "closed" ELSE IF buffer = <<>> THEN "piping" ELSE "remaining"
      /\ tcp' = IF aborted /\ tcp = "open" THEN "closed" ELSE tcp
      /\ UNCHANGED given /\ read' = read /\ buffer' = buffer /\ want' = want
      /\ piped' = piped /\ aborted' = aborted
  BY DEF Granted, Asking
<1>2. config' = config /\ input' = input
  BY <1>1 DEF given
<1>3. replies' \in Seq(Reply)
  <2>1. replies \in Seq(Reply) /\ "granted" \in Reply
    BY DEF SocksInv, TypeOK, Reply
  <2> QED
    BY <1>1, <2>1, AppendProperties
<1>4. TypeOK'
  BY <1>1, <1>2, <1>3 DEF SocksInv, TypeOK, Reply
<1>5. CASE aborted
  <2>1. stage' = "closed" /\ tunnel' = "closed"
    BY <1>1, <1>5
  <2> QED
    BY <1>4, <2>1, Closes
<1>6. CASE ~aborted
  <2>1. replies = Told /\ Position = NegotiationEnd
    BY <1>1, Over DEF SocksInv, LearnedAll
  <2>2. buffer = SubSeq(input, NegotiationEnd + 1, read) /\ piped = <<>>
    BY <1>1, <2>1 DEF SocksInv, Window, Validating
  <2>3. read' >= read /\ read' \in Int /\ stage' \in {"remaining", "piping"}
    BY <1>1, <1>6 DEF SocksInv, TypeOK
  <2>4. /\ stage' = "remaining" =>
             buffer' = SubSeq(input, NegotiationEnd + 1, read') /\ piped' = <<>>
        /\ stage' = "piping" =>
             buffer' = <<>> /\ piped' = SubSeq(input, NegotiationEnd + 1, read')
    BY <1>1, <1>6, <2>2
  <2> QED
    BY <1>1, <1>4, <2>1, <2>3, <2>4, OverKeepsInv
<1> QED
  BY <1>5, <1>6

LEMMA AskingEndsKeepsInv ==
  ASSUME SocksInv, GrantFails \/ Refused
  PROVE  SocksInv'
<1>1. /\ stage' = "closed" /\ UNCHANGED given /\ read' = read /\ buffer' = buffer
      /\ want' = want /\ piped' = piped /\ aborted' = aborted
      /\ replies' \in {replies, Append(replies, "refused")}
      /\ tunnel' \in {"open", "none"} /\ tcp' \in {"broken", "closed"}
      /\ tunnel' = "open" => tcp' = "broken"
  BY DEF GrantFails, Refused
<1>2. config' = config /\ input' = input
  BY <1>1 DEF given
<1>3. replies' \in Seq(Reply)
  <2>1. replies \in Seq(Reply) /\ "refused" \in Reply
    BY DEF SocksInv, TypeOK, Reply
  <2>2. Append(replies, "refused") \in Seq(Reply)
    BY <2>1, AppendProperties
  <2> QED
    BY <1>1, <2>1, <2>2
<1>4. TypeOK'
  BY <1>1, <1>2, <1>3 DEF SocksInv, TypeOK, Reply
<1> QED
  BY <1>1, <1>4, Closes

LEMMA WritesRemainingKeepsInv ==
  ASSUME SocksInv, WritesRemaining
  PROVE  SocksInv'
<1>1. /\ stage = "remaining" /\ stage' = "piping" /\ piped' = buffer /\ buffer' = <<>>
      /\ UNCHANGED given /\ read' = read /\ want' = want /\ replies' = replies
      /\ tunnel' = tunnel /\ tcp' = tcp /\ aborted' = aborted
  BY DEF WritesRemaining
<1>2. config' = config /\ input' = input
  BY <1>1 DEF given
<1>3. TypeOK'
  BY <1>1, <1>2 DEF SocksInv, TypeOK
<1>4. replies = Append(Told, "granted") /\ buffer = SubSeq(input, NegotiationEnd + 1, read)
  BY <1>1, Over DEF SocksInv, LearnedAll, Window, Validating
<1>5. read' >= read /\ read' \in Int
  BY <1>1 DEF SocksInv, TypeOK
<1> QED
  BY <1>1, <1>3, <1>4, <1>5, OverKeepsInv

LEMMA PipesKeepsInv ==
  ASSUME SocksInv, Pipes
  PROVE  SocksInv'
<1>1. PICK k \in 1..Len(input) - read :
        read' = read + k /\ piped' = piped \o SubSeq(input, read + 1, read + k)
  BY DEF Pipes
<1>2. /\ stage = "piping" /\ stage' = "piping" /\ buffer' = buffer
      /\ UNCHANGED given /\ want' = want /\ replies' = replies
      /\ tunnel' = tunnel /\ tcp' = tcp /\ aborted' = aborted
  BY DEF Pipes, request
<1>3. config' = config /\ input' = input
  BY <1>2 DEF given
<1> DEFINE p == NegotiationEnd
<1>4. p \in 0..read /\ buffer = <<>> /\ piped = SubSeq(input, p + 1, read)
      /\ replies = Append(Told, "granted")
  BY <1>2, Over DEF SocksInv, Window, Validating, LearnedAll
<1>5. input \in Seq(Bytes) /\ Len(input) \in Nat /\ read \in 0..Len(input)
  BY InputIs DEF SocksInv
<1> HIDE DEF p
<1>6. piped' = SubSeq(input, p + 1, read + k)
  BY <1>1, <1>4, <1>5, WindowGrows
<1> DEFINE r == read + k
<1>7. r \in 0..Len(input) /\ p \in 0..r /\ read' = r /\ r >= read /\ r \in Int
  BY <1>1, <1>4, <1>5
<1> HIDE DEF r
<1>8. piped' = SubSeq(input, p + 1, r)
  BY <1>6 DEF r
<1>9. piped' \in Seq(Bytes)
  BY <1>5, <1>7, <1>8, WindowIs
<1>10. TypeOK'
  BY <1>2, <1>3, <1>7, <1>9 DEF SocksInv, TypeOK, Bytes
<1> QED
  BY <1>2, <1>4, <1>7, <1>8, <1>10, OverKeepsInv DEF p


-----------------------------------------------------------------------------
(* The invariant.                                                           *)

LEMMA InitInv ==
  ASSUME Init
  PROVE  SocksInv
<1>1. /\ config \in Configs /\ input \in Inputs /\ read = 0 /\ buffer = <<>> /\ stage = "start"
      /\ want = 0 /\ replies = <<>> /\ tunnel = "none" /\ piped = <<>> /\ tcp = "open"
      /\ aborted = FALSE
  BY DEF Init
<1>2. input \in Seq(Bytes)
  BY <1>1, SocksAssumption DEF Bytes
<1>3. Len(input) \in Nat
  BY <1>2, LenProperties
<1>4. TypeOK
  <2>1. config \in Configs /\ input \in Inputs /\ aborted \in BOOLEAN
    BY <1>1, Zenon
  <2>2. read \in 0..Len(input) /\ want \in -1..255
    BY <1>1, <1>3
  <2>3. buffer \in Seq(0..255) /\ piped \in Seq(0..255) /\ replies \in Seq(Reply)
    BY <1>1
  <2> QED
    BY <1>1, <2>1, <2>2, <2>3 DEF TypeOK, Negotiating, Reply
<1>5. Position = 0 /\ Wanted = 0
  BY <1>1 DEF Position, Wanted
<1>6. SubSeq(input, Position + 1, read) = <<>>
  <2>1. Position + 1 \in Int /\ read \in Int /\ read < Position + 1
    BY <1>1, <1>5
  <2> QED
    BY <2>1, SubSeqEmpty
<1>7. Window
  BY <1>1, <1>5, <1>6 DEF Window, Validating
<1>8. LearnedAll /\ Learned4 /\ Learned5 /\ Begun /\ TunnelFits
  BY <1>1 DEF LearnedAll, Learned4, Learned5, Begun, TunnelFits, Validating, Agreed, Asking, Socks4, Socks5,
              Authenticating, Addressing
<1> QED
  BY <1>1, <1>4, <1>5, <1>7, <1>8 DEF SocksInv

LEMMA NextKeepsInv ==
  ASSUME SocksInv, [Next]_vars
  PROVE  SocksInv'
<1>1. aborted \in BOOLEAN
  BY DEF SocksInv, TypeOK
<1>2. CASE Generator
  BY <1>2, StartsKeepsInv, ReadsVersionKeepsInv, Socks4HeaderKeepsInv, Socks4UserKeepsInv,
     Socks4HostKeepsInv, Socks5GreetingKeepsInv, Socks5MethodsKeepsInv, Socks5AuthKeepsInv,
     Socks5RequestKeepsInv, Socks5AddressKeepsInv
     DEF Generator
<1>3. CASE StopsServing \/ Fails \/ ValidationFails \/ RemainingFails \/ PipesEnd
  <2>1. Closed /\ UNCHANGED <<given, read, buffer, want, replies, piped>> /\ aborted' = aborted
    BY <1>3 DEF StopsServing, Fails, ValidationFails, RemainingFails, PipesEnd
  <2> QED
    BY <1>1, <2>1, ClosedKeepsInv
<1>4. CASE Read
  BY <1>4, ReadKeepsInv
<1>5. CASE Granted
  BY <1>5, GrantedKeepsInv
<1>6. CASE GrantFails \/ Refused
  BY <1>6, AskingEndsKeepsInv
<1>7. CASE WritesRemaining
  BY <1>7, WritesRemainingKeepsInv
<1>8. CASE Pipes
  BY <1>8, PipesKeepsInv
<1>9. CASE Breaks
  <2>1. UNCHANGED <<given, read, buffer, request, replies, tunnel, piped>> /\ tcp' = "broken"
        /\ aborted' = aborted
    BY <1>9 DEF Breaks
  <2> QED
    BY <1>1, <2>1, AsideKeepsInv
<1>10. CASE Abort /\ stage = "piping"
  <2>1. Closed /\ UNCHANGED <<given, read, buffer, want, replies, piped>> /\ aborted' = TRUE
    BY <1>10 DEF Abort
  <2> QED
    BY <2>1, ClosedKeepsInv
<1>11. CASE Abort /\ stage # "piping"
  <2>1. UNCHANGED <<given, read, buffer, request, replies, tunnel, piped>> /\ tcp' = tcp
        /\ aborted' = TRUE
    BY <1>11 DEF Abort, request
  <2> QED
    BY <2>1, AsideKeepsInv
<1>12. CASE Accepted \/ Rejected
  BY <1>12, AcceptedKeepsInv, RejectedKeepsInv
<1>13. CASE UNCHANGED vars
  <2>1. UNCHANGED <<given, read, buffer, request, replies, tunnel, piped>> /\ tcp' = tcp
        /\ aborted' = aborted
    BY <1>13 DEF vars
  <2> QED
    BY <1>1, <2>1, AsideKeepsInv
<1> QED
  BY <1>2, <1>3, <1>4, <1>5, <1>6, <1>7, <1>8, <1>9, <1>10, <1>11, <1>12, <1>13
     DEF Next, Serving, Done

(* The invariant holds throughout.                                          *)
THEOREM SocksCorrect == Spec => []SocksInv
<1>1. Init => SocksInv
  BY InitInv
<1>2. SocksInv /\ [Next]_vars => SocksInv'
  BY NextKeepsInv
<1> QED
  BY <1>1, <1>2, PTL DEF Spec

(* Every variable of a connection keeps its type: what is read stays within  *)
(* what was sent, and every size that is asked for is a byte.                *)
THEOREM TypesCorrect == Spec => []TypeOK
<1>1. SocksInv => TypeOK
  BY DEF SocksInv
<1> QED
  BY <1>1, SocksCorrect, PTL

LEMMA NothingSwallowedHolds ==
  ASSUME SocksInv
  PROVE  NothingSwallowed
<1> SUFFICES ASSUME Agreed
             PROVE  piped \o buffer \o SubSeq(input, read + 1, Len(input))
                      = SubSeq(input, NegotiationEnd + 1, Len(input))
  BY DEF NothingSwallowed
<1> DEFINE e == NegotiationEnd
           x == SubSeq(input, e + 1, read)
           y == SubSeq(input, read + 1, Len(input))
<1>1. stage \in Asking \cup {"remaining", "piping"}
  BY DEF Agreed, Asking
<1>2. input \in Seq(Bytes) /\ Len(input) \in Nat /\ read \in 0..Len(input)
  BY InputIs DEF SocksInv
<1>3. e \in 0..read /\ Position = e
  BY <1>1, Over
<1>4. x \in Seq(Bytes)
  <2> HIDE DEF e
  <2> QED
    BY <1>2, <1>3, WindowIs
<1>5. piped \o buffer = x
  <2>1. \/ piped = <<>> /\ buffer = x
        \/ piped = x /\ buffer = <<>>
    BY <1>1, <1>3 DEF SocksInv, Window, Validating
  <2> HIDE DEF x
  <2> QED
    BY <1>4, <2>1, ConcatEmptySeq
<1>6. x \o y = SubSeq(input, e + 1, Len(input))
  <2> HIDE DEF e
  <2>1. e + 1 \in 1..Len(input) + 1 /\ read \in (e + 1) - 1..Len(input) /\ Len(input) \in read..Len(input)
    BY <1>2, <1>3
  <2> QED
    BY <1>2, <2>1, ConcatAdjacentSubSeq
<1> QED
  BY <1>5, <1>6

(* However the bytes are cut into chunks, and whatever the application       *)
(* sends, a negotiation takes exactly its own bytes and the tunnel gets all  *)
(* the others, in order (socks.server.ts:157, 206).                         *)
THEOREM NothingSwallowedCorrect == Spec => []NothingSwallowed
<1>1. SocksInv => NothingSwallowed
  BY NothingSwallowedHolds
<1> QED
  BY <1>1, SocksCorrect, PTL

(* For every policy and every input, a tunnel is asked for only when the     *)
(* policy is met and after the replies of the protocol, and it goes with the *)
(* connection unless that broke first (socks4.handler.ts, socks5.handler.ts). *)
THEOREM TunnelAsAgreedCorrect == Spec => []TunnelAsAgreed
<1>1. SocksInv => TunnelAsAgreed
  BY DEF SocksInv, TunnelAsAgreed, LearnedAll, TunnelFits, Validating, Asking
<1> QED
  BY <1>1, SocksCorrect, PTL

(* Once the server is aborted, the loop serves no generator.  A step is then  *)
(* one of those that end something, or that stay where they are, or the end of *)
(* a validation or of the wait for a tunnel.                                *)
LEMMA AbortedSteps ==
  ASSUME aborted, [Next]_vars, stage \notin Served
  PROVE  /\ aborted'
         /\ \/ Closed
            \/ UNCHANGED stage /\ UNCHANGED tunnel
            \/ Accepted
            \/ stage \in Asking /\ stage' = "closed"
<1>1. ~Generator
  BY DEF Generator, At, Serves, Starts, ReadsVersion, Socks4Header, Socks4User, Socks4Host,
         Socks5Greeting, Socks5Methods, Socks5Auth, Socks5Request, Socks5Address
<1>2. ~(WritesRemaining \/ RemainingFails \/ Pipes \/ PipesEnd \/ Abort)
  BY DEF Served, WritesRemaining, RemainingFails, Pipes, PipesEnd, Abort
<1>3. CASE StopsServing \/ Fails \/ Rejected \/ ValidationFails
  BY <1>3 DEF StopsServing, Fails, Rejected, ValidationFails
<1>4. CASE Read \/ Breaks \/ UNCHANGED vars
  BY <1>4 DEF Read, Breaks, vars, request
<1>5. CASE Accepted
  BY <1>5 DEF Accepted
<1>6. CASE Granted \/ GrantFails \/ Refused
  BY <1>6 DEF Granted, GrantFails, Refused, Asking
<1> QED
  BY <1>1, <1>2, <1>3, <1>4, <1>5, <1>6 DEF Next, Serving, Done

(* What is not served when the server is aborted.                            *)
Unserved == aborted /\ stage \notin Served

LEMMA StaysUnserved ==
  ASSUME Unserved, [Next]_vars
  PROVE  Unserved'
<1>1. aborted /\ stage \notin Served
  BY DEF Unserved
<1>2. aborted'
  BY <1>1, AbortedSteps
<1>3. stage' \notin Served
  BY <1>1, AbortedSteps DEF Closed, Accepted, Served
<1> QED
  BY <1>2, <1>3 DEF Unserved

(* And what will ask for no tunnel: all that waits for bytes, or for a        *)
(* validation after which more of them are needed.                          *)
Doomed ==
  /\ aborted /\ tunnel = "none"
  /\ stage \in Negotiating \cup {"validating4a", "validating5", "closed"}

LEMMA StaysDoomed ==
  ASSUME Doomed, [Next]_vars
  PROVE  Doomed'
<1>1. aborted /\ tunnel = "none" /\ stage \in Negotiating \cup {"validating4a", "validating5", "closed"}
  BY DEF Doomed
<1>2. stage \notin Served /\ stage \notin Asking /\ stage # "validating4"
  BY <1>1 DEF Served, Asking, Negotiating, Socks4, Socks5
<1>3. /\ aborted'
      /\ Closed \/ (UNCHANGED stage /\ UNCHANGED tunnel) \/ Accepted
  BY <1>1, <1>2, AbortedSteps
<1>4. CASE Closed
  BY <1>1, <1>3, <1>4 DEF Closed, Doomed
<1>5. CASE UNCHANGED stage /\ UNCHANGED tunnel
  BY <1>1, <1>3, <1>5 DEF Doomed
<1>6. CASE Accepted
  BY <1>1, <1>2, <1>3, <1>6 DEF Accepted, Doomed, Negotiating, Socks4, Socks5
<1> QED
  BY <1>3, <1>4, <1>5, <1>6

(* Wherever the signal finds a connection that is not served yet, during a   *)
(* validation and during the wait for a tunnel as well, it is never served;  *)
(* and it asks for no tunnel any more, unless version 4 validates the user   *)
(* of a request that has an address (socks.server.ts:141, 198,               *)
(* socks4.handler.ts:75).                                                   *)
THEOREM AbortHeededCorrect == Spec => AbortHeeded
<1>1. Unserved /\ [Next]_vars => Unserved'
  BY StaysUnserved
<1>2. Unserved <=> aborted /\ stage \notin Served
  BY DEF Unserved
<1>3. SocksInv /\ aborted /\ stage \in Negotiating \cup {"validating4a", "validating5"} => Doomed
  BY DEF SocksInv, TunnelFits, Validating, Doomed
<1>4. Doomed /\ [Next]_vars => Doomed'
  BY StaysDoomed
<1>5. Doomed => tunnel = "none"
  BY DEF Doomed
<1>6. Spec => [](aborted /\ stage \notin Served => [](stage \notin Served))
  BY <1>1, <1>2, PTL DEF Spec
<1>7. Spec => [](aborted /\ stage \in Negotiating \cup {"validating4a", "validating5"}
                  => [](tunnel = "none"))
  BY <1>3, <1>4, <1>5, SocksCorrect, PTL DEF Spec
<1> QED
  BY <1>6, <1>7 DEF AbortHeeded

=============================================================================
