---------------------------- MODULE Switchboard ----------------------------
(***************************************************************************)
(* What the relay promises its clients, without handlers, awaits, uid      *)
(* counters or maps: parties come and go, a party publishes a set of       *)
(* services all at once, and circuits join a party to the one that         *)
(* publishes a service until one of the two parts or departs.  Relay       *)
(* implements this (Relay!ImplementsSwitchboard).                          *)
(***************************************************************************)
EXTENDS Integers

CONSTANTS Parties, Services, Types, None

VARIABLES
  present,   (* the parties that are there                               *)
  published, (* from a service to its publisher and type, or None        *)
  circuits   (* the circuits in place, each a record of its two ends     *)

board == <<present, published, circuits>>

BoardInit ==
  /\ present = {}
  /\ published = [n \in Services |-> None]
  /\ circuits = {}

Of(c) == {c.client, c.server}

CircuitEnds(c) == {<<c.client, c.clientUid>>, <<c.server, c.serverUid>>}

Arrive(p) ==
  /\ p \notin present
  /\ present' = present \cup {p}
  /\ UNCHANGED <<published, circuits>>

(* With a party go its services and its circuits, and nothing else.          *)
Depart(p) ==
  /\ p \in present
  /\ present' = present \ {p}
  /\ published' = [n \in Services |->
       IF published[n] # None /\ published[n].socket = p THEN None ELSE published[n]]
  /\ circuits' = {c \in circuits : p \notin Of(c)}

(* All the services of the offer, each with its type, or none.               *)
Publish(p, offer) ==
  /\ p \in present
  /\ \A n \in DOMAIN offer : published[n] = None
  /\ published' = [n \in Services |->
       IF n \in DOMAIN offer THEN [socket |-> p, type |-> offer[n]] ELSE published[n]]
  /\ UNCHANGED <<present, circuits>>

(* A circuit to the publisher of some service, at two unused ends.           *)
Join(c) ==
  /\ Of(c) \subseteq present
  /\ \E n \in Services : published[n] # None /\ published[n].socket = c.server
  /\ \A d \in circuits : CircuitEnds(c) \cap CircuitEnds(d) = {}
  /\ c.clientUid # c.serverUid
  /\ circuits' = circuits \cup {c}
  /\ UNCHANGED <<present, published>>

Part(c) ==
  /\ c \in circuits
  /\ circuits' = circuits \ {c}
  /\ UNCHANGED <<present, published>>

BoardNext ==
  \/ \E p \in Parties : Arrive(p) \/ Depart(p)
  \/ \E p \in Parties, S \in SUBSET Services : \E offer \in [S -> Types] : Publish(p, offer)
  \/ \E c \in circuits' \ circuits : Join(c)
  \/ \E c \in circuits : Part(c)

BoardSpec == BoardInit /\ [][BoardNext]_board

=============================================================================
