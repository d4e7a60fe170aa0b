------------------------------- MODULE MCSocks -------------------------------
(* Socks for TLC: what applications send, with names of no bytes, bytes that *)
(* are zero and bytes sent ahead of the reply, and some that do not keep to  *)
(* the protocol.                                                             *)
EXTENDS Socks

Ahead == <<7, 0, 5>>

Credentials == <<1, 0, 1, 66>>
IPv4 == <<5, 1, 0, 1, 127, 0, 0, 1, 0, 80>>
IPv6 == <<5, 1, 0, 4>> \o [i \in 1..16 |-> 0] \o <<1, 187>>
Domain == <<5, 1, 0, 3, 2, 97, 98, 0, 80>>
NoName == <<5, 1, 0, 3, 0, 0, 80>>

Socks5Inputs ==
  {<<5, 1, 0>> \o asks \o Ahead : asks \in {IPv4, IPv6, Domain, NoName}}
    \cup {greeting \o Credentials \o Domain \o Ahead : greeting \in {<<5, 2, 0, 2>>, <<5, 1, 2>>}}
    \cup {<<5, 0>>, <<5, 1, 0, 4, 1, 0, 1>>, <<5, 1, 0, 5, 2, 0, 1>>, <<5, 1, 0, 5, 1, 0, 9>>,
          <<5, 1, 2, 9, 0>>}

Socks4Inputs ==
  {<<4, 1, 0, 80, 127, 0, 0, 1>> \o name \o Ahead : name \in {<<0>>, <<65, 0>>}}
    \cup {<<4, 1, 0, 80, 0, 0, 0, 1, 65, 0, 97, 0>> \o Ahead,
          <<4, 1, 0, 80, 0, 0, 0, 0, 0>> \o Ahead,
          <<4, 2, 0, 80, 127, 0, 0, 1>>}

AllInputs == Socks4Inputs \cup Socks5Inputs \cup {<<9, 1>>}

(* What socks-proxy-server.service sets, and the other options.              *)
Deployed == [socks4 |-> TRUE, auth4 |-> FALSE, socks5 |-> TRUE, auth5 |-> "disabled",
             valid |-> FALSE]
SomeConfigs ==
  {Deployed, [Deployed EXCEPT !.socks4 = FALSE, !.socks5 = FALSE]}
    \cup {[Deployed EXCEPT !.auth4 = TRUE, !.auth5 = "required", !.valid = v] : v \in BOOLEAN}
    \cup {[Deployed EXCEPT !.auth5 = "optional", !.valid = v] : v \in BOOLEAN}

=============================================================================
