------------------------------ MODULE MCRelay ------------------------------
(* Relay for TLC: the sockets, what they may do, and what they ask for.      *)
EXTENDS Relay, TLC

CONSTANTS s1, s2, s3, n1, n2, raw, socks

Ask(n, t) == [service |-> n, type |-> t]
Valid(services) == [todo |-> services, invalid |-> FALSE]

(* Two sockets that may do everything: requests for one service, for two in  *)
(* either order, for one name with two types, for none, and one that has an  *)
(* entry of an invalid type.                                                 *)
EverythingAllowed == {s1, s2} \X {n1, n2}
EveryKindOfRequest ==
  {Valid(<<Ask(n1, raw)>>),
   Valid(<<Ask(n1, raw), Ask(n2, raw)>>), Valid(<<Ask(n2, raw), Ask(n1, raw)>>),
   Valid(<<Ask(n1, raw), Ask(n1, socks)>>), Valid(<<>>),
   [todo |-> <<Ask(n1, raw)>>, invalid |-> TRUE]}

(* Three sockets: s1 and s2 compete for the services, s2 may not have both,  *)
(* s3 only connects, and s1 may not connect.                                 *)
CompetingMayBind == {s1, s2} \X {n1, n2} \ {<<s2, n2>>}
CompetingMayConnect == {s2, s3} \X {n1}
CompetingRequests ==
  {Valid(<<Ask(n1, raw)>>), Valid(<<Ask(n1, raw), Ask(n2, raw)>>)}

=============================================================================
