---------------------------- MODULE MCConnection ----------------------------
(***************************************************************************)
(* A control connection for TLC: one client IP, an allow-all list, the    *)
(* default method configuration, a permit-all and a CONNECT-only rule set, *)
(* the CONNECT and ASSOCIATE commands; for the association two UDP         *)
(* clients, two buffers, three dials and up to four received datagrams.    *)
(***************************************************************************)
EXTENDS Connection

CONSTANTS a1, c1, c2, b1, b2

\* Config.AuthMethods empty (defaults apply); a client offering no-auth.
MCConnAuthConfigs == {<<>>}

MCConnOffers == {<<0>>}

MCConnCreds == [u \in {"alice"} |-> "pw"]

MCConnRuleSets == {[connect |-> TRUE, bind |-> TRUE, associate |-> TRUE],
                   [connect |-> TRUE, bind |-> FALSE, associate |-> FALSE]}

Loopback == <<"127", "0", "0", "1">>   \* address bytes as strings

\* Inbound datagrams: two clients to the same IPv4 destination, one fragment.
MCConnWire ==
    { [src |-> c1, frag |-> 0, atyp |-> 1, addr |-> Loopback, port |-> 8888, len |-> 14],
      [src |-> c2, frag |-> 0, atyp |-> 1, addr |-> Loopback, port |-> 8888, len |-> 14],
      [src |-> c2, frag |-> 1, atyp |-> 1, addr |-> Loopback, port |-> 8888, len |-> 14] }
=============================================================================
