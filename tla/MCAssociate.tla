---------------------------- MODULE MCAssociate ----------------------------
(***************************************************************************)
(* A small association for TLC: two clients, two pooled buffers, three     *)
(* outbound sockets, three received datagrams, one reply per remote.       *)
(***************************************************************************)
EXTENDS Associate

CONSTANTS c1, c2, b1, b2

\* A domain name long enough that a maximal IPv4 UDP reply (65507 bytes)
\* does not fit in readFromDst's 65536-byte buffer once its header is added.
LongName == [i \in 1..30 |-> "x"]

Localhost == <<"127", "0", "0", "1">>   \* address bytes as strings

\* Inbound datagrams: two clients to the same IPv4 destination, one to a
\* long domain name, one fragment (malformed).
MCWire ==
    { [src |-> c1, frag |-> 0, atyp |-> IPv4, addr |-> Localhost, port |-> 8888, len |-> 14],
      [src |-> c2, frag |-> 0, atyp |-> IPv4, addr |-> Localhost, port |-> 8888, len |-> 14],
      [src |-> c1, frag |-> 0, atyp |-> FQDN, addr |-> LongName, port |-> 53, len |-> 41],
      [src |-> c2, frag |-> 1, atyp |-> IPv4, addr |-> Localhost, port |-> 8888, len |-> 14] }

\* Two domain names that differ only in their first character.
MCWireNames ==
    { [src |-> c1, frag |-> 0, atyp |-> FQDN, addr |-> <<"a", "b">>, port |-> 53, len |-> 12],
      [src |-> c1, frag |-> 0, atyp |-> FQDN, addr |-> <<"c", "b">>, port |-> 53, len |-> 12] }

MCRemoteSizes == {4, 65507}
=============================================================================
