----------------------------- MODULE Connection -----------------------------
(***************************************************************************)
(* One control connection that may carry a UDP ASSOCIATE: Session (the    *)
(* ServeConn side) composed with Associate (the association doAssociate   *)
(* runs).  They meet at two points.  doAssociate's bind, drain spawn and  *)
(* success reply is one step of both: the reply Session writes is the one *)
(* Associate's Start sends.  ServeConn returns from an ASSOCIATE only when *)
(* doAssociate does, that is once readFromSrc has returned.  Every other  *)
(* step belongs to one of the two; the association's reverse tasks may    *)
(* outlive ServeConn.                                                     *)
(***************************************************************************)
EXTENDS Naturals

CONSTANTS IPs, AllowAll, Allowlists, AuthConfigs, MethodOffers, Users,
          Passwords, Creds, RuleSets, Commands, NoCmd, NoMethod, NoCred,
          Clients, Wire, Buffers, MaxDials, MaxRecv, MaxRemote, RemoteSizes,
          NoBuf, NoPeer

VARIABLES
    conf, authMethods, allowlist, rules, ip, pc, out, offered, method, user, pass,
    reqCmd, fqdn, dispatched, px, errCh, got, clientGone, peerGone,
    phase, ctrlOpen, drain, udpOpen, peers, peer, mem, freeCount, sockOpen,
    dialTo, nextSock, inbox, remoteSent, rt, rlen, held, recvd

S == INSTANCE Session
A == INSTANCE Associate

\* The association's constants keep the ranges Associate assumes of them.
ASSUME AssociationAssumption ==
    A!BoundsAssumption /\ A!WireAssumption /\ A!NilAssumption

svars == <<conf, authMethods, allowlist, rules, ip, pc, out, offered, method, user,
           pass, reqCmd, fqdn, dispatched, px, errCh, got, clientGone, peerGone>>
avars == <<phase, ctrlOpen, drain, udpOpen, peers, peer, mem, freeCount,
           sockOpen, dialTo, nextSock, inbox, remoteSent, rt, rlen, held, recvd>>
vars == <<svars, avars>>

Init == S!Init /\ A!Init

\* doAssociate up to readFromSrc: ServeConn's success reply is written
\* exactly when the association binds its socket, spawns the drain task and
\* its sendReply succeeds; a failed Listen or reply leaves no reply.
AssociateStart ==
    /\ S!AssociateSetup /\ A!Start
    /\ (pc' = "udp") = (phase' = "relay")

\* Mutant: doAssociate returns without waiting for readFromSrc (as if the
\* relay loop ran in a goroutine of its own).
AssociateReturnEarly ==
    /\ S!AssociateEnd
    /\ UNCHANGED avars

\* doAssociate returns the value of readFromSrc: ServeConn returns only
\* after the relay loop has ended.
AssociateReturn ==
    /\ S!AssociateEnd /\ phase = "closed"
    /\ UNCHANGED avars

\* Steps of ServeConn away from the ASSOCIATE handler.
SessionStep ==
    /\ S!Next /\ pc \notin {"associate", "udp"}
    /\ UNCHANGED avars

\* Steps of the association's tasks and its environment once it started.
AssociationStep ==
    /\ A!Next /\ phase # "init"
    /\ UNCHANGED svars

Next == AssociateStart \/ AssociateReturn \/ SessionStep \/ AssociationStep

Spec == Init /\ [][Next]_vars

\* When ServeConn has returned, whatever the command was, the association's
\* UDP socket and every outbound socket it dialled are closed: doAssociate
\* returns only through readFromSrc's CloseAll and the deferred
\* udpServer.Close, and no flow socket escapes the table on the way.
AssociationClosedOnReturn ==
    pc = "done" => ~udpOpen /\ \A s \in A!Sockets : ~sockOpen[s]
=============================================================================
