-------------------------- MODULE ConnectionProofs --------------------------
(***************************************************************************)
(* Proofs about a control connection and the association it starts        *)
(* (module Connection), for every value of the constants of Session and   *)
(* Associate.  The association's own invariants come from AssociateProofs, *)
(* instantiated on the same variables.                                     *)
(***************************************************************************)
EXTENDS Connection, TLAPS

AP == INSTANCE AssociateProofs

\* The association relays only while ServeConn is in doAssociate's
\* readFromSrc: the relay loop starts in the step that moves ServeConn
\* to "udp", and ServeConn leaves "udp" only once the loop has ended.
RelayInUdp == phase = "relay" => pc = "udp"

CInv == AP!IInv /\ AP!StoppedQuiet /\ RelayInUdp
\* A and AP instantiate the same definitions of Associate, A directly and
\* AP through AssociateProofs, on the same constants and variables.
LEMMA SameAssociation ==
    /\ A!Next <=> AP!Next
    /\ A!Init <=> AP!Init
    /\ A!vars = AP!vars
<1>1. A!vars = AP!vars
  BY DEF A!vars, AP!vars
<1>2. A!Init <=> AP!Init
  BY DEF A!Init, AP!Init, A!Sockets, AP!Sockets, A!Cells, AP!Cells
<1>3. A!Start <=> AP!Start
  BY DEF A!Start, AP!Start
<1>4. ASSUME NEW w PROVE A!RecvMalformed(w) <=> AP!RecvMalformed(w)
  BY DEF A!RecvMalformed, AP!RecvMalformed, A!ParseError, AP!ParseError,
       A!AddrBytes, AP!AddrBytes, A!IPv4, AP!IPv4, A!IPv6, AP!IPv6, A!FQDN,
       AP!FQDN, A!CloseAll, AP!CloseAll, A!Sockets, AP!Sockets, A!Range,
       AP!Range
<1>5. ASSUME NEW w, NEW b, NEW ok
      PROVE  /\ A!ExistingFlow(w, b, ok) <=> AP!ExistingFlow(w, b, ok)
             /\ A!DialFails(w, b) <=> AP!DialFails(w, b)
             /\ A!NewFlow(w, b, ok) <=> AP!NewFlow(w, b, ok)
  BY DEF A!ExistingFlow, AP!ExistingFlow, A!DialFails, AP!DialFails,
       A!NewFlow, AP!NewFlow, A!Content, AP!Content, A!Address, AP!Address,
       A!FlowKey, AP!FlowKey, A!FQDN, AP!FQDN, A!OnWriteFail, AP!OnWriteFail,
       A!DelPeer, AP!DelPeer, A!SetPeer, AP!SetPeer, A!PeerDstCell,
       AP!PeerDstCell
<1>6. ASSUME NEW w PROVE A!RecvDatagram(w) <=> AP!RecvDatagram(w)
  BY <1>5 DEF A!RecvDatagram, AP!RecvDatagram, A!ParseError, AP!ParseError,
       A!AddrBytes, AP!AddrBytes, A!IPv4, AP!IPv4, A!IPv6, AP!IPv6, A!FQDN,
       AP!FQDN, A!Alloc, AP!Alloc, A!Free, AP!Free
<1>7. ASSUME NEW s, NEW n
      PROVE  /\ A!DstRead(s) <=> AP!DstRead(s)
             /\ A!SendToClient(s) <=> AP!SendToClient(s)
             /\ A!RemoteReply(s, n) <=> AP!RemoteReply(s, n)
  BY DEF A!DstRead, AP!DstRead, A!SendToClient, AP!SendToClient,
       A!RemoteReply, AP!RemoteReply, A!ReplyLen, AP!ReplyLen, A!AddrBytes,
       AP!AddrBytes, A!FQDN, AP!FQDN, A!IPv4, AP!IPv4, A!BufSize, AP!BufSize,
       A!Alloc, AP!Alloc, A!Free, AP!Free, A!ClearDatagram, AP!ClearDatagram
<1>8. /\ A!DrainReturn <=> AP!DrainReturn
      /\ A!ClientClose <=> AP!ClientClose
      /\ A!Sockets = AP!Sockets
  BY DEF A!DrainReturn, AP!DrainReturn, A!ClientClose, AP!ClientClose,
       A!Sockets, AP!Sockets
<1>9. A!Next <=> AP!Next
  BY <1>3, <1>4, <1>6, <1>7, <1>8 DEF A!Next, AP!Next
<1>. QED
  BY <1>1, <1>2, <1>9

\* Associate's assumptions, as the lemmas of AssociateProofs state them.
LEMMA AssociationAssumptions ==
    /\ AP!BoundsAssumption /\ AP!WireAssumption /\ AP!NilAssumption
<1>1. A!BoundsAssumption /\ A!WireAssumption /\ A!NilAssumption
  BY AssociationAssumption DEF AssociationAssumption
<1>2. A!BufSize = AP!BufSize /\ A!Byte = AP!Byte /\ A!Port = AP!Port
  BY DEF A!BufSize, AP!BufSize, A!Byte, AP!Byte, A!Port, AP!Port
<1>3. AP!BoundsAssumption
  BY <1>1, <1>2 DEF A!BoundsAssumption, AP!BoundsAssumption, A!Sockets,
                    AP!Sockets
<1>4. AP!WireAssumption
  BY <1>1, <1>2 DEF A!WireAssumption, AP!WireAssumption
<1>5. AP!NilAssumption
  BY <1>1 DEF A!NilAssumption, AP!NilAssumption, A!PeerRecs, AP!PeerRecs,
              A!Contents, AP!Contents, A!Cells, AP!Cells, A!Content,
              AP!Content, A!Sockets, AP!Sockets, A!IPv4, AP!IPv4, A!IPv6,
              AP!IPv6, A!FQDN, AP!FQDN
<1>. QED
  BY <1>3, <1>4, <1>5

\* Every step of the composition is a step of the association or leaves
\* all of its variables alone.
LEMMA AssociationSteps == [Next]_vars => [AP!Next]_(AP!vars)
<1> SUFFICES ASSUME [Next]_vars PROVE [AP!Next]_(AP!vars)
  OBVIOUS
<1>1. CASE AssociateStart
  BY <1>1, SameAssociation DEF AssociateStart, A!Next
<1>2. CASE AssociationStep
  BY <1>2, SameAssociation DEF AssociationStep
<1>3. CASE AssociateReturn \/ SessionStep \/ UNCHANGED vars
  BY <1>3 DEF AssociateReturn, SessionStep, vars, avars, AP!vars
<1>. QED
  BY <1>1, <1>2, <1>3 DEF Next

LEMMA InitCInv == Init => CInv
<1> SUFFICES ASSUME Init PROVE CInv
  OBVIOUS
<1>1. AP!Init
  BY SameAssociation DEF Init
<1>2. phase = "init"
  BY <1>1 DEF AP!Init
<1>. QED
  BY <1>1, <1>2, AP!InitIInv, AP!InitStoppedQuiet, AssociationAssumptions
     DEF CInv, RelayInUdp, AP!BoundsAssumption, AP!WireAssumption,
         AP!NilAssumption

LEMMA NextRelayInUdp == CInv /\ [Next]_vars => RelayInUdp'
<1> SUFFICES ASSUME CInv, [Next]_vars, phase' = "relay" PROVE pc' = "udp"
  BY DEF RelayInUdp
<1>1. phase \in {"init", "relay"}
  BY AssociationSteps, AP!RelayEnteredByStart, AssociationAssumptions
     DEF AP!BoundsAssumption, AP!WireAssumption, AP!NilAssumption
<1>2. CASE AssociateStart
  BY <1>2 DEF AssociateStart
<1>3. CASE AssociateReturn
  BY <1>3 DEF AssociateReturn, avars
<1>4. CASE SessionStep
  BY <1>4 DEF SessionStep, avars, CInv, RelayInUdp
<1>5. CASE AssociationStep
  BY <1>1, <1>5 DEF AssociationStep, svars, CInv, RelayInUdp
<1>6. CASE UNCHANGED vars
  BY <1>6 DEF vars, svars, avars, CInv, RelayInUdp
<1>. QED
  BY <1>2, <1>3, <1>4, <1>5, <1>6 DEF Next

LEMMA NextCInv == CInv /\ [Next]_vars => CInv'
<1> SUFFICES ASSUME CInv, [Next]_vars PROVE CInv'
  OBVIOUS
<1>1. [AP!Next]_(AP!vars)
  BY AssociationSteps
<1>2. AP!IInv'
  BY <1>1, AP!NextIInv, AssociationAssumptions
     DEF CInv, AP!BoundsAssumption, AP!WireAssumption, AP!NilAssumption
<1>3. AP!StoppedQuiet'
  BY <1>1, AP!NextStoppedQuiet, AssociationAssumptions
     DEF CInv, AP!BoundsAssumption, AP!WireAssumption, AP!NilAssumption
<1>4. RelayInUdp'
  BY NextRelayInUdp
<1>. QED
  BY <1>2, <1>3, <1>4 DEF CInv

(***************************************************************************)
(* For every server configuration and every size of association: once      *)
(* ServeConn has returned, the UDP socket of an ASSOCIATE and every flow   *)
(* socket it dialled are closed, because ServeConn returns from an          *)
(* ASSOCIATE only after readFromSrc has, and readFromSrc's CloseAll and     *)
(* the deferred udpServer.Close leave nothing open.                        *)
(***************************************************************************)
THEOREM AssociationClosedOnReturnHolds == Spec => []AssociationClosedOnReturn
<1>1. CInv => AssociationClosedOnReturn
  BY DEF CInv, RelayInUdp, AP!StoppedQuiet, AssociationClosedOnReturn, A!Sockets, AP!Sockets
<1>. QED
  BY <1>1, InitCInv, NextCInv, PTL DEF Spec
=============================================================================
