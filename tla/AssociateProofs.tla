-------------------------- MODULE AssociateProofs --------------------------
(***************************************************************************)
(* Proofs about the UDP ASSOCIATE handler (module Associate), for every    *)
(* value of its constants.                                                 *)
(***************************************************************************)
EXTENDS Associate, FiniteSetTheorems, TLAPS

(***************************************************************************)
(* TypeOK is not inductive by itself: SendToClient reads the UdpPeer of    *)
(* its socket, so a reverse task must only exist for a dialled socket.     *)
(***************************************************************************)
ReaderHasPeer == \A s \in Sockets : rt[s] # "none" => peer[s] \in PeerRecs

TypeInv == TypeOK /\ ReaderHasPeer

LEMMA InitTypeInv == Init => TypeInv
<1> SUFFICES ASSUME Init PROVE TypeInv
  OBVIOUS
<1> USE DEF Init
<1>1. DOMAIN peers = {}
  OBVIOUS
<1>2. /\ peer \in [Sockets -> PeerRecs \cup {NoPeer}]
      /\ mem \in [Cells -> Contents \cup {NoPeer}]
      /\ freeCount \in [Buffers -> Nat]
      /\ sockOpen \in [Sockets -> BOOLEAN]
      /\ dialTo \in [Sockets -> HostPorts \cup {NoPeer}]
      /\ nextSock \in 1..MaxDials + 1
  BY BoundsAssumption
<1>3. inbox \in [Sockets -> Seq(RemoteSizes)]
  <2>1. <<>> \in Seq(RemoteSizes)
    OBVIOUS
  <2>. QED
    BY <2>1
<1>4. /\ remoteSent \in [Sockets -> 0..MaxRemote]
      /\ rlen \in [Sockets -> {0} \cup RemoteSizes]
      /\ recvd \in 0..MaxRecv
  BY BoundsAssumption
<1>5. /\ rt \in [Sockets -> {"none", "reading", "got", "done"}]
      /\ held \in [Sockets -> Buffers \cup {NoBuf}]
  OBVIOUS
<1>6. ReaderHasPeer
  BY DEF ReaderHasPeer
<1>. QED
  BY <1>1, <1>2, <1>3, <1>4, <1>5, <1>6, Zenon DEF TypeInv, TypeOK

LEMMA StartTypeInv == TypeInv /\ Start => TypeInv'
<1> SUFFICES ASSUME TypeInv, Start PROVE TypeInv'
  OBVIOUS
<1>1. /\ phase' \in {"init", "relay", "closed"}
      /\ ctrlOpen' \in BOOLEAN /\ udpOpen' \in BOOLEAN
      /\ drain' \in {"idle", "running", "done"}
  BY DEF Start, TypeInv, TypeOK
<1>2. UNCHANGED <<peers, peer, mem, freeCount, sockOpen, dialTo, nextSock,
                  inbox, remoteSent, rt, rlen, held, recvd>>
  BY DEF Start
<1>. QED
  BY <1>1, <1>2 DEF TypeInv, TypeOK, ReaderHasPeer

LEMMA RecvMalformedTypeInv ==
    ASSUME NEW w \in Wire, TypeInv, RecvMalformed(w)
    PROVE  TypeInv'
<1>1. sockOpen' \in [Sockets -> BOOLEAN]
  BY DEF RecvMalformed, CloseAll, TypeInv, TypeOK
<1>2. recvd' \in 0..MaxRecv
  BY BoundsAssumption DEF RecvMalformed, TypeInv, TypeOK
<1>3. /\ phase' \in {"init", "relay", "closed"}
      /\ ctrlOpen' \in BOOLEAN /\ udpOpen' \in BOOLEAN
  BY DEF RecvMalformed
<1>4. UNCHANGED <<drain, peers, peer, mem, freeCount, dialTo, nextSock,
                  inbox, remoteSent, rt, rlen, held>>
  BY DEF RecvMalformed
<1>. QED
  BY <1>1, <1>2, <1>3, <1>4 DEF TypeInv, TypeOK, ReaderHasPeer

(***************************************************************************)
(* handleDatagram changes the flow table, the UdpPeers, the buffer         *)
(* contents, the outbound sockets and the reverse tasks: FlowTyped is the  *)
(* part of TypeInv about them.                                             *)
(***************************************************************************)
FlowTyped ==
    /\ DOMAIN peers \subseteq Clients \X HostPorts
    /\ \A k \in DOMAIN peers : peers[k] \in Sockets
    /\ peer \in [Sockets -> PeerRecs \cup {NoPeer}]
    /\ mem \in [Cells -> Contents \cup {NoPeer}]
    /\ sockOpen \in [Sockets -> BOOLEAN]
    /\ dialTo \in [Sockets -> HostPorts \cup {NoPeer}]
    /\ nextSock \in 1..MaxDials + 1
    /\ rt \in [Sockets -> {"none", "reading", "got", "done"}]
    /\ ReaderHasPeer

LEMMA TypeInvFlowTyped == TypeInv => FlowTyped
BY DEF TypeInv, TypeOK, FlowTyped

\* A datagram that parses has a known address type, and its key and
\* content are among those the model enumerates.
LEMMA ParsedDatagram ==
    ASSUME NEW w \in Wire, ~ParseError(w)
    PROVE  /\ FlowKey(w) \in Clients \X HostPorts
           /\ Content(w) \in Contents
           /\ FlowKey(w)[2] \in HostPorts
           /\ w.src \in Clients
           /\ w.atyp \in {IPv4, IPv6, FQDN}
<1>1. w.src \in Clients
  BY WireAssumption
<1>2. Address(w.atyp, Content(w)) \in HostPorts
  BY DEF HostPorts
<1>3. Content(w) \in Contents
  BY DEF Contents
<1>4. w.atyp \in {IPv4, IPv6, FQDN}
  BY DEF ParseError
<1>. QED
  BY <1>1, <1>2, <1>3, <1>4 DEF FlowKey

LEMMA ExistingFlowTyped ==
    ASSUME FlowTyped, NEW w \in Wire, NEW b \in Buffers, NEW writeOk \in BOOLEAN,
           ~ParseError(w), ExistingFlow(w, b, writeOk)
    PROVE  FlowTyped'
<1>1. mem' \in [Cells -> Contents \cup {NoPeer}]
  BY ParsedDatagram DEF ExistingFlow, FlowTyped, Cells
<1>2. CASE writeOk
  BY <1>1, <1>2 DEF ExistingFlow, FlowTyped, ReaderHasPeer
<1>3. CASE ~writeOk
  <2>1. /\ sockOpen' = OnWriteFail(sockOpen, peers[FlowKey(w)])
        /\ peers' = DelPeer(peers, FlowKey(w))
    BY <1>3 DEF ExistingFlow
  <2>2. sockOpen' \in [Sockets -> BOOLEAN]
    BY <2>1 DEF OnWriteFail, FlowTyped
  <2>3. /\ DOMAIN peers' \subseteq Clients \X HostPorts
        /\ \A k \in DOMAIN peers' : peers'[k] \in Sockets
    BY <2>1 DEF DelPeer, FlowTyped
  <2>. QED
    BY <1>1, <2>2, <2>3 DEF ExistingFlow, FlowTyped, ReaderHasPeer
<1>. QED
  BY <1>2, <1>3

LEMMA DialFailsTyped ==
    ASSUME FlowTyped, NEW w \in Wire, NEW b \in Buffers,
           ~ParseError(w), DialFails(w, b)
    PROVE  FlowTyped'
<1>1. mem' \in [Cells -> Contents \cup {NoPeer}]
  BY ParsedDatagram DEF DialFails, FlowTyped, Cells
<1>. QED
  BY <1>1 DEF DialFails, FlowTyped, ReaderHasPeer

LEMMA NewFlowTyped ==
    ASSUME FlowTyped, NEW w \in Wire, NEW b \in Buffers, NEW writeOk \in BOOLEAN,
           ~ParseError(w), NewFlow(w, b, writeOk)
    PROVE  FlowTyped'
<1> DEFINE s == nextSock
           cell == PeerDstCell(s, b)
           open == [sockOpen EXCEPT ![s] = TRUE]
           k == FlowKey(w)
<1>0. /\ k \in Clients \X HostPorts /\ k[2] \in HostPorts
      /\ Content(w) \in Contents
      /\ w.src \in Clients /\ w.atyp \in {IPv4, IPv6, FQDN}
  BY ParsedDatagram
<1>1. s \in Sockets /\ cell \in Cells /\ b \in Cells
  <2>1. nextSock \in 1..MaxDials
    BY DEF NewFlow, FlowTyped
  <2>. QED
    BY <2>1 DEF Sockets, PeerDstCell, Cells
<1>2. /\ nextSock' \in 1..MaxDials + 1
      /\ dialTo' \in [Sockets -> HostPorts \cup {NoPeer}]
      /\ rt' \in [Sockets -> {"none", "reading", "got", "done"}]
  <2>1. nextSock' \in 1..MaxDials + 1
    BY BoundsAssumption DEF NewFlow, FlowTyped
  <2>2. dialTo' \in [Sockets -> HostPorts \cup {NoPeer}]
    BY <1>0, <1>1 DEF NewFlow, FlowTyped
  <2>3. rt' \in [Sockets -> {"none", "reading", "got", "done"}]
    BY <1>1 DEF NewFlow, FlowTyped
  <2>. QED
    BY <2>1, <2>2, <2>3
<1>3. mem' \in [Cells -> Contents \cup {NoPeer}]
  BY <1>0, <1>1 DEF NewFlow, FlowTyped
<1>4. /\ [from |-> w.src, atyp |-> w.atyp, cell |-> cell] \in PeerRecs
      /\ peer' \in [Sockets -> PeerRecs \cup {NoPeer}]
  BY <1>0, <1>1 DEF NewFlow, FlowTyped, PeerRecs
<1>5. ReaderHasPeer'
  BY <1>1, <1>4 DEF NewFlow, FlowTyped, ReaderHasPeer
<1>6. open \in [Sockets -> BOOLEAN]
  BY <1>1 DEF FlowTyped
<1>7. /\ sockOpen' \in [Sockets -> BOOLEAN]
      /\ DOMAIN peers' \subseteq Clients \X HostPorts
      /\ \A x \in DOMAIN peers' : peers'[x] \in Sockets
  <2>1. CASE writeOk
    <3>1. sockOpen' = open /\ peers' = SetPeer(peers, k, s)
      BY <2>1 DEF NewFlow
    <3>2. DOMAIN peers' = DOMAIN peers \cup {k}
      BY <3>1 DEF SetPeer
    <3>3. \A x \in DOMAIN peers' : peers'[x] \in Sockets
      BY <1>1, <3>1, <3>2 DEF SetPeer, FlowTyped
    <3>. QED
      BY <1>0, <1>6, <3>1, <3>2, <3>3 DEF FlowTyped
  <2>2. CASE ~writeOk
    BY <1>0, <1>1, <1>6, <2>2 DEF NewFlow, FlowTyped, SetPeer,
       DelPeer, OnWriteFail
  <2>. QED
    BY <2>1, <2>2
<1>. QED
  BY <1>2, <1>3, <1>4, <1>5, <1>7 DEF FlowTyped

LEMMA RecvDatagramTypeInv ==
    ASSUME NEW w \in Wire, TypeInv, RecvDatagram(w)
    PROVE  TypeInv'
<1>1. PICK b \in Buffers, writeOk \in BOOLEAN :
        /\ freeCount[b] > 0
        /\ freeCount' = Free(Alloc(freeCount, b), b)
        /\ \/ ExistingFlow(w, b, writeOk)
           \/ DialFails(w, b)
           \/ NewFlow(w, b, writeOk)
  BY DEF RecvDatagram
<1>2. ~ParseError(w)
  BY DEF RecvDatagram
<1>3. FlowTyped'
  BY <1>1, <1>2, TypeInvFlowTyped, ExistingFlowTyped, DialFailsTyped, NewFlowTyped
<1>4. freeCount' \in [Buffers -> Nat]
  BY <1>1 DEF Free, Alloc, TypeInv, TypeOK
<1>5. recvd' \in 0..MaxRecv
  BY BoundsAssumption DEF RecvDatagram, TypeInv, TypeOK
<1>6. UNCHANGED <<phase, ctrlOpen, drain, udpOpen, inbox, remoteSent, rlen, held>>
  BY DEF RecvDatagram
<1>. QED
  BY <1>3, <1>4, <1>5, <1>6 DEF TypeInv, TypeOK, FlowTyped

LEMMA DrainReturnTypeInv == TypeInv /\ DrainReturn => TypeInv'
BY DEF DrainReturn, TypeInv, TypeOK, ReaderHasPeer

LEMMA DstReadTypeInv ==
    ASSUME NEW s \in Sockets, TypeInv, DstRead(s)
    PROVE  TypeInv'
<1>1. CASE /\ sockOpen[s] /\ inbox[s] # <<>>
           /\ rt' = [rt EXCEPT ![s] = "got"]
           /\ rlen' = [rlen EXCEPT ![s] = Head(inbox[s])]
           /\ inbox' = [inbox EXCEPT ![s] = Tail(@)]
           /\ UNCHANGED <<freeCount, held>>
  <2>1. Head(inbox[s]) \in RemoteSizes /\ Tail(inbox[s]) \in Seq(RemoteSizes)
    BY <1>1 DEF TypeInv, TypeOK
  <2>2. /\ rt' \in [Sockets -> {"none", "reading", "got", "done"}]
        /\ rlen' \in [Sockets -> {0} \cup RemoteSizes]
        /\ inbox' \in [Sockets -> Seq(RemoteSizes)]
    BY <1>1, <2>1 DEF TypeInv, TypeOK
  <2>3. ReaderHasPeer'
    BY <1>1 DEF DstRead, TypeInv, ReaderHasPeer
  <2>. QED
    BY <1>1, <2>2, <2>3 DEF DstRead, TypeInv, TypeOK
<1>2. CASE /\ ~sockOpen[s]
           /\ rt' = [rt EXCEPT ![s] = "done"]
           /\ freeCount' = IF held[s] = NoBuf THEN freeCount
                            ELSE Free(freeCount, held[s])
           /\ held' = [held EXCEPT ![s] = NoBuf]
           /\ UNCHANGED <<rlen, inbox>>
  <2>1. freeCount' \in [Buffers -> Nat]
    BY <1>2 DEF Free, TypeInv, TypeOK
  <2>2. /\ rt' \in [Sockets -> {"none", "reading", "got", "done"}]
        /\ held' \in [Sockets -> Buffers \cup {NoBuf}]
    BY <1>2 DEF TypeInv, TypeOK
  <2>3. ReaderHasPeer'
    BY <1>2 DEF DstRead, TypeInv, ReaderHasPeer
  <2>. QED
    BY <1>2, <2>1, <2>2, <2>3 DEF DstRead, TypeInv, TypeOK
<1>. QED
  BY <1>1, <1>2 DEF DstRead

LEMMA SendToClientTypeInv ==
    ASSUME NEW s \in Sockets, TypeInv, SendToClient(s)
    PROVE  TypeInv'
<1>1. peer[s] \in PeerRecs
  BY DEF SendToClient, TypeInv, ReaderHasPeer
<1>2. mem[peer[s].cell] \in Contents \cup {NoPeer}
  BY <1>1 DEF PeerRecs, TypeInv, TypeOK
<1>3. PICK b \in Buffers :
        /\ freeCount[b] > 0
        /\ mem' = [mem EXCEPT ![b] = mem[peer[s].cell]]
        /\ freeCount' = Free(Alloc(freeCount, b), b)
        /\ \/ /\ rt' = [rt EXCEPT ![s] = "reading"]
              /\ held' = [held EXCEPT ![s] = ClearDatagram(b)]
           \/ /\ rt' = [rt EXCEPT ![s] = "done"]
              /\ held' = [held EXCEPT ![s] = NoBuf]
  BY DEF SendToClient
<1>7. /\ rt' \in [Sockets -> {"none", "reading", "got", "done"}]
      /\ held' \in [Sockets -> Buffers \cup {NoBuf}]
  BY <1>3 DEF ClearDatagram, TypeInv, TypeOK
<1>4. /\ mem' \in [Cells -> Contents \cup {NoPeer}]
      /\ freeCount' \in [Buffers -> Nat]
  BY <1>2, <1>3 DEF Free, Alloc, Cells, TypeInv, TypeOK
<1>5. rlen' \in [Sockets -> {0} \cup RemoteSizes]
  BY DEF SendToClient, TypeInv, TypeOK
<1>6. ReaderHasPeer'
  <2>1. peer' = peer
    BY DEF SendToClient
  <2>. QED
    BY <1>1, <1>3, <2>1 DEF TypeInv, TypeOK, ReaderHasPeer
<1>. QED
  BY <1>4, <1>5, <1>6, <1>7 DEF SendToClient, TypeInv, TypeOK

LEMMA ClientCloseTypeInv == TypeInv /\ ClientClose => TypeInv'
BY DEF ClientClose, TypeInv, TypeOK, ReaderHasPeer

LEMMA RemoteReplyTypeInv ==
    ASSUME NEW s \in Sockets, NEW n \in RemoteSizes, TypeInv, RemoteReply(s, n)
    PROVE  TypeInv'
<1>1. /\ inbox' \in [Sockets -> Seq(RemoteSizes)]
      /\ remoteSent' \in [Sockets -> 0..MaxRemote]
  BY BoundsAssumption DEF RemoteReply, TypeInv, TypeOK
<1>. QED
  BY <1>1 DEF RemoteReply, TypeInv, TypeOK, ReaderHasPeer

LEMMA NextTypeInv == TypeInv /\ [Next]_vars => TypeInv'
<1> SUFFICES ASSUME TypeInv, [Next]_vars PROVE TypeInv'
  OBVIOUS
<1>1. CASE Start
  BY <1>1, StartTypeInv
<1>2. CASE \E w \in Wire : RecvMalformed(w) \/ RecvDatagram(w)
  BY <1>2, RecvMalformedTypeInv, RecvDatagramTypeInv
<1>3. CASE DrainReturn
  BY <1>3, DrainReturnTypeInv
<1>4. CASE \E s \in Sockets : DstRead(s) \/ SendToClient(s)
  BY <1>4, DstReadTypeInv, SendToClientTypeInv
<1>5. CASE ClientClose
  BY <1>5, ClientCloseTypeInv
<1>6. CASE \E s \in Sockets, n \in RemoteSizes : RemoteReply(s, n)
  BY <1>6, RemoteReplyTypeInv
<1>7. CASE UNCHANGED vars
  BY <1>7 DEF vars, TypeInv, TypeOK, ReaderHasPeer
<1>. QED
  BY <1>1, <1>2, <1>3, <1>4, <1>5, <1>6, <1>7 DEF Next

(***************************************************************************)
(* Type correctness of the UDP ASSOCIATE handler: in every reachable state *)
(* the flow table maps keys of parsed datagrams to dialled sockets, every  *)
(* buffer and UdpPeer cell holds a parsed DST.ADDR/DST.PORT, and every     *)
(* readFromDst task that was spawned has the UdpPeer it reads from.        *)
(***************************************************************************)
THEOREM TypeCorrect == Spec => []TypeOK
<1>1. Init => TypeInv
  BY InitTypeInv
<1>2. TypeInv /\ [Next]_vars => TypeInv'
  BY NextTypeInv
<1>3. TypeInv => TypeOK
  BY DEF TypeInv
<1>. QED
  BY <1>1, <1>2, <1>3, PTL DEF Spec

(***************************************************************************)
(* The flow table and the sockets.  FlowInv strengthens FlowDstIntact: a   *)
(* flow's UdpPeer keeps DST.ADDR/DST.PORT in its own cell (the socket's),  *)
(* which no buffer write touches, and every flow's socket was dialled      *)
(* before nextSock, so a new dial never overwrites a live UdpPeer.         *)
(***************************************************************************)
FlowInv ==
    \A k \in DOMAIN peers :
        /\ peers[k] < nextSock
        /\ peer[peers[k]] \in PeerRecs
        /\ peer[peers[k]].cell = peers[k]
        /\ peer[peers[k]].from = k[1]
        /\ mem[peers[k]] \in Contents
        /\ Address(peer[peers[k]].atyp, mem[peers[k]]) = k[2]

IInv == TypeInv /\ FlowInv /\ NoOrphanSocket

\* A write to a buffer leaves the cells of the UdpPeers alone.
LEMMA BufferWriteKeepsSockets ==
    ASSUME NEW m, NEW b \in Buffers, NEW x, NEW c \in Sockets, c \in DOMAIN m
    PROVE  [m EXCEPT ![b] = x][c] = m[c]
BY BoundsAssumption

LEMMA InitIInv == Init => IInv
<1> SUFFICES ASSUME Init PROVE IInv
  OBVIOUS
<1>1. TypeInv
  BY InitTypeInv
<1>2. DOMAIN peers = {}
  BY DEF Init
<1>3. FlowInv
  BY <1>2 DEF FlowInv
<1>4. NoOrphanSocket
  BY DEF Init, NoOrphanSocket
<1>. QED
  BY <1>1, <1>3, <1>4 DEF IInv

\* Steps that change neither the table, the UdpPeers, the sockets nor
\* nextSock, and write buffers only.
LEMMA FrameFlowOK ==
    ASSUME TypeInv, FlowInv, NoOrphanSocket,
           UNCHANGED <<peers, peer, sockOpen, nextSock>>,
           \A c \in Sockets : mem'[c] = mem[c]
    PROVE  FlowInv' /\ NoOrphanSocket'
<1>1. \A k \in DOMAIN peers : peers[k] \in Sockets
  BY DEF TypeInv, TypeOK
<1>. QED
  BY <1>1 DEF FlowInv, NoOrphanSocket, Range

LEMMA RecvMalformedFlowOK ==
    ASSUME NEW w \in Wire, TypeInv, FlowInv, NoOrphanSocket, RecvMalformed(w)
    PROVE  FlowInv' /\ NoOrphanSocket'
<1>1. FlowInv'
  BY DEF RecvMalformed, FlowInv
<1>2. \A s \in Sockets : ~sockOpen'[s]
  BY DEF RecvMalformed, CloseAll, NoOrphanSocket
<1>. QED
  BY <1>1, <1>2 DEF NoOrphanSocket

LEMMA ExistingFlowFlowOK ==
    ASSUME TypeInv, FlowInv, NoOrphanSocket,
           NEW w \in Wire, NEW b \in Buffers, NEW writeOk \in BOOLEAN,
           ExistingFlow(w, b, writeOk)
    PROVE  FlowInv' /\ NoOrphanSocket'
<1> DEFINE k0 == FlowKey(w)
<1>1. \A c \in Sockets : mem'[c] = mem[c]
  BY BufferWriteKeepsSockets DEF ExistingFlow, TypeInv, TypeOK, Cells
<1>2. UNCHANGED <<peer, nextSock>>
  BY DEF ExistingFlow
<1>3. CASE writeOk
  BY <1>1, <1>2, <1>3, FrameFlowOK DEF ExistingFlow
<1>4. CASE ~writeOk
  <2>1. /\ k0 \in DOMAIN peers
        /\ sockOpen' = [sockOpen EXCEPT ![peers[k0]] = FALSE]
        /\ DOMAIN peers' = DOMAIN peers \ {k0}
        /\ \A x \in DOMAIN peers' : peers'[x] = peers[x]
    BY <1>4 DEF ExistingFlow, OnWriteFail, DelPeer
  <2>2. \A k \in DOMAIN peers : peers[k] \in Sockets
    BY DEF TypeInv, TypeOK
  <2>3. FlowInv'
    BY <1>1, <1>2, <2>1, <2>2 DEF FlowInv
  <2>4. NoOrphanSocket'
    <3> SUFFICES ASSUME NEW s \in Sockets, sockOpen'[s]
                 PROVE  \E x \in DOMAIN peers' : peers'[x] = s
      BY DEF NoOrphanSocket, Range
    <3>1. sockOpen[s] /\ s # peers[k0]
      BY <2>1, <2>2 DEF TypeInv, TypeOK
    <3>2. PICK x \in DOMAIN peers : peers[x] = s
      BY <3>1 DEF NoOrphanSocket, Range
    <3>. QED
      BY <2>1, <3>1, <3>2
  <2>. QED
    BY <2>3, <2>4
<1>. QED
  BY <1>3, <1>4

LEMMA DialFailsFlowOK ==
    ASSUME TypeInv, FlowInv, NoOrphanSocket,
           NEW w \in Wire, NEW b \in Buffers, DialFails(w, b)
    PROVE  FlowInv' /\ NoOrphanSocket'
<1>1. \A c \in Sockets : mem'[c] = mem[c]
  BY BufferWriteKeepsSockets DEF DialFails, TypeInv, TypeOK, Cells
<1>. QED
  BY <1>1, FrameFlowOK DEF DialFails

LEMMA NewFlowFlowOK ==
    ASSUME TypeInv, FlowInv, NoOrphanSocket,
           NEW w \in Wire, NEW b \in Buffers, NEW writeOk \in BOOLEAN,
           ~ParseError(w), NewFlow(w, b, writeOk)
    PROVE  FlowInv' /\ NoOrphanSocket'
<1> DEFINE s0 == nextSock
           k0 == FlowKey(w)
           rec == [from |-> w.src, atyp |-> w.atyp, cell |-> s0]
<1>1. /\ k0 \notin DOMAIN peers
      /\ s0 \in Sockets
      /\ nextSock' = s0 + 1
      /\ peer' = [peer EXCEPT ![s0] = rec]
      /\ mem' = [mem EXCEPT ![b] = Content(w), ![s0] = Content(w)]
  <2>1. nextSock \in 1..MaxDials
    BY DEF NewFlow, TypeInv, TypeOK
  <2>. QED
    BY <2>1 DEF NewFlow, PeerDstCell, Sockets
<1>2. /\ \A k \in DOMAIN peers : peers[k] \in Sockets /\ peers[k] < s0
      /\ s0 \in Int
  BY DEF FlowInv, TypeInv, TypeOK
<1>3. /\ peer \in [Sockets -> PeerRecs \cup {NoPeer}]
      /\ mem \in [Cells -> Contents \cup {NoPeer}]
      /\ Sockets \subseteq Cells
      /\ b \notin Sockets
  BY BoundsAssumption DEF TypeInv, TypeOK, Cells
<1>4. /\ rec \in PeerRecs
      /\ Content(w) \in Contents
      /\ Address(rec.atyp, Content(w)) = k0[2]
      /\ rec.from = k0[1]
  <2>1. Content(w) \in Contents /\ w.src \in Clients /\ w.atyp \in {IPv4, IPv6, FQDN}
    BY ParsedDatagram
  <2>2. s0 \in Cells
    BY <1>1, <1>3
  <2>. QED
    BY <2>1, <2>2 DEF PeerRecs, FlowKey
\* The entries of the table before the step are untouched by it.
<1>5. ASSUME NEW k \in DOMAIN peers
      PROVE  /\ peer'[peers[k]] = peer[peers[k]]
             /\ mem'[peers[k]] = mem[peers[k]]
             /\ peers[k] < nextSock'
  <2>1. peers[k] \in Sockets /\ peers[k] # s0 /\ peers[k] # b
    BY <1>2, <1>3
  <2>2. peer'[peers[k]] = peer[peers[k]]
    BY <1>1, <1>3, <2>1
  <2>3. mem'[peers[k]] = mem[peers[k]]
    <3>1. DOMAIN mem = Cells /\ peers[k] \in DOMAIN mem
      BY <1>3, <2>1
    <3>2. [mem EXCEPT ![b] = Content(w)][peers[k]] = mem[peers[k]]
      BY <2>1, <3>1, BufferWriteKeepsSockets
    <3>. QED
      BY <1>1, <2>1, <3>1, <3>2
  <2>4. peers[k] < nextSock'
    BY <1>1, <1>2, <2>1 DEF Sockets
  <2>. QED
    BY <2>2, <2>3, <2>4
<1>6. CASE writeOk
  <2>1. /\ sockOpen' = [sockOpen EXCEPT ![s0] = TRUE]
        /\ DOMAIN peers' = DOMAIN peers \cup {k0}
        /\ peers'[k0] = s0
        /\ \A x \in DOMAIN peers : peers'[x] = peers[x]
    BY <1>1, <1>6 DEF NewFlow, SetPeer
  <2>2. FlowInv'
    <3> SUFFICES ASSUME NEW k \in DOMAIN peers'
                 PROVE  /\ peers'[k] < nextSock'
                        /\ peer'[peers'[k]] \in PeerRecs
                        /\ peer'[peers'[k]].cell = peers'[k]
                        /\ peer'[peers'[k]].from = k[1]
                        /\ mem'[peers'[k]] \in Contents
                        /\ Address(peer'[peers'[k]].atyp, mem'[peers'[k]]) = k[2]
      BY DEF FlowInv
    <3>1. CASE k = k0
      BY <1>1, <1>2, <1>3, <1>4, <2>1, <3>1
    <3>2. CASE k # k0
      BY <1>5, <2>1, <3>2 DEF FlowInv
    <3>. QED
      BY <3>1, <3>2
  <2>3. NoOrphanSocket'
    <3> SUFFICES ASSUME NEW s \in Sockets, sockOpen'[s]
                 PROVE  \E x \in DOMAIN peers' : peers'[x] = s
      BY DEF NoOrphanSocket, Range
    <3>1. CASE s = s0
      BY <2>1, <3>1
    <3>2. CASE s # s0
      <4>1. PICK x \in DOMAIN peers : peers[x] = s
        BY <2>1, <3>2 DEF NoOrphanSocket, Range, TypeInv, TypeOK
      <4>. QED
        BY <2>1, <4>1
    <3>. QED
      BY <3>1, <3>2
  <2>. QED
    BY <2>2, <2>3
<1>7. CASE ~writeOk
  <2>1. /\ sockOpen' = [[sockOpen EXCEPT ![s0] = TRUE] EXCEPT ![s0] = FALSE]
        /\ DOMAIN peers' = DOMAIN peers
        /\ \A x \in DOMAIN peers : peers'[x] = peers[x]
    BY <1>1, <1>7 DEF NewFlow, SetPeer, DelPeer, OnWriteFail
  <2>2. FlowInv'
    BY <1>5, <2>1 DEF FlowInv
  <2>3. NoOrphanSocket'
    <3> SUFFICES ASSUME NEW s \in Sockets, sockOpen'[s]
                 PROVE  \E x \in DOMAIN peers' : peers'[x] = s
      BY DEF NoOrphanSocket, Range
    <3>1. sockOpen[s]
      BY <2>1 DEF TypeInv, TypeOK
    <3>2. PICK x \in DOMAIN peers : peers[x] = s
      BY <3>1 DEF NoOrphanSocket, Range
    <3>. QED
      BY <2>1, <3>2
  <2>. QED
    BY <2>2, <2>3
<1>. QED
  BY <1>6, <1>7

LEMMA RecvDatagramFlowOK ==
    ASSUME NEW w \in Wire, TypeInv, FlowInv, NoOrphanSocket, RecvDatagram(w)
    PROVE  FlowInv' /\ NoOrphanSocket'
<1>1. PICK b \in Buffers, writeOk \in BOOLEAN :
        \/ ExistingFlow(w, b, writeOk)
        \/ DialFails(w, b)
        \/ NewFlow(w, b, writeOk)
  BY DEF RecvDatagram
<1>2. ~ParseError(w)
  BY DEF RecvDatagram
<1>. QED
  BY <1>1, <1>2, ExistingFlowFlowOK, DialFailsFlowOK, NewFlowFlowOK

LEMMA SendToClientFlowOK ==
    ASSUME NEW s \in Sockets, TypeInv, FlowInv, NoOrphanSocket, SendToClient(s)
    PROVE  FlowInv' /\ NoOrphanSocket'
<1>1. PICK b \in Buffers : mem' = [mem EXCEPT ![b] = mem[peer[s].cell]]
  BY DEF SendToClient
<1>2. \A c \in Sockets : mem'[c] = mem[c]
  BY <1>1, BufferWriteKeepsSockets DEF TypeInv, TypeOK, Cells
<1>. QED
  BY <1>2, FrameFlowOK DEF SendToClient

LEMMA NextIInv == IInv /\ [Next]_vars => IInv'
<1> SUFFICES ASSUME IInv, [Next]_vars PROVE IInv'
  OBVIOUS
<1> USE DEF IInv
<1>1. TypeInv'
  BY NextTypeInv
<1>2. FlowInv' /\ NoOrphanSocket'
  <2>1. CASE \E w \in Wire : RecvMalformed(w)
    BY <2>1, RecvMalformedFlowOK
  <2>2. CASE \E w \in Wire : RecvDatagram(w)
    BY <2>2, RecvDatagramFlowOK
  <2>3. CASE \E s \in Sockets : SendToClient(s)
    BY <2>3, SendToClientFlowOK
  <2>4. CASE \/ Start \/ DrainReturn \/ ClientClose \/ UNCHANGED vars
             \/ \E s \in Sockets : DstRead(s)
             \/ \E s \in Sockets, n \in RemoteSizes : RemoteReply(s, n)
    <3>1. /\ UNCHANGED <<peers, peer, sockOpen, nextSock>>
          /\ \A c \in Sockets : mem'[c] = mem[c]
      BY <2>4 DEF Start, DrainReturn, ClientClose, DstRead, RemoteReply, vars
    <3>. QED
      BY <3>1, FrameFlowOK
  <2>. QED
    BY <2>1, <2>2, <2>3, <2>4 DEF Next
<1>. QED
  BY <1>1, <1>2

(***************************************************************************)
(* Every open outbound socket stays reachable from the flow table, whatever *)
(* the order of datagrams, write failures and reverse-path steps: the      *)
(* CloseAll at the end of readFromSrc closes every socket handleDatagram   *)
(* opened.                                                                 *)
(***************************************************************************)
THEOREM NoOrphanSocketHolds == Spec => []NoOrphanSocket
<1>1. Init => IInv
  BY InitIInv
<1>2. IInv /\ [Next]_vars => IInv'
  BY NextIInv
<1>3. IInv => NoOrphanSocket
  BY DEF IInv
<1>. QED
  BY <1>1, <1>2, <1>3, PTL DEF Spec

(***************************************************************************)
(* The copy rule of handleDatagram: however readFromSrc and the readFromDst *)
(* tasks reuse the allocator's buffers, every flow in the table keeps the  *)
(* destination its key was made from and the client it belongs to.        *)
(***************************************************************************)
THEOREM FlowDstIntactHolds == Spec => []FlowDstIntact
<1>1. IInv => FlowDstIntact
  <2> SUFFICES ASSUME IInv, NEW k \in DOMAIN peers
               PROVE  LET p == peer[peers[k]] IN
                      /\ p # NoPeer
                      /\ p.from = k[1]
                      /\ mem[p.cell] # NoPeer
                      /\ Address(p.atyp, mem[p.cell]) = k[2]
    BY DEF FlowDstIntact
  <2>1. /\ peer[peers[k]] \in PeerRecs
        /\ peer[peers[k]].cell = peers[k]
        /\ peer[peers[k]].from = k[1]
        /\ mem[peers[k]] \in Contents
        /\ Address(peer[peers[k]].atyp, mem[peers[k]]) = k[2]
    BY DEF IInv, FlowInv
  <2>2. NoPeer \notin PeerRecs /\ NoPeer \notin Contents
    BY NilAssumption
  <2>. QED
    BY <2>1, <2>2
<1>. QED
  BY <1>1, InitIInv, NextIInv, PTL DEF Spec
(***************************************************************************)
(* Buffer ownership.  BuffersReturned counts owners; its strengthening     *)
(* says where they are between steps: every buffer is on the free list     *)
(* once and no readFromDst task keeps a datagram.  readFromSrc and         *)
(* readFromDst free each buffer they allocate before the step ends, and    *)
(* the in-loop free of readFromDst is followed by `datagram = nil`.        *)
(***************************************************************************)
BufInv ==
    /\ \A b \in Buffers : freeCount[b] = 1
    /\ \A s \in Sockets : held[s] = NoBuf

\* An allocation followed by a free leaves a buffer's count as it was.
LEMMA AllocFreeKeeps ==
    ASSUME NEW fc \in [Buffers -> Nat], NEW b \in Buffers, fc[b] > 0
    PROVE  Free(Alloc(fc, b), b) = fc
<1>1. Alloc(fc, b) \in [Buffers -> Int] /\ Alloc(fc, b)[b] = fc[b] - 1
  BY DEF Alloc
<1>2. \A x \in Buffers : Free(Alloc(fc, b), b)[x] = fc[x]
  BY <1>1 DEF Alloc, Free
<1>3. Free(Alloc(fc, b), b) \in [Buffers -> Int]
  BY <1>1 DEF Free
<1>. QED
  BY <1>2, <1>3

LEMMA NextBufInv == TypeInv /\ BufInv /\ [Next]_vars => BufInv'
<1> SUFFICES ASSUME TypeInv, BufInv, [Next]_vars PROVE BufInv'
  OBVIOUS
<1>1. freeCount \in [Buffers -> Nat] /\ held \in [Sockets -> Buffers \cup {NoBuf}]
  BY DEF TypeInv, TypeOK
<1>2. CASE \E w \in Wire : RecvDatagram(w)
  <2>1. freeCount' = freeCount /\ held' = held
    BY <1>1, <1>2, AllocFreeKeeps DEF RecvDatagram
  <2>. QED
    BY <2>1 DEF BufInv
<1>3. ASSUME NEW s \in Sockets, DstRead(s) PROVE BufInv'
  <2>1. held[s] = NoBuf
    BY DEF BufInv
  <2>2. CASE sockOpen[s] /\ inbox[s] # <<>>
    BY <1>3, <2>2 DEF DstRead, BufInv
  <2>3. CASE ~sockOpen[s]
    <3>1. freeCount' = freeCount /\ held' = [held EXCEPT ![s] = NoBuf]
      BY <1>3, <2>1, <2>3 DEF DstRead
    <3>. QED
      BY <1>1, <3>1 DEF BufInv
  <2>. QED
    BY <1>3, <2>2, <2>3 DEF DstRead
<1>4. ASSUME NEW s \in Sockets, SendToClient(s) PROVE BufInv'
  <2>1. freeCount' = freeCount /\ held' = [held EXCEPT ![s] = NoBuf]
    BY <1>1, <1>4, AllocFreeKeeps DEF SendToClient, ClearDatagram
  <2>. QED
    BY <1>1, <2>1 DEF BufInv
<1>5. CASE \/ Start \/ DrainReturn \/ ClientClose \/ UNCHANGED vars
           \/ \E w \in Wire : RecvMalformed(w)
           \/ \E s \in Sockets, n \in RemoteSizes : RemoteReply(s, n)
  <2>1. UNCHANGED <<freeCount, held>>
    BY <1>5 DEF Start, DrainReturn, ClientClose, RecvMalformed, RemoteReply, vars
  <2>. QED
    BY <2>1 DEF BufInv
<1>. QED
  BY <1>2, <1>3, <1>4, <1>5 DEF Next

LEMMA BufInvReturned == BufInv => BuffersReturned
<1> SUFFICES ASSUME BufInv, NEW b \in Buffers
             PROVE  freeCount[b] + Cardinality({s \in Sockets : held[s] = b}) = 1
  BY DEF BuffersReturned
<1>1. {s \in Sockets : held[s] = b} = {}
  BY BoundsAssumption DEF BufInv
<1>2. Cardinality({s \in Sockets : held[s] = b}) = 0
  BY <1>1, FS_EmptySet
<1>. QED
  BY <1>2 DEF BufInv

(***************************************************************************)
(* However readFromSrc, the readFromDst tasks and their exit paths          *)
(* interleave, every buffer of the MemAllocation has exactly one owner:     *)
(* none leaks and none is freed twice.                                      *)
(***************************************************************************)
THEOREM BuffersReturnedHolds == Spec => []BuffersReturned
<1>1. Init => TypeInv /\ BufInv
  BY InitTypeInv DEF Init, BufInv
<1>2. TypeInv /\ BufInv /\ [Next]_vars => (TypeInv /\ BufInv)'
  BY NextTypeInv, NextBufInv
<1>3. TypeInv /\ BufInv => BuffersReturned
  BY BufInvReturned
<1>. QED
  BY <1>1, <1>2, <1>3, PTL DEF Spec
(***************************************************************************)
(* Outside the relay loop nothing of the association is open: before       *)
(* doAssociate binds, no socket exists, and on every way out of it (a      *)
(* failed Listen, a failed reply, readFromSrc's return) the UDP socket is  *)
(* closed and CloseAll has closed every flow socket, NoOrphanSocket        *)
(* guaranteeing that CloseAll reaches them all.                            *)
(***************************************************************************)
StoppedQuiet ==
    phase # "relay" => ~udpOpen /\ \A s \in Sockets : ~sockOpen[s]

LEMMA InitStoppedQuiet == Init => StoppedQuiet
BY DEF Init, StoppedQuiet

LEMMA NextStoppedQuiet == IInv /\ StoppedQuiet /\ [Next]_vars => StoppedQuiet'
<1> SUFFICES ASSUME IInv, StoppedQuiet, [Next]_vars PROVE StoppedQuiet'
  OBVIOUS
<1>1. CASE Start
  BY <1>1 DEF Start, StoppedQuiet
<1>2. ASSUME NEW w \in Wire, RecvMalformed(w) PROVE StoppedQuiet'
  <2>1. \A s \in Sockets : ~sockOpen'[s]
    BY <1>2 DEF RecvMalformed, CloseAll, IInv, NoOrphanSocket
  <2>. QED
    BY <1>2, <2>1 DEF RecvMalformed, StoppedQuiet
<1>3. CASE \E w \in Wire : RecvDatagram(w)
  BY <1>3 DEF RecvDatagram, StoppedQuiet
<1>4. CASE \/ DrainReturn \/ ClientClose \/ UNCHANGED vars
           \/ \E s \in Sockets : DstRead(s) \/ SendToClient(s)
           \/ \E s \in Sockets, n \in RemoteSizes : RemoteReply(s, n)
  <2>1. UNCHANGED <<phase, udpOpen, sockOpen>>
    BY <1>4 DEF DrainReturn, ClientClose, DstRead, SendToClient, RemoteReply, vars
  <2>. QED
    BY <2>1 DEF StoppedQuiet
<1>. QED
  BY <1>1, <1>2, <1>3, <1>4 DEF Next

\* Only Start enters the relay loop; once left, it is never re-entered.
LEMMA RelayEnteredByStart ==
    [Next]_vars /\ phase' = "relay" => phase \in {"init", "relay"}
BY DEF Next, vars, Start, RecvMalformed, RecvDatagram, DrainReturn, DstRead,
       SendToClient, ClientClose, RemoteReply
=============================================================================
