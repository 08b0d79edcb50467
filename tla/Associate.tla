----------------------------- MODULE Associate -----------------------------
(***************************************************************************)
(* The UDP ASSOCIATE handler of the SOCKS5 server (src/associate.go,       *)
(* src/datagram.go, src/udpserver.go): one association, from doAssociate   *)
(* binding its UDP socket to the end of every task it spawned.            *)
(*                                                                         *)
(* Tasks (goroutines) and their actions:                                   *)
(*   handler     Start, RecvDatagram / RecvMalformed (one iteration of the *)
(*               readFromSrc loop each);                                   *)
(*   drain       DrainReturn (the io.Copy on the TCP control connection);  *)
(*   reverse(s)  DstRead(s), SendToClient(s) (the readFromDst loop of the  *)
(*               flow whose outbound socket is s).                         *)
(* Environment: ClientClose (the client closes the control connection) and *)
(* RemoteReply (a remote sends a datagram to an outbound socket).  Inbound *)
(* datagrams are drawn from the constant set Wire.                         *)
(*                                                                         *)
(* Data abstraction: a datagram is a record of its header fields and its   *)
(* length in bytes; addresses are sequences of bytes, each byte a string  *)
(* (a digit group of an IP, a character of a domain name); the payload is  *)
(* only a length.  Buffers handed out by the                               *)
(* MemAllocation are model values with a content (mem) and a free-list     *)
(* count, so that a pooled allocator that reuses them is covered.          *)
(***************************************************************************)
EXTENDS Integers, Sequences, FiniteSets, Functions

CONSTANTS
    Clients,      \* UDP source addresses datagrams can come from
    Wire,         \* inbound datagrams a client can send to the UDP port
    Buffers,      \* the buffers of the connection's MemAllocation
    MaxDials,     \* bound: outbound sockets dialled by the association
    MaxRecv,      \* bound: datagrams received by the readFromSrc loop
    MaxRemote,    \* bound: datagrams each remote sends back
    RemoteSizes,  \* payload sizes of those datagrams
    NoBuf,        \* the nil *Datagram of readFromDst
    NoPeer        \* nothing there yet: a socket id not dialled, an unset cell

\* Address types (ipv4Address, fqdnAddress, ipv6Address).
IPv4 == 1
FQDN == 3
IPv6 == 4

\* The 65536-byte buffers of readFromSrc (line 105) and readFromDst (193).
BufSize == 65536

\* Ranges of a byte and of a two-byte port on the wire.
Byte == 0..255
Port == 0..65535

Sockets == 1..MaxDials

ASSUME BoundsAssumption ==
    /\ MaxDials \in Nat \ {0}
    /\ MaxRecv \in Nat
    /\ MaxRemote \in Nat
    /\ RemoteSizes \subseteq 1..BufSize
    /\ Buffers # {}
    /\ Buffers \cap Sockets = {}
    /\ NoBuf \notin Buffers

\* Inbound datagrams have the field ranges of the wire format.
ASSUME WireAssumption ==
    \A w \in Wire :
         /\ w.src \in Clients
         /\ w.frag \in Byte /\ w.atyp \in Byte /\ w.port \in Port
         /\ w.addr \in Seq(STRING) /\ w.len \in Nat

(***************************************************************************)
(* Datagram codec.                                                         *)
(***************************************************************************)
\* Bytes DST.ADDR takes on the wire (a domain carries its length byte).
AddrBytes(atyp, addr) == IF atyp = FQDN THEN 1 + Len(addr)
                         ELSE IF atyp = IPv4 THEN 4 ELSE 16

\* NewDatagramFromByte rejects the datagram (all of its error returns).
ParseError(w) ==
    \/ w.len <= 4
    \/ w.frag # 0
    \/ w.atyp \notin {IPv4, IPv6, FQDN}
    \/ w.atyp = FQDN /\ Len(w.addr) = 0
    \/ w.len < 4 + AddrBytes(w.atyp, w.addr) + 2
    \/ w.port = 0
    \/ w.len = 4 + AddrBytes(w.atyp, w.addr) + 2

\* What the parsed datagram's buffer holds of DST.ADDR and DST.PORT; for a
\* domain DstAddr is the name without its length byte.
Content(w) == [addr |-> w.addr, port |-> w.port]

\* Datagram.Address(): host and port.  For a domain it takes DstAddr[1:],
\* which assumes DstAddr starts with the length byte.
Address(atyp, c) == <<IF atyp = FQDN THEN Tail(c.addr) ELSE c.addr, c.port>>

\* The flow key: from.String() + "-" + datagram.Address().
FlowKey(w) == <<w.src, Address(w.atyp, Content(w))>>

\* toBytes: the length of the reply datagram NewDatagram builds for a flow
\* (it prepends the length byte to a domain name).
ReplyLen(atyp, c, n) == 2 + 1 + 1 + AddrBytes(atyp, c.addr) + 2 + n

Cells      == Buffers \cup Sockets
Contents   == {Content(w) : w \in Wire}
HostPorts  == {Address(w.atyp, Content(w)) : w \in Wire}
PeerRecs   == [from : Clients, atyp : {IPv4, IPv6, FQDN}, cell : Cells]

\* nil is no UdpPeer and no address.
ASSUME NilAssumption == NoPeer \notin PeerRecs \cup Contents

VARIABLES
    phase,      \* doAssociate: "init", "relay" (in readFromSrc), "closed"
    ctrlOpen,   \* the TCP control connection is open
    drain,      \* the io.Copy(io.Discard, conn) goroutine
    udpOpen,    \* the association's UDP socket is open
    peers,      \* UdpAssociate.m: flow key -> outbound socket
    peer,       \* the UdpPeer of each dialled socket
    mem,        \* content of each buffer and of each UdpPeer's copy
    freeCount,  \* times each buffer is on the allocator's free list
    sockOpen,   \* outbound socket is open
    dialTo,     \* the address each outbound socket was dialled to
    nextSock,   \* next outbound socket id
    inbox,      \* datagrams queued on an outbound socket
    remoteSent, \* datagrams each remote sent
    rt,         \* readFromDst goroutine of each socket
    rlen,       \* bytes it read and has not forwarded yet
    held,       \* its `datagram` variable
    recvd       \* datagrams the handler received

vars == <<phase, ctrlOpen, drain, udpOpen, peers, peer, mem, freeCount,
          sockOpen, dialTo, nextSock, inbox, remoteSent, rt, rlen, held, recvd>>

TypeOK ==
    /\ phase \in {"init", "relay", "closed"}
    /\ ctrlOpen \in BOOLEAN /\ udpOpen \in BOOLEAN
    /\ drain \in {"idle", "running", "done"}
    /\ DOMAIN peers \subseteq Clients \X HostPorts
    /\ \A k \in DOMAIN peers : peers[k] \in Sockets
    /\ peer \in [Sockets -> PeerRecs \cup {NoPeer}]
    /\ mem \in [Cells -> Contents \cup {NoPeer}]
    /\ freeCount \in [Buffers -> Nat]
    /\ sockOpen \in [Sockets -> BOOLEAN]
    /\ dialTo \in [Sockets -> HostPorts \cup {NoPeer}]
    /\ nextSock \in 1..MaxDials + 1
    /\ inbox \in [Sockets -> Seq(RemoteSizes)]
    /\ remoteSent \in [Sockets -> 0..MaxRemote]
    /\ rt \in [Sockets -> {"none", "reading", "got", "done"}]
    /\ rlen \in [Sockets -> {0} \cup RemoteSizes]
    /\ held \in [Sockets -> Buffers \cup {NoBuf}]
    /\ recvd \in 0..MaxRecv

Init ==
    /\ phase = "init"
    /\ ctrlOpen = TRUE /\ udpOpen = FALSE
    /\ drain = "idle"
    /\ peers = <<>>
    /\ peer = [s \in Sockets |-> NoPeer]
    /\ mem = [c \in Cells |-> NoPeer]
    /\ freeCount = [b \in Buffers |-> 1]
    /\ sockOpen = [s \in Sockets |-> FALSE]
    /\ dialTo = [s \in Sockets |-> NoPeer]
    /\ nextSock = 1
    /\ inbox = [s \in Sockets |-> <<>>]
    /\ remoteSent = [s \in Sockets |-> 0]
    /\ rt = [s \in Sockets |-> "none"]
    /\ rlen = [s \in Sockets |-> 0]
    /\ held = [s \in Sockets |-> NoBuf]
    /\ recvd = 0

(***************************************************************************)
(* Helpers on the flow table, the sockets and the allocator.               *)
(***************************************************************************)
\* peers.Set(key, u) and peers.Del(key).
SetPeer(tbl, k, s) == [x \in DOMAIN tbl \cup {k} |-> IF x = k THEN s ELSE tbl[x]]
\* Mutant: the entry is set to nil instead of being deleted.
DelPeerNil(tbl, k) == [x \in DOMAIN tbl |-> IF x = k THEN NoPeer ELSE tbl[x]]
DelPeer(tbl, k)    == [x \in DOMAIN tbl \ {k} |-> tbl[x]]

\* peers.CloseAll(): close the socket of every flow in the table.
\* Mutant: readFromSrc returns without CloseAll.
CloseAllSkipped(open, tbl) == open
CloseAll(open, tbl) == [s \in Sockets |-> IF s \in Range(tbl) THEN FALSE ELSE open[s]]

\* handleDatagram, write to the outbound socket failed: close it, drop it.
\* Mutant: the flow is deleted but its socket is left open.
OnWriteFailNoClose(open, s) == open
OnWriteFail(open, s) == [open EXCEPT ![s] = FALSE]

\* Where the UdpPeer keeps DST.ADDR/DST.PORT: a fresh slice of its own
\* (make + copy), never the parsed datagram's buffer b.
\* Mutant: the UdpPeer keeps slices of the datagram's buffer (no copy).
PeerDstCellAlias(s, b) == b
PeerDstCell(s, b) == s

\* Allocator: Alloc takes a buffer off the free list, Free puts it back.
Alloc(fc, b) == [fc EXCEPT ![b] = @ - 1]
Free(fc, b)  == [fc EXCEPT ![b] = @ + 1]

\* readFromDst after freeing its datagram in the loop: datagram = nil.
\* Mutant: `datagram = nil` after the in-loop free is missing.
KeepDatagram(b) == b
ClearDatagram(b) == NoBuf

(***************************************************************************)
(* doAssociate up to the call of readFromSrc: bind the UDP socket, spawn   *)
(* the drain goroutine, send the success reply.  A failed bind returns     *)
(* before anything is spawned; a failed reply returns and the deferred     *)
(* udpServer.Close and ServeConn's conn.Close run.                         *)
(***************************************************************************)
Start ==
    /\ phase = "init"
    /\ \/ /\ phase' = "closed" /\ ctrlOpen' = FALSE               \* Listen fails
          /\ UNCHANGED <<udpOpen, drain>>
       \/ /\ drain' = "running"
          /\ \/ phase' = "relay" /\ udpOpen' = TRUE /\ UNCHANGED ctrlOpen
             \/ phase' = "closed" /\ udpOpen' = FALSE /\ ctrlOpen' = FALSE
    /\ UNCHANGED <<peers, peer, mem, freeCount, sockOpen, dialTo, nextSock,
                   inbox, remoteSent, rt, rlen, held, recvd>>

(***************************************************************************)
(* One iteration of readFromSrc that ends the loop: the datagram does not  *)
(* parse.  CloseAll, return; doAssociate's deferred udpServer.Close and    *)
(* ServeConn's deferred conn.Close follow.                                 *)
(***************************************************************************)
RecvMalformed(w) ==
    /\ phase = "relay" /\ recvd < MaxRecv
    /\ ParseError(w)
    /\ recvd' = recvd + 1
    /\ sockOpen' = CloseAll(sockOpen, peers)
    /\ phase' = "closed" /\ udpOpen' = FALSE /\ ctrlOpen' = FALSE
    /\ UNCHANGED <<drain, peers, peer, mem, freeCount, dialTo, nextSock,
                   inbox, remoteSent, rt, rlen, held>>

(***************************************************************************)
(* handleDatagram, the three ways through it for a parsed datagram w in    *)
(* buffer b.  writeOk is the outcome of udpPeer.dst.Write: a failed write  *)
(* closes the socket and deletes the flow.                                 *)
(***************************************************************************)
\* The key's flow is in the table: write to its socket.
ExistingFlow(w, b, writeOk) ==
    LET k == FlowKey(w) IN
    /\ k \in DOMAIN peers
    /\ IF writeOk
         THEN UNCHANGED <<peers, sockOpen>>
         ELSE /\ sockOpen' = OnWriteFail(sockOpen, peers[k])
              /\ peers' = DelPeer(peers, k)
    /\ mem' = [mem EXCEPT ![b] = Content(w)]
    /\ UNCHANGED <<peer, dialTo, nextSock, rt>>

\* No flow, and dialling the destination fails: the datagram is dropped.
DialFails(w, b) ==
    /\ FlowKey(w) \notin DOMAIN peers
    /\ mem' = [mem EXCEPT ![b] = Content(w)]
    /\ UNCHANGED <<peers, peer, sockOpen, dialTo, nextSock, rt>>

\* No flow: dial, build the UdpPeer with its own copy of DST.ADDR/DST.PORT,
\* Set it in the table, spawn its readFromDst, then write.
NewFlow(w, b, writeOk) ==
    LET k    == FlowKey(w)
        s    == nextSock
        cell == PeerDstCell(s, b)
        open == [sockOpen EXCEPT ![s] = TRUE]
    IN /\ k \notin DOMAIN peers
       /\ nextSock <= MaxDials
       /\ nextSock' = s + 1
       /\ dialTo' = [dialTo EXCEPT ![s] = k[2]]
       /\ mem' = [mem EXCEPT ![b] = Content(w), ![cell] = Content(w)]
       /\ peer' = [peer EXCEPT ![s] = [from |-> w.src, atyp |-> w.atyp, cell |-> cell]]
       /\ rt' = [rt EXCEPT ![s] = "reading"]
       /\ IF writeOk
            THEN sockOpen' = open /\ peers' = SetPeer(peers, k, s)
            ELSE /\ sockOpen' = OnWriteFail(open, s)
                 /\ peers' = DelPeer(SetPeer(peers, k, s), k)

(***************************************************************************)
(* One iteration of readFromSrc for a datagram that parses: Alloc a buffer *)
(* and copy the datagram in, handleDatagram, free the buffer.              *)
(***************************************************************************)
RecvDatagram(w) ==
    /\ phase = "relay" /\ recvd < MaxRecv
    /\ ~ParseError(w)
    /\ recvd' = recvd + 1
    /\ \E b \in Buffers, writeOk \in BOOLEAN :
         /\ freeCount[b] > 0
         /\ freeCount' = Free(Alloc(freeCount, b), b)
         /\ \/ ExistingFlow(w, b, writeOk)
            \/ DialFails(w, b)
            \/ NewFlow(w, b, writeOk)
    /\ UNCHANGED <<phase, ctrlOpen, drain, udpOpen, inbox, remoteSent, rlen, held>>

(***************************************************************************)
(* The drain goroutine: io.Copy returns once the control connection is     *)
(* closed, and the goroutine ends.  Nothing else happens.                  *)
(***************************************************************************)
DrainReturn ==
    /\ drain = "running" /\ ~ctrlOpen
    /\ drain' = "done"
    /\ UNCHANGED <<phase, ctrlOpen, udpOpen, peers, peer, mem, freeCount,
                   sockOpen, dialTo, nextSock, inbox, remoteSent, rt, rlen,
                   held, recvd>>

(***************************************************************************)
(* readFromDst, udpPeer.dst.Read: returns a queued datagram, or an error   *)
(* once the socket is closed; on the error the loop ends and the deferred  *)
(* `if datagram != nil { free }` runs.                                     *)
(***************************************************************************)
DstRead(s) ==
    /\ rt[s] = "reading"
    /\ \/ /\ sockOpen[s] /\ inbox[s] # <<>>
          /\ rt' = [rt EXCEPT ![s] = "got"]
          /\ rlen' = [rlen EXCEPT ![s] = Head(inbox[s])]
          /\ inbox' = [inbox EXCEPT ![s] = Tail(@)]
          /\ UNCHANGED <<freeCount, held>>
       \/ /\ ~sockOpen[s]
          /\ rt' = [rt EXCEPT ![s] = "done"]
          /\ freeCount' = IF held[s] = NoBuf THEN freeCount
                          ELSE Free(freeCount, held[s])
          /\ held' = [held EXCEPT ![s] = NoBuf]
          /\ UNCHANGED <<rlen, inbox>>
    /\ UNCHANGED <<phase, ctrlOpen, drain, udpOpen, peers, peer, mem,
                   sockOpen, dialTo, nextSock, remoteSent, recvd>>

(***************************************************************************)
(* readFromDst, the rest of an iteration: NewDatagram allocates a buffer   *)
(* and copies the UdpPeer's atyp/DST.ADDR/DST.PORT into it, toBytes        *)
(* serialises it into the 65536-byte buffer (-1 if it does not fit), and   *)
(* WriteToUDP sends it to udpPeer.from.  Success frees the datagram and    *)
(* loops; failure breaks and the deferred free runs.                       *)
(***************************************************************************)
SendToClient(s) ==
    /\ rt[s] = "got"
    /\ \E b \in Buffers :
         LET p   == peer[s]
             c   == mem[p.cell]
             ok  == ReplyLen(p.atyp, c, rlen[s]) <= BufSize /\ udpOpen
         IN /\ freeCount[b] > 0
            /\ mem' = [mem EXCEPT ![b] = c]
            /\ freeCount' = Free(Alloc(freeCount, b), b)
            /\ IF ok
                 THEN /\ rt' = [rt EXCEPT ![s] = "reading"]
                      /\ held' = [held EXCEPT ![s] = ClearDatagram(b)]
                 ELSE /\ rt' = [rt EXCEPT ![s] = "done"]
                      /\ held' = [held EXCEPT ![s] = NoBuf]
    /\ rlen' = [rlen EXCEPT ![s] = 0]
    /\ UNCHANGED <<phase, ctrlOpen, drain, udpOpen, peers, peer, sockOpen,
                   dialTo, nextSock, inbox, remoteSent, recvd>>

(***************************************************************************)
(* Environment.                                                            *)
(***************************************************************************)
ClientClose ==
    /\ ctrlOpen
    /\ ctrlOpen' = FALSE
    /\ UNCHANGED <<phase, drain, udpOpen, peers, peer, mem, freeCount,
                   sockOpen, dialTo, nextSock, inbox, remoteSent, rt, rlen,
                   held, recvd>>

RemoteReply(s, n) ==
    /\ sockOpen[s] /\ remoteSent[s] < MaxRemote
    /\ inbox' = [inbox EXCEPT ![s] = Append(@, n)]
    /\ remoteSent' = [remoteSent EXCEPT ![s] = @ + 1]
    /\ UNCHANGED <<phase, ctrlOpen, drain, udpOpen, peers, peer, mem,
                   freeCount, sockOpen, dialTo, nextSock, rt, rlen, held, recvd>>

Next ==
    \/ Start
    \/ \E w \in Wire : RecvMalformed(w) \/ RecvDatagram(w)
    \/ DrainReturn
    \/ \E s \in Sockets : DstRead(s) \/ SendToClient(s)
    \/ ClientClose
    \/ \E s \in Sockets, n \in RemoteSizes : RemoteReply(s, n)

\* The server's goroutines are scheduled fairly; the clients and the
\* remotes are not obliged to send anything.
Fairness ==
    /\ WF_vars(Start)
    /\ WF_vars(DrainReturn)
    /\ \A s \in Sockets : WF_vars(DstRead(s)) /\ WF_vars(SendToClient(s))

Spec == Init /\ [][Next]_vars /\ Fairness

(***************************************************************************)
(* Properties.                                                             *)
(***************************************************************************)

\* The spec's copy rule (section 9): a UdpPeer's DST.ADDR/DST.PORT must be
\* copied out of the parsed datagram's buffer before handleDatagram's caller
\* frees it.  So, whatever the allocator later does with that buffer, every
\* flow in the table still holds the destination its key was made from and
\* belongs to the client of its key; readFromDst builds every reply from it.
FlowDstIntact ==
    \A k \in DOMAIN peers :
        LET p == peer[peers[k]] IN
        /\ p # NoPeer
        /\ p.from = k[1]
        /\ mem[p.cell] # NoPeer
        /\ Address(p.atyp, mem[p.cell]) = k[2]

\* Every outbound socket that is still open is reachable from the flow
\* table, so the CloseAll at the end of readFromSrc closes it: handleDatagram
\* never drops a flow (write failure) without closing its socket, and never
\* replaces one.
NoOrphanSocket ==
    \A s \in Sockets : sockOpen[s] => s \in Range(peers)

\* Every buffer of the MemAllocation has exactly one owner between steps:
\* the allocator's free list or one readFromDst `datagram` variable.  A
\* missed free (leak) makes it zero, a second free of the same datagram
\* (double free, which a pooling allocator turns into two owners) two.
BuffersReturned ==
    \A b \in Buffers :
        freeCount[b] + Cardinality({s \in Sockets : held[s] = b}) = 1

\* Once readFromSrc has returned, every readFromDst goroutine and the drain
\* goroutine end: CloseAll unblocks each reverse reader and the deferred
\* closes unblock the rest.
TaskDone(s) == rt[s] \in {"none", "done"}
Teardown ==
    phase = "closed" ~> (\A s \in Sockets : TaskDone(s)) /\ drain # "running"

\* Spec 4.7 step 4 and section 5: when the TCP control connection closes
\* (the drain goroutine's io.Copy returns), the UDP socket and every flow's
\* outbound socket are closed.
CtrlCloseTearsDown ==
    ~ctrlOpen ~> (~udpOpen /\ \A s \in Sockets : ~sockOpen[s])

\* handleDatagram dials the destination the client put in DST.ADDR and
\* DST.PORT: each outbound socket is connected to the host and port its
\* UdpPeer holds.
DialedNamedHost ==
    \A s \in Sockets :
        peer[s] # NoPeer =>
            dialTo[s] = <<mem[peer[s].cell].addr, mem[peer[s].cell].port>>

\* Spec 4.7 step 6d: a reverse-path task that exits on an error or a short
\* buffer releases its flow, so no later datagram of the client is sent to a
\* flow whose replies nobody forwards any more.
ReverseExitReleasesFlow ==
    \A s \in Sockets : phase = "relay" /\ rt[s] = "done" => s \notin Range(peers)
=============================================================================
