# TLA+ verification of go-socks5

This directory has TLA+ models of the SOCKS5 server in `src/`. It also has
the TLC configurations that model-check them and the TLAPS proofs of their
main invariants. Line numbers are those of the files under `src/`.
`socks5.go` holds two copies of the server file. The package compiles the
second one (lines 208-459), and that is the one modelled.

## 1. The system

| Part | Source | State it owns | Operations |
|---|---|---|---|
| Connection driver | `socks5.go` 396-459 `ServeConn` | one TCP connection, its read position | allowlist check, version byte, `authenticate`, `NewRequest`, `handleRequest` |
| Server construction | `socks5.go` 292-353 `New`, `SetIPAllowlist` | the auth-method map, the allowlist predicate | fill defaults, index authenticators by code |
| Authentication | `auth.go`, `part_002` | none (per call) | `readMethods`, method selection, NoAuth and user/password handshakes, `StaticCredentials.Valid` |
| Rules | `part_000` | none | `PermitCommand.Allow` |
| Request, CONNECT, replies, proxy | `request.go` (not in `src/`) | per request | parse, rewrite/resolve/allow, dial, reply, relay |
| BIND | `part_005` 45-123 `doBind` | a listener, the accepted connection, `errCh` (capacity 2) | listen, first reply, accept, second reply, two proxy tasks |
| UDP ASSOCIATE | `associate.go` | the UDP socket, the flow table `UdpAssociate.m`, one `UdpPeer` per flow | `doAssociate`, `readFromSrc`, `handleDatagram`, `readFromDst`, the drain goroutine |
| UDP datagram codec | `datagram.go` | a datagram in an allocator buffer | `NewDatagramFromByte`, `NewDatagram`, `toBytes`, `Address`, `free` |
| Allocator | `part_003` | buffers | `Alloc`, `Free` (no-op in `Mem`; a pool may reuse) |
| UDP socket wrapper | `udpserver.go` | the socket | `Listen`, `ReadFromUdp`, `WriteToUDP`, `Close` |
| Client datagram helper | `client_datagram.go` | none | client-side encode/decode used by tests |

**How the parts interact.** `Serve` spawns one `ServeConn` per TCP connection.
`ServeConn` runs the allowlist check, the version byte, authentication and the
request, and then dispatches the command. UDP ASSOCIATE is the only part with
real concurrency inside one connection:

- the handler goroutine runs `readFromSrc`, which reads the UDP socket;
- a drain goroutine runs `io.Copy` on the control connection;
- each flow has one `readFromDst` goroutine, which reads its outbound socket and sends replies back to the client.

These tasks share four things. The flow table is written only by the handler.
Each `UdpPeer` is written by the handler and read by its reverse task. The UDP
socket is used by all of them. The buffers of one `MemAllocation` are taken
and returned by all of them.

**The behaviours that make it hard, and the properties that make it correct.**

- *Aliasing across a free.* `handleDatagram` copies DST.ADDR and DST.PORT into
  the `UdpPeer` (lines 166-172). It must, because `readFromSrc` frees the
  datagram's buffer right after (line 124), and a pooling allocator hands that
  buffer to the next datagram or to a reverse task. Property: every flow keeps
  the destination and the client of its key (`FlowDstIntact`).
- *Partial failure of a write.* A failed write closes the socket and deletes
  the flow (lines 178-183). Property: every open outbound socket is in the
  table, so `CloseAll` reaches it (`NoOrphanSocket`).
- *Buffer ownership on every exit path.* `readFromDst` frees in the loop and
  again after it (lines 219-224). Property: each buffer has exactly one owner
  between steps (`BuffersReturned`).
- *Teardown.* After `readFromSrc` returns, every reverse task and the drain
  task must end (`Teardown`). When the control connection closes, the
  association is to be torn down (spec 4.7 step 4, `CtrlCloseTearsDown`).
- *Codec edge cases.* The domain-name length byte (`DialedNamedHost`), and a
  reply that no longer fits 65536 bytes (`ReverseExitReleasesFlow`).
- *Connection driver and BIND* (module `Session`). Replies go out in
  order, and a command is dispatched only after the allowlist, version,
  authentication and rule checks pass. A server given credentials and no
  authenticators demands them (`New`'s default). BIND sends two replies,
  and its `errCh` join lets both proxy tasks finish without blocking.

## 2. Plan

1. `Associate` (done): one UDP association, with all of its goroutines. It is
   checked by `MCAssociate`, and its invariants are proved in
   `AssociateProofs`.
2. `Session` (done): one TCP connection through `ServeConn`. It covers the
   allowlist, the version byte, `authenticate` with `readMethods`, NoAuth and
   user/password, `NewRequest` and `handleRequest` (spec-modelled, since
   `request.go` is not in `src/`), `PermitCommand.Allow`, and `doBind` with
   its two proxy tasks and `errCh`. It has an abstract spec, `SessionReplies`,
   for the order of what the server writes on the wire, and a refinement
   mapping from `Session` to it. The proofs that the reply order holds and
   that the refinement is correct go in `SessionProofs`.
3. `Connection` (done): `Session` and `Associate` composed. The ASSOCIATE
   dispatch is one step of both, and `ServeConn` returns from it only when
   `readFromSrc` has. Its invariant is proved in `ConnectionProofs` from
   `AssociateProofs`' lemmas.
4. Next: a liveness property for `Associate`'s reply, and a property that
   every dispatched request is answered.

Runs: one passing run per module, with bounds that reach every branch, and
one violation run per disagreement found. Theorems: type correctness and the
safety invariants every passing run checks, plus the
refinement of `Session`. One composed run checks what only holds across the
two modules, and its invariant is proved too. Only liveness stays with TLC.

## 3. Module `Associate`: the UDP ASSOCIATE handler

**State.**

| Variable | Code |
|---|---|
| `phase` | where `doAssociate` is: `init`, `relay` (in `readFromSrc`'s loop), `closed` |
| `ctrlOpen` | the TCP control connection |
| `drain` | the goroutine at lines 87-90 |
| `udpOpen` | the association's `UdpServer` |
| `peers` | `UdpAssociate.m`: flow key ↦ outbound socket id |
| `peer` | the `UdpPeer` of each socket id: `from`, `atyp`, and the cell holding its `dstAddr`/`dstPort` |
| `mem` | the content of each allocator buffer and of each `UdpPeer`'s own copy |
| `freeCount` | how many times each buffer is on the allocator's free list |
| `sockOpen`, `dialTo` | each outbound socket: whether it is open, and the address it was dialled to |
| `nextSock` | the next socket id to dial |
| `inbox`, `remoteSent` | datagrams a remote has sent to an outbound socket |
| `rt`, `rlen`, `held` | each `readFromDst`: its point in the loop, the bytes read, and its `datagram` variable |
| `recvd` | the datagrams `readFromSrc` has received |

**Actions** (one per operation; each models the whole handler step).

- `Start`: `doAssociate` up to `readFromSrc` (lines 60-98). Either the bind
  fails, or the drain task is spawned and then the reply either succeeds or
  fails.
- `RecvMalformed(w)`: one `readFromSrc` iteration whose datagram does not
  parse (lines 110-133). `CloseAll` runs, then the deferred closes of the UDP
  socket and of the control connection.
- `RecvDatagram(w)`: one iteration whose datagram parses. It allocates and
  copies, runs `handleDatagram`, and frees. `handleDatagram` is one of three
  disjuncts: `ExistingFlow`, `DialFails` or `NewFlow`, each with the outcome
  of the write.
- `DrainReturn`: `io.Copy` returns once the control connection is closed.
- `DstRead(s)` and `SendToClient(s)`: one `readFromDst` iteration, split at
  the blocking `Read`. `SendToClient` covers `NewDatagram`, `toBytes`,
  `WriteToUDP` and the frees on each path.
- Environment actions: `ClientClose`, and `RemoteReply(s, n)`, which queues an
  `n`-byte reply on socket `s`.

**Data abstraction.**

- A datagram is its header fields and its length.
- An address is a sequence of bytes, each a string.
- A buffer is a model value with a content. The free-list count covers both
  the no-op `Mem` and a pooling allocator.
- `ParseError` has every error return of `NewDatagramFromByte`.
- `Address` keeps the code's `DstAddr[1:]` for domain names.
- `ReplyLen` is the length `NewDatagram` and `toBytes` produce.

**Fairness.** Weak fairness is assumed only for the server's own goroutines:
`Start`, `DrainReturn`, `DstRead(s)` and `SendToClient(s)`. The Go scheduler
runs a runnable goroutine eventually, and each of these steps is enabled only
while its goroutine is runnable: a closed socket makes `Read` return. Clients
and remotes get no fairness, because nothing obliges them to send.

### Runs (`MCAssociate.tla`)

The model has:

- two clients, `c1` and `c2`;
- two pooled buffers, so the allocator really reuses them;
- `MaxDials = 3` outbound sockets;
- `MaxRecv = 3` datagrams;
- one reply per remote, of 4 or 65507 bytes (the largest UDP payload).

`MCWire` has four datagrams:

- `c1` and `c2` to 127.0.0.1:8888, so the same destination gets two flows;
- `c1` to a 30-character domain name, which pushes the 65507-byte reply over
  65536 bytes;
- a datagram with FRAG=1, which is malformed.

With these bounds every branch is reachable: a new flow, an existing flow, a
failed dial, a failed write, a parse error, an oversize reply, a closed UDP
socket during a send, and the allocator reusing a buffer between the handler
and a reverse task.

| Run | Expect | Properties | Shows |
|---|---|---|---|
| `assoc_safety` (`MCAssociate.cfg`) | pass (132,847 states) | `TypeOK`, `FlowDstIntact`, `NoOrphanSocket`, `BuffersReturned`, `Teardown` | Flows keep their destination. No socket escapes `CloseAll`. Buffers are neither leaked nor freed twice. All tasks end after `readFromSrc` returns. |
| `assoc_ctrl_close` | violation | `CtrlCloseTearsDown` | Closing the control connection tears nothing down (FIXME at line 61; spec 4.7 step 4). |
| `assoc_reverse_exit` | violation | `ReverseExitReleasesFlow` | A reverse task that exits on an oversize reply leaves its flow in the table (spec 4.7 6d). |
| `assoc_fqdn_dial` (`Wire <- MCWireNames`) | violation | `DialedNamedHost` | `Address()` drops the first character of a domain name (`datagram.go:63`). |

`CHECK_DEADLOCK FALSE` is set because the model has bounds on the
environment. Once those bounds are used up, or once the association is over,
the system just waits. The code does the same: it blocks in `Read` forever,
since it has no timeouts.

Each property has a mutant in `Associate.tla`, defined just before the
operator it replaces. TLC finds every mutant's property violated.

| Property | Mutant | What the mutant changes |
|---|---|---|
| `TypeOK` | `DelPeerNil` | `Del` stores nil |
| `FlowDstIntact` | `PeerDstCellAlias` | no copy |
| `NoOrphanSocket` | `OnWriteFailNoClose` | delete without close |
| `BuffersReturned` | `KeepDatagram` | missing `datagram = nil` |
| `Teardown` | `CloseAllSkipped` | no `CloseAll` |

### Proofs (`AssociateProofs.tla`)

They hold for every value of the constants, under `BoundsAssumption`,
`WireAssumption` and `NilAssumption` (nil is not a `UdpPeer` or an address).

- `TypeCorrect`: `Spec => []TypeOK`. `TypeOK` alone is not inductive.
  `SendToClient` reads `peer[s]`, so the proof needs `ReaderHasPeer`: a
  reverse task exists only for a dialled socket. `TypeInv` is
  `TypeOK /\ ReaderHasPeer`. There is one lemma per action. `RecvDatagram`
  is split into its three `handleDatagram` paths, which share the frame
  `FlowTyped`.
- `NoOrphanSocketHolds` and `FlowDstIntactHolds`. Both follow from the
  inductive invariant `IInv`, which is `TypeInv /\ FlowInv /\ NoOrphanSocket`.
  `FlowInv` strengthens `FlowDstIntact` with two facts:
  - every flow's `UdpPeer` keeps its address in its own cell, the socket's
    own cell, which no buffer write touches;
  - every flow's socket is below `nextSock`, so a new dial never overwrites a
    live `UdpPeer`.

  TLC checked `IInv` on the `assoc_safety` instance before it was proved. The
  lemma `BufferWriteKeepsSockets` carries the separation argument: buffers and
  sockets are disjoint cells. `FrameFlowOK` covers every step that writes
  buffers only.

`BuffersReturnedHolds` proves `Spec => []BuffersReturned`. The
strengthening is `TypeInv /\ BufInv`, where `BufInv` says every buffer is on
the free list exactly once and no `readFromDst` task keeps a datagram. That
is inductive because each step that allocates frees in the same step:
`readFromSrc` frees after `handleDatagram`, and `readFromDst` frees after its
send. Lemma `AllocFreeKeeps` states that round trip, and the in-loop free of
`readFromDst` is followed by `datagram = nil`. From `BufInv`, the set of
holders is empty and its cardinality is 0 (`FS_EmptySet`). The mutant
`KeepDatagram` breaks this: the task would keep a buffer that is also free.

`StoppedQuiet` serves the composed proof in `ConnectionProofs`. It says
that outside the relay loop the UDP socket and every flow socket are
closed. The induction (`NextStoppedQuiet`) relies on `NoOrphanSocket` in
the step where `readFromSrc` returns, because `CloseAll` closes only the
sockets in the table. `RelayEnteredByStart` says the loop can only be
entered from `init`.

Only TLC checks these:

- `Teardown`. It is liveness, which TLAPS cannot prove.
- The three violated properties.

## 4. Module `Session`: one TCP connection through `ServeConn`

`Session` follows one connection from `ServeConn`'s allowlist check to the
handler's return. `SessionReplies` is the abstract specification of what the
server may write on the control connection. `Session` instantiates it as
`R == INSTANCE SessionReplies WITH wire <- out, cmd <- reqCmd`, and
`ReplyOrder == R!Spec` is checked as a property and proved.

**State.**

| Variable | Code |
|---|---|
| `conf` | the `Config` passed to `New`: its `AuthMethods` and whether `Credentials` is set, before `New` fills in the defaults |
| `authMethods` | the key set of `Server.authMethods` after `New` (lines 292-328) |
| `allowlist`, `rules` | the `isIPAllowed` closure (`AllowAll` or a set of IPs) and the `PermitCommand` flags |
| `ip` | the client's address |
| `pc` | where the connection is: `accepted`, `version`, `methods`, `userpass`, `request`, `policy`, `connect`, `bind`, `accept`, `associate`, `udp`, `relay`, `done` |
| `out` | the frames written on the connection, in order: method reply, RFC 1929 status, replies (REP code), relayed bytes |
| `offered`, `method`, `user`, `pass` | the client's method list, the method chosen, the credentials read |
| `reqCmd`, `fqdn` | the parsed request's command and whether its address is a domain name |
| `dispatched` | the command whose handler was entered, or `NoCmd` |
| `px`, `errCh`, `got` | the two proxy goroutines (1: client to peer, 2: peer to client), the join channel, the results received |
| `clientGone`, `peerGone` | whether each side has closed its socket |

**Actions.**

- `CheckIP` (lines 400-412), `ReadVersion` (414-426), and `ReadFail`. The
  last one is a read that fails at any of the four read points: the
  connection closes without a write.
- `Negotiate`: `authenticate` (`auth.go` 140-162). It picks the first
  offered registered method (`SelectMethod`). For NoAuth it writes the
  method reply, for user/password the first write of `Authenticate`, and
  otherwise `noAcceptableAuth`.
- `ReadUserPass`: the rest of `UserPassAuthenticator.Authenticate` (86-136).
  A bad sub-negotiation version returns silently. Otherwise the status is
  written, and a failure ends the connection.
- `ReadRequest` (436-449): version mismatch, unknown address type with the
  `addrTypeNotSupported` reply, or a parsed request.
- `ResolveFail`, `ApplyPolicy` (with `Handler`), and `Connect`. These are
  `handleRequest` and `handleConnect`, modelled from the spec. The rule
  check uses `PermitCommand.Allow`.
- `BindListen`, `BindAccept`, `StartRelay`, `RelayWait`: `doBind`, with
  `ErrChCap` (line 110) and `Joins` (the loop bound at line 115).
- `AssociateSetup` and `AssociateEnd`. These are `doAssociate`'s reply and
  return; what happens in between is module `Associate`.
- `ProxyEof(i)`, `ProxyError(i)`, `ProxySend(i)`: `proxy` copies until its
  source ends or fails, then sends on `errCh`. A send blocks when the buffer
  is full, unless the handler is waiting to receive.
- Environment actions: `PeerData`, `PeerHangup`, and `ClientHangup`. The
  client may hang up while `doBind` waits in `Accept` or during the relay.

**Runs** (`MCSession.tla`, `MCSession.cfg`, run `session_safety`).

- Bounds:
  - two IPs and allowlists `AllowAll` and `{a1}`;
  - three authenticator configurations: none (so `New`'s default is used,
    with and without credentials), `[user/pass]`, and `[user/pass, noauth]`;
  - four client method lists, one of them led by an unregistered method;
  - one user, with a right and a wrong password;
  - two rule sets (all permitted, CONNECT only);
  - commands 1, 2, 3 and an unknown 9.
- These reach every branch: each method outcome, each auth result, each
  rule and dispatch outcome, and every order of the two proxies' ends and
  errors against the hangups.
- The run has 63,372 distinct states and takes a few seconds.
- Deadlock checking is off because the final state `done` is terminal.
- Properties:
  - `AuthorizedDispatch`: a handler runs only after the allowlist, a
    registered method, valid credentials and the rules all allowed it.
  - `CredentialsEnforced`: on a server given `Credentials` and no
    `AuthMethods`, a handler runs only for a client that negotiated
    user/password with a valid pair. This is `New`'s default (lines
    294-300) seen from the far end of the handshake. `AuthorizedDispatch`
    cannot see a wrong default, because it only compares with the methods
    `New` registered.
  - `ReplyOrder`: the refinement of `SessionReplies`.
  - `ProxiesReleased`: after the handler returns, no proxy stays blocked on
    `errCh`.
  - `RelayEnds`: once both sides have closed, the handler returns.
- Fairness: weak fairness on the server's own goroutines, which are
  `RelayWait`, `ProxyEof`, `ProxySend`, and `ProxyError` once the handler
  has returned. The last one is justified because the deferred closes make
  a blocked `io.Copy` fail. The client and the peer owe nothing.
- Mutants, one per property: the join loop running three times (`TypeOK`), a
  rule check that lets BIND through on the CONNECT flag, a `New` whose
  empty-`AuthMethods` default ignores `Credentials`, `Authenticate` not returning after a failure status, an
  unbuffered `errCh`, and starting only one proxy.
- Run `session_bind_abandoned` (`MCSessionBindAbandon.cfg`, a violation).
  It checks `BindAbandonReleased`: once the client has closed while `doBind`
  waits in `listenTcp.Accept` (`part_005` line 75), the wait ends. Spec
  section 5 says a connection's tasks must observe the close of a socket
  the connection owns. TLC's counterexample is `BindListen`, then
  `ClientHangup`, then stuttering forever. Nothing reads the control
  connection during `Accept`, and `Accept` has no deadline. So the handler,
  its listener and the goroutine wait for a peer that may never connect.
  The property only asks that the wait end, not that the connection end.
  The relay's end depends on `request.go`'s `proxy`, which is not in `src/`.
- An observation from the model: with capacity 1, `ProxiesReleased` still
  holds, because the wait loop always takes one result before it returns.
  Capacity 0 leaks a proxy.

**Proofs** (`SessionProofs.tla`). They hold for every value of the
constants, under `SessionAssumption`.

- `TypeCorrect`: `Spec => []TypeOK`. `TypeOK` is inductive by itself. There
  is one lemma per group of actions.
- `AuthorizedDispatchHolds` and `ReplyOrderRefinement`. Both rest on the
  inductive invariant `SInv == TypeOK /\ PolicyInv /\ WireInv`.
  - `PolicyInv` records, at each control point, which checks have already
    passed. The allowlist holds from `version` on, and authentication from
    `request` on. It also records that nothing was dispatched before
    `policy`.
  - `WireInv` records the exact shape of `out` at each control point: empty
    before the method reply, one or two negotiation frames, then one reply
    (two in `relay` for BIND) and at most one `Data`.
  - With that shape, every step of `Session` is either a `SessionReplies`
    step (lemma `NextSInv`) or leaves `out` and `reqCmd` alone. The
    refinement then follows by PTL.

- `CredentialsEnforcedHolds`: `Spec => []CredentialsEnforced`. The
  argument adds `ConfInv` to `SInv`. `ConfInv` says `authMethods` is still
  `RegisteredMethods` of the `Config` given to `New` (`conf`). It holds
  because no step changes `conf` or `authMethods` (lemma
  `NextKeepsConfig`). With `AuthMethods` empty and `Credentials` set, that
  set is `{user/password}` (lemma `DefaultIsUserPass`). `PolicyInv` then
  gives a dispatched request a method in that set, with valid credentials.

Only TLC checks these:

- `ProxiesReleased` and `RelayEnds`. They are liveness properties, which
  TLAPS cannot prove.

## 5. Module `Connection`: `ServeConn` and its association

`Connection` has the variables of both `Session` and `Associate`, and takes
them as `S == INSTANCE Session` and `A == INSTANCE Associate`. Its actions:

- `AssociateStart`: `doAssociate` up to `readFromSrc` (`associate.go`
  59-98). It is `S!AssociateSetup` and `A!Start` in one step. The success
  reply is written exactly when the UDP socket is bound, the drain goroutine
  is spawned and `sendReply` succeeds. A failed `Listen` or a failed reply
  writes nothing.
- `AssociateReturn`: `ServeConn` returning what `handleRequest` returned
  (`socks5.go` 451-458). It is `S!AssociateEnd`, and it is enabled only
  once `readFromSrc` has returned (`phase = "closed"`), because
  `doAssociate` returns `readFromSrc`'s result.
- `SessionStep`: every other `Session` step.
- `AssociationStep`: every step of the association's tasks and environment
  once `Start` has run. The reverse tasks may outlive `ServeConn`.

**Run** `connection_associate` (`MCConnection.tla`, `MCConnection.cfg`).

- Bounds:
  - one client IP, the default authenticator, and two rule sets (one of
    them denies ASSOCIATE);
  - commands CONNECT and ASSOCIATE;
  - two UDP clients, two buffers, three dials and four received datagrams
    (one of them malformed);
  - replies of 4 and 65507 bytes.
- The run has 231,342 distinct states and takes about 10 s.
- Deadlock checking is off because `done` is terminal.
- Property `AssociationClosedOnReturn`: once `ServeConn` has returned, the
  UDP socket and every outbound flow socket are closed, whatever the
  command and outcome.

  This needs the two modules together. On the `Session` side, `ServeConn`
  returns through `AssociateEnd`. On the `Associate` side, the sockets are
  closed by `readFromSrc`'s `CloseAll` and the deferred `udpServer.Close`.
  The property holds only because the first waits for the second, and
  because no flow socket escapes the table (`NoOrphanSocket`).
- Its mutant, `AssociateReturnEarly`, lets `ServeConn` return while the
  relay loop still runs, as if it were detached into a goroutine. TLC finds
  the property violated.
- The composition is safety only, so it assumes no fairness.

**Proof** (`ConnectionProofs.tla`). `AssociationClosedOnReturnHolds` proves
`Spec => []AssociationClosedOnReturn` for every value of the constants. It
uses `AssociationAssumption`, which is `Associate`'s three assumptions,
stated in `Connection` so that TLC evaluates them there as well.

- The inductive invariant is `CInv`, made of three parts:
  - `AssociateProofs`' `IInv` and `StoppedQuiet`, on the same variables;
  - `RelayInUdp`: the association relays only while `ServeConn` is in
    `udp`.
- `RelayInUdp` is what the composition adds. `AssociateStart` enters the
  loop exactly when it moves `ServeConn` to `udp`. `AssociateReturn` leaves
  `udp` only from `closed`. A step of `Session` elsewhere cannot start the
  association. A step of the association cannot re-enter `relay` once it
  has left it (`RelayEnteredByStart`).
- When `ServeConn` is `done`, `RelayInUdp` rules out `relay`, and
  `StoppedQuiet` then gives the property.
- `AssociateProofs` is taken as `AP == INSTANCE AssociateProofs`. Its
  lemmas then speak of `AP!Next`, while `Connection` is written with
  `A!Next`.
  - `SameAssociation` proves the two equal, one action at a time. Expanding
    all of `Next` at once is too large for the provers.
  - `AssociationSteps` shows that every step of the composition is a step of
    the association or leaves its variables alone, so the instantiated
    lemmas apply.

TLC checked `CInv` on the `connection_associate` instance before the proof.

## 6. Not modelled

- `request.go` is not in `src/`. `handleRequest`, `handleConnect` and
  `proxy` are modelled from spec.md 4.4-4.6, only as far as `Session` needs
  them. The byte layout of requests and replies is abstracted.
- `BindCallBack`, logging, and the `SplitHostPort` failures on addresses
  the kernel produced (`part_005` 60-62, 95-99, `associate.go` 73-76).
- `DNSResolver`: one call of `net.ResolveIPAddr`, with no state.
- `client_datagram.go`: a client-side helper for the tests.
- `updateTime`: written, never read. The race on it is harmless.
- `SetIPAllowlist` (`socks5.go` 340-353) replaces `s.isIPAllowed` with no
  synchronisation, while connections call it. A connection sees the old or
  the new predicate, and `Session`'s choice of an allowlist covers both.
  A torn read of the function value is outside the model.
- The drain goroutine's `conn.(*net.TCPConn)` assertion (`associate.go` 89)
  panics for any other `net.Conn`. The model assumes a TCP connection.
- The UDP source address is not checked against the association's client
  (`associate.go` 112), and the spec does not ask for it. The model's
  clients send freely, as the code lets them.
- The old copy of the server at `socks5.go` lines 1-207.
