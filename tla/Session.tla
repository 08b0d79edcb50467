------------------------------ MODULE Session ------------------------------
(***************************************************************************)
(* One control connection served by Server.ServeConn (socks5.go): the IP  *)
(* allowlist, the version byte, method negotiation and the user/password  *)
(* sub-negotiation (auth.go), the request, the policy pipeline and the    *)
(* dispatch to CONNECT, BIND (doBind) or UDP ASSOCIATE (doAssociate), and *)
(* for CONNECT and BIND the two proxy goroutines joined through the       *)
(* capacity-2 error channel.  The datagram relay behind ASSOCIATE is the  *)
(* Associate module.  Frames written to the client are abstracted as in  *)
(* SessionReplies; byte strings, addresses and logging are left out.      *)
(***************************************************************************)
EXTENDS Naturals, Sequences, FiniteSets

CONSTANTS IPs,          \* client addresses
          AllowAll,     \* the allowlist New installs: every IP passes
          Allowlists,   \* AllowAll, or the lists given to SetIPAllowlist
          AuthConfigs,  \* values of Config.AuthMethods, as sequences of codes
          MethodOffers, \* method lists a client may send
          Users, Passwords,
          Creds,        \* the StaticCredentials map
          RuleSets,     \* PermitCommand values
          Commands,     \* CMD bytes a client may send
          NoCmd, NoMethod,
          NoCred       \* user and password before they are read

\* readMethods reads the method codes as bytes.
Byte == 0 .. 255

ASSUME SessionAssumption ==
    /\ AllowAll \in Allowlists
    /\ MethodOffers \subseteq Seq(Byte)
    /\ AuthConfigs \subseteq Seq({0, 2})  \* NoAuth and UserPass authenticators
    /\ \A a \in Allowlists \ {AllowAll} : a \subseteq IPs
    /\ DOMAIN Creds \subseteq Users /\ \A u \in DOMAIN Creds : Creds[u] \in Passwords
    /\ NoCmd \notin Commands /\ NoMethod \notin {0, 2, 255}

NoAuth == 0
UserPassAuth == 2
NoAcceptable == 255
ConnectCommand == 1
BindCommand == 2
AssociateCommand == 3
\* REP codes
SuccessReply == 0
ServerFailure == 1
RuleFailure == 2
HostUnreachable == 4
CommandNotSupported == 7
AddrTypeNotSupported == 8
\* REP codes a failed dial is mapped to (network / host unreachable, refused)
DialFailures == {1, 3, 4, 5}

\* Mutant: New falls back to no-auth whenever AuthMethods is empty, as if
\* the Credentials check were missing.
RegisteredMethodsNoAuthDefault(cfg, hasCreds) ==
    IF Len(cfg) = 0 THEN {NoAuth}
                    ELSE {cfg[i] : i \in 1..Len(cfg)}

\* New: the registered method codes; an empty AuthMethods defaults to
\* user/password when Credentials is set, otherwise to no-auth.
RegisteredMethods(cfg, hasCreds) ==
    IF Len(cfg) = 0 THEN IF hasCreds THEN {UserPassAuth} ELSE {NoAuth}
                    ELSE {cfg[i] : i \in 1..Len(cfg)}

\* The predicate installed by New (allow all) or by SetIPAllowlist.
IPAllowed(list, a) == list = AllowAll \/ a \in list

\* StaticCredentials.Valid
Valid(u, p) == u \in DOMAIN Creds /\ Creds[u] = p

\* Mutant: the BIND case consults EnableConnect.
AllowBindAsConnect(rule, c) ==
    \/ c \in {ConnectCommand, BindCommand} /\ rule.connect
    \/ c = AssociateCommand /\ rule.associate

\* PermitCommand.Allow: unknown commands are refused.
Allow(rule, c) ==
    \/ c = ConnectCommand /\ rule.connect
    \/ c = BindCommand /\ rule.bind
    \/ c = AssociateCommand /\ rule.associate

\* authenticate's loop: the first offered method that is registered.
SelectMethod(ms, reg) ==
    IF \E i \in 1..Len(ms) : ms[i] \in reg /\ \A j \in 1..i-1 : ms[j] \notin reg
    THEN ms[CHOOSE i \in 1..Len(ms) :
              ms[i] \in reg /\ \A j \in 1..i-1 : ms[j] \notin reg]
    ELSE NoAcceptable

VARIABLES
    conf,        \* the Config passed to New: its AuthMethods, whether
                 \* Credentials is set
    authMethods, allowlist, rules, ip,  \* the server config, the peer's IP
    pc,          \* where ServeConn / the handler is
    out,         \* frames written to the client, in order
    offered,     \* the methods the client offered
    method,      \* the method negotiation picked
    user, pass,  \* credentials read by the user/password handshake
    reqCmd,      \* the parsed request's command
    fqdn,        \* the request's destination is a domain name
    dispatched,  \* the command handed to its handler, or NoCmd
    px,          \* the two proxy goroutines: 1 client->peer, 2 peer->client
    errCh,       \* the join channel's buffer
    got,         \* results the relay loop has received
    clientGone, peerGone  \* the client / the peer closed its side

vars == <<conf, authMethods, allowlist, rules, ip, pc, out, offered, method, user,
          pass, reqCmd, fqdn, dispatched, px, errCh, got, clientGone, peerGone>>
R == INSTANCE SessionReplies WITH wire <- out, cmd <- reqCmd

Method(m) == R!Method(m)
AuthStatus(s) == R!AuthStatus(s)
Reply(r) == R!Reply(r)
Data == R!Data

cfgVars == <<conf, authMethods, allowlist, rules, ip>>
authVars == <<offered, method, user, pass>>
relayVars == <<px, errCh, got, clientGone, peerGone>>

\* Points where ServeConn blocks reading from the client.
ReadPoints == {"version", "methods", "userpass", "request"}
PCs == ReadPoints \cup {"accepted", "policy", "connect", "bind", "accept",
                        "associate", "udp", "relay", "done"}

\* Every frame the server can write.
Frames == {Method(m) : m \in {NoAuth, UserPassAuth, NoAcceptable}}
          \cup {AuthStatus(st) : st \in {0, 1}}
          \cup {Reply(r) : r \in 0..8} \cup {Data}

TypeOK ==
    /\ conf \in [AuthMethods : AuthConfigs, Credentials : BOOLEAN]
    /\ authMethods \subseteq {NoAuth, UserPassAuth} /\ authMethods # {}
    /\ ip \in IPs
    /\ pc \in PCs
    /\ out \in Seq(Frames)
    /\ method \in {NoMethod, NoAuth, UserPassAuth, NoAcceptable}
    /\ reqCmd \in Commands \cup {NoCmd} /\ dispatched \in Commands \cup {NoCmd}
    /\ fqdn \in BOOLEAN
    /\ px \in [1..2 -> {"idle", "copying", "eof", "err", "done"}]
    /\ errCh \in Seq({"nil", "err"}) /\ Len(errCh) <= 2
    /\ got \in 0..1
    /\ clientGone \in BOOLEAN /\ peerGone \in BOOLEAN

Init ==
    /\ conf \in [AuthMethods : AuthConfigs, Credentials : BOOLEAN]
    /\ authMethods = RegisteredMethods(conf.AuthMethods, conf.Credentials)
    /\ allowlist \in Allowlists /\ rules \in RuleSets /\ ip \in IPs
    /\ pc = "accepted" /\ out = <<>>
    /\ offered = <<>> /\ method = NoMethod /\ user = NoCred /\ pass = NoCred
    /\ reqCmd = NoCmd /\ fqdn = FALSE /\ dispatched = NoCmd
    /\ px = [i \in 1..2 |-> "idle"] /\ errCh = <<>> /\ got = 0
    /\ clientGone = FALSE /\ peerGone = FALSE

\* ServeConn: a refused IP is closed without a reply.
CheckIP ==
    /\ pc = "accepted"
    /\ pc' = IF IPAllowed(allowlist, ip) THEN "version" ELSE "done"
    /\ UNCHANGED <<cfgVars, out, authVars, reqCmd, fqdn, dispatched, relayVars>>

\* ServeConn: anything but version 5 is closed without a reply.
ReadVersion ==
    /\ pc = "version"
    /\ \E v \in {4, 5} : pc' = IF v = 5 THEN "methods" ELSE "done"
    /\ UNCHANGED <<cfgVars, out, authVars, reqCmd, fqdn, dispatched, relayVars>>

\* Any read may end in EOF or a short read: ServeConn returns, no reply.
ReadFail ==
    /\ pc \in ReadPoints
    /\ pc' = "done"
    /\ UNCHANGED <<cfgVars, out, authVars, reqCmd, fqdn, dispatched, relayVars>>

\* authenticate: read the methods, write the selection, start its handshake.
Negotiate ==
    /\ pc = "methods"
    /\ \E ms \in MethodOffers :
         LET m == SelectMethod(ms, authMethods) IN
         /\ offered' = ms /\ method' = m
         /\ out' = <<Method(m)>>
         /\ pc' = CASE m = NoAuth -> "request"
                    [] m = UserPassAuth -> "userpass"
                    [] OTHER -> "done"
    /\ UNCHANGED <<cfgVars, user, pass, reqCmd, fqdn, dispatched, relayVars>>

\* Mutant: a failed check writes status 1 but does not return UserAuthFailed.
ReadUserPassNoReturn ==
    /\ pc = "userpass"
    /\ \E ver \in {0, 1}, u \in Users, p \in Passwords :
         IF ver # 1
         THEN pc' = "done" /\ UNCHANGED <<out, user, pass>>
         ELSE /\ user' = u /\ pass' = p
              /\ out' = Append(out, AuthStatus(IF Valid(u, p) THEN 0 ELSE 1))
              /\ pc' = "request"
    /\ UNCHANGED <<cfgVars, offered, method, reqCmd, fqdn, dispatched, relayVars>>

\* UserPassAuthenticator.Authenticate after its method reply.
ReadUserPass ==
    /\ pc = "userpass"
    /\ \E ver \in {0, 1}, u \in Users, p \in Passwords :
         IF ver # 1
         THEN pc' = "done" /\ UNCHANGED <<out, user, pass>>
         ELSE /\ user' = u /\ pass' = p
              /\ out' = Append(out, AuthStatus(IF Valid(u, p) THEN 0 ELSE 1))
              /\ pc' = IF Valid(u, p) THEN "request" ELSE "done"
    /\ UNCHANGED <<cfgVars, offered, method, reqCmd, fqdn, dispatched, relayVars>>

\* NewRequest: VER must be 5; an unknown ATYP is answered with REP 8.
ReadRequest ==
    /\ pc = "request"
    /\ \E ver \in {4, 5}, c \in Commands, atyp \in {1, 3, 5} :
         IF ver # 5 THEN pc' = "done" /\ UNCHANGED <<out, reqCmd, fqdn>>
         ELSE IF atyp \notin {1, 3, 4}
         THEN /\ out' = Append(out, Reply(AddrTypeNotSupported))
              /\ pc' = "done" /\ UNCHANGED <<reqCmd, fqdn>>
         ELSE /\ reqCmd' = c /\ fqdn' = (atyp = 3)
              /\ pc' = "policy" /\ UNCHANGED out
    /\ UNCHANGED <<cfgVars, authVars, dispatched, relayVars>>

(***************************************************************************)
(* handleRequest (spec section 4.4): resolve a domain name, ask the rule  *)
(* set, dispatch on the command.                                           *)
(***************************************************************************)
\* A failed resolution is answered with host-unreachable.
ResolveFail ==
    /\ pc = "policy" /\ fqdn
    /\ out' = Append(out, Reply(HostUnreachable)) /\ pc' = "done"
    /\ UNCHANGED <<cfgVars, authVars, reqCmd, fqdn, dispatched, relayVars>>

Handler == [c \in {ConnectCommand, BindCommand, AssociateCommand} |->
               CASE c = ConnectCommand -> "connect"
                 [] c = BindCommand -> "bind"
                 [] OTHER -> "associate"]

\* Rule denial is answered with rule-failure; an allowed command without a
\* handler with command-not-supported.
ApplyPolicy ==
    /\ pc = "policy"
    /\ IF ~Allow(rules, reqCmd)
       THEN out' = Append(out, Reply(RuleFailure)) /\ pc' = "done"
            /\ UNCHANGED dispatched
       ELSE IF reqCmd \in DOMAIN Handler
       THEN dispatched' = reqCmd /\ pc' = Handler[reqCmd] /\ UNCHANGED out
       ELSE out' = Append(out, Reply(CommandNotSupported)) /\ pc' = "done"
            /\ UNCHANGED dispatched
    /\ UNCHANGED <<cfgVars, authVars, reqCmd, fqdn, relayVars>>

\* Mutant: the peer-to-client proxy is never started.
StartRelayOne == [i \in 1..2 |-> IF i = 1 THEN "copying" ELSE "idle"]

\* Both proxy goroutines start copying.
StartRelay == [i \in 1..2 |-> "copying"]

\* CONNECT: dial; a failure is answered with the REP its error maps to.
Connect ==
    /\ pc = "connect"
    /\ \/ /\ out' = Append(out, Reply(SuccessReply)) /\ pc' = "relay"
          /\ px' = StartRelay
       \/ /\ \E r \in DialFailures : out' = Append(out, Reply(r))
          /\ pc' = "done" /\ UNCHANGED px
    /\ UNCHANGED <<cfgVars, authVars, reqCmd, fqdn, dispatched, errCh, got,
                   clientGone, peerGone>>

\* doBind: listen; the first reply carries the listener's port.
BindListen ==
    /\ pc = "bind"
    /\ \E ok \in BOOLEAN :
         /\ out' = Append(out, Reply(IF ok THEN SuccessReply ELSE ServerFailure))
         /\ pc' = IF ok THEN "accept" ELSE "done"
    /\ UNCHANGED <<cfgVars, authVars, reqCmd, fqdn, dispatched, relayVars>>

\* doBind: accept one connection from anyone (the peer is not checked),
\* send the second reply and start the two proxies.
BindAccept ==
    /\ pc = "accept"
    /\ \/ /\ out' = Append(out, Reply(SuccessReply)) /\ pc' = "relay"
          /\ px' = StartRelay
       \/ /\ out' = Append(out, Reply(ServerFailure)) /\ pc' = "done"
          /\ UNCHANGED px
    /\ UNCHANGED <<cfgVars, authVars, reqCmd, fqdn, dispatched, errCh, got,
                   clientGone, peerGone>>

\* doAssociate: a failed UDP listen returns without a reply; otherwise the
\* success reply, and the datagram relay (module Associate) runs.
AssociateSetup ==
    /\ pc = "associate"
    /\ \/ out' = Append(out, Reply(SuccessReply)) /\ pc' = "udp"
       \/ pc' = "done" /\ UNCHANGED out
    /\ UNCHANGED <<cfgVars, authVars, reqCmd, fqdn, dispatched, relayVars>>

\* doAssociate returns readFromSrc's result and ServeConn returns with it.
AssociateEnd ==
    /\ pc = "udp" /\ pc' = "done"
    /\ UNCHANGED <<cfgVars, out, authVars, reqCmd, fqdn, dispatched, relayVars>>

(***************************************************************************)
(* The relay: proxy(dst, src) copies until src ends (EOF: nil) or an I/O  *)
(* error, then sends the result on errCh.                                  *)
(***************************************************************************)
SrcGone(i) == IF i = 1 THEN clientGone ELSE peerGone

\* The peer's first bytes reach the client.
PeerData ==
    /\ pc = "relay" /\ px[2] = "copying" /\ out[Len(out)] # Data
    /\ out' = Append(out, Data)
    /\ UNCHANGED <<cfgVars, pc, authVars, reqCmd, fqdn, dispatched, relayVars>>

\* The client may close while doBind waits in Accept or during the relay.
ClientHangup ==
    /\ pc \in {"accept", "relay"} /\ ~clientGone /\ clientGone' = TRUE
    /\ UNCHANGED <<cfgVars, pc, out, authVars, reqCmd, fqdn, dispatched,
                   px, errCh, got, peerGone>>

PeerHangup ==
    /\ pc = "relay" /\ ~peerGone /\ peerGone' = TRUE
    /\ UNCHANGED <<cfgVars, pc, out, authVars, reqCmd, fqdn, dispatched,
                   px, errCh, got, clientGone>>

\* io.Copy returns nil when its source ends.
ProxyEof(i) ==
    /\ px[i] = "copying" /\ SrcGone(i) /\ pc # "done"
    /\ px' = [px EXCEPT ![i] = "eof"]
    /\ UNCHANGED <<cfgVars, pc, out, authVars, reqCmd, fqdn, dispatched,
                   errCh, got, clientGone, peerGone>>

\* io.Copy fails: a network error, or a socket the handler closed on return.
ProxyError(i) ==
    /\ px[i] = "copying"
    /\ px' = [px EXCEPT ![i] = "err"]
    /\ UNCHANGED <<cfgVars, pc, out, authVars, reqCmd, fqdn, dispatched,
                   errCh, got, clientGone, peerGone>>

\* Mutant: an unbuffered join channel.
ErrChCapUnbuffered == 0

\* make(chan error, 2)
ErrChCap == 2

\* errCh <- err: room in the buffer, or the handler waiting to receive.
ProxySend(i) ==
    /\ px[i] \in {"eof", "err"}
    /\ Len(errCh) < ErrChCap \/ (pc = "relay" /\ errCh = <<>>)
    /\ errCh' = Append(errCh, IF px[i] = "eof" THEN "nil" ELSE "err")
    /\ px' = [px EXCEPT ![i] = "done"]
    /\ UNCHANGED <<cfgVars, pc, out, authVars, reqCmd, fqdn, dispatched,
                   got, clientGone, peerGone>>

\* Mutant: the loop runs one result too many (i <= 2).
JoinsOneMore == 3

\* The join loop waits for two results.
Joins == 2

\* Return on the first error or on the second result; the deferred closes
\* and ServeConn's close shut every socket of the session.
RelayWait ==
    /\ pc = "relay" /\ errCh # <<>>
    /\ errCh' = Tail(errCh)
    /\ IF Head(errCh) = "err" \/ got + 1 = Joins
       THEN pc' = "done" /\ UNCHANGED got
       ELSE got' = got + 1 /\ UNCHANGED pc
    /\ UNCHANGED <<cfgVars, out, authVars, reqCmd, fqdn, dispatched, px,
                   clientGone, peerGone>>

Next ==
    \/ CheckIP \/ ReadVersion \/ ReadFail \/ Negotiate \/ ReadUserPass
    \/ ReadRequest \/ ResolveFail \/ ApplyPolicy
    \/ Connect \/ BindListen \/ BindAccept \/ AssociateSetup \/ AssociateEnd
    \/ PeerData \/ ClientHangup \/ PeerHangup \/ RelayWait
    \/ \E i \in 1..2 : ProxyEof(i) \/ ProxyError(i) \/ ProxySend(i)

\* The server's goroutines are scheduled fairly, and a socket the handler
\* closed makes a blocked io.Copy return; clients and peers owe nothing.
Fairness ==
    /\ WF_vars(RelayWait)
    /\ \A i \in 1..2 : /\ WF_vars(ProxyEof(i)) /\ WF_vars(ProxySend(i))
                       /\ WF_vars(pc = "done" /\ ProxyError(i))

Spec == Init /\ [][Next]_vars /\ Fairness

(***************************************************************************)
(* Properties.                                                             *)
(***************************************************************************)

\* Spec sections 5 and 8: the wire order is method reply, sub-negotiation
\* status, one reply (two for BIND) and only then relayed bytes; nothing
\* follows a failure.  Every handler's sendReply and every early return of
\* ServeConn and authenticate take part.
ReplyOrder == R!Spec

\* A command reaches its handler only for an allowed IP, after a method the
\* server registered, with valid credentials when that method is
\* user/password, and with the rule set's consent.
AuthorizedDispatch ==
    dispatched # NoCmd =>
        /\ allowlist = AllowAll \/ ip \in allowlist
        /\ method \in authMethods
        /\ method = UserPassAuth => user \in DOMAIN Creds /\ Creds[user] = pass
        /\ dispatched = ConnectCommand => rules.connect
        /\ dispatched = BindCommand => rules.bind
        /\ dispatched = AssociateCommand => rules.associate

\* New's default: a server given Credentials and no AuthMethods must demand
\* them.  On such a server a command reaches its handler only for a client
\* that completed user/password negotiation with a valid pair, whatever
\* methods the client offered.
CredentialsEnforced ==
    dispatched # NoCmd /\ conf.AuthMethods = <<>> /\ conf.Credentials =>
        method = UserPassAuth /\ Valid(user, pass)

\* Once the handler has returned, neither proxy goroutine stays blocked on
\* the join channel: it ends, and its sockets are released.
ProxiesReleased ==
    (pc = "done") ~> (\A i \in 1..2 : px[i] \in {"idle", "done"})

\* Spec section 5: the core has no timeouts and relies on peer-driven
\* closure, and a connection's tasks must observe the close of a socket it
\* owns and return.  A client that abandons a BIND while doBind waits in
\* listenTcp.Accept should therefore see that wait end.
BindAbandonReleased ==
    (pc = "accept" /\ clientGone) ~> (pc # "accept")

\* When both the client and the peer have closed, the relay handler returns.
RelayEnds ==
    (pc = "relay" /\ clientGone /\ peerGone) ~> (pc = "done")
=============================================================================
