--------------------------- MODULE SessionProofs ---------------------------
(***************************************************************************)
(* Proofs about Session for every configuration: the type invariant, that *)
(* a command reaches its handler only through every check of ServeConn,   *)
(* authenticate and handleRequest, and that the frames written to the     *)
(* client follow the order SessionReplies allows.                          *)
(***************************************************************************)
EXTENDS Session, SequenceTheorems, TLAPS

\* authenticate picks a registered method or answers 0xFF.
LEMMA SelectMethodType ==
    ASSUME NEW ms, NEW reg
    PROVE  SelectMethod(ms, reg) \in reg \cup {NoAcceptable}
<1>1. CASE \E i \in 1..Len(ms) : ms[i] \in reg /\ \A j \in 1..i-1 : ms[j] \notin reg
  BY <1>1 DEF SelectMethod
<1>2. CASE ~\E i \in 1..Len(ms) : ms[i] \in reg /\ \A j \in 1..i-1 : ms[j] \notin reg
  BY <1>2 DEF SelectMethod
<1> QED BY <1>1, <1>2

\* New registers at least one method, and only the two built-in ones.
LEMMA RegisteredMethodsType ==
    ASSUME NEW cfg \in AuthConfigs, NEW hasCreds \in BOOLEAN
    PROVE  /\ RegisteredMethods(cfg, hasCreds) \subseteq {NoAuth, UserPassAuth}
           /\ RegisteredMethods(cfg, hasCreds) # {}
<1>1. cfg \in Seq({0, 2}) BY SessionAssumption
<1>2. CASE Len(cfg) = 0 BY <1>2 DEF RegisteredMethods, NoAuth, UserPassAuth
<1>3. CASE Len(cfg) # 0
  <2>1. 1 \in 1..Len(cfg) BY <1>1, <1>3
  <2> QED BY <1>1, <1>3, <2>1 DEF RegisteredMethods, NoAuth, UserPassAuth
<1> QED BY <1>2, <1>3

LEMMA InitTypeOK == Init => TypeOK
<1> SUFFICES ASSUME Init PROVE TypeOK OBVIOUS
<1>1. authMethods \subseteq {NoAuth, UserPassAuth} /\ authMethods # {}
  BY RegisteredMethodsType DEF Init
<1>2. out \in Seq(Frames) /\ errCh \in Seq({"nil", "err"}) /\ Len(errCh) <= 2
  <2>1. <<>> \in Seq(Frames) /\ <<>> \in Seq({"nil", "err"}) /\ Len(<<>>) = 0 OBVIOUS
  <2> QED BY <2>1 DEF Init
<1>3. px \in [1..2 -> {"idle", "copying", "eof", "err", "done"}] BY DEF Init
<1>4. pc \in PCs BY DEF Init, PCs
<1>5. method \in {NoMethod, NoAuth, UserPassAuth, NoAcceptable} BY DEF Init
<1>6. reqCmd \in Commands \cup {NoCmd} /\ dispatched \in Commands \cup {NoCmd} BY DEF Init
<1>7. got \in 0..1 /\ ip \in IPs BY DEF Init
<1>8. fqdn \in BOOLEAN /\ clientGone \in BOOLEAN /\ peerGone \in BOOLEAN
  BY Zenon DEF Init
<1>9. conf \in [AuthMethods : AuthConfigs, Credentials : BOOLEAN] BY DEF Init
<1> QED BY <1>1, <1>2, <1>3, <1>4, <1>5, <1>6, <1>7, <1>8, <1>9 DEF TypeOK

\* Every frame written is one of Frames.
LEMMA AppendFrame ==
    ASSUME NEW w \in Seq(Frames), NEW f \in Frames
    PROVE  Append(w, f) \in Seq(Frames)
OBVIOUS

LEMMA FrameKinds ==
    /\ \A m \in {NoAuth, UserPassAuth, NoAcceptable} : Method(m) \in Frames
    /\ \A st \in {0, 1} : AuthStatus(st) \in Frames
    /\ \A r \in 0..8 : Reply(r) \in Frames
    /\ Data \in Frames
BY DEF Frames

\* Steps that only move ServeConn's pc keep the types.
LEMMA PcStepTypeOK ==
    ASSUME TypeOK, CheckIP \/ ReadVersion \/ ReadFail \/ AssociateEnd
    PROVE  TypeOK'
<1>1. pc' \in PCs BY DEF CheckIP, ReadVersion, ReadFail, AssociateEnd, PCs, ReadPoints
<1>2. UNCHANGED <<cfgVars, out, authVars, reqCmd, fqdn, dispatched, relayVars>>
  BY DEF CheckIP, ReadVersion, ReadFail, AssociateEnd
<1> QED BY <1>1, <1>2 DEF TypeOK, cfgVars, authVars, relayVars

LEMMA NegotiateTypeOK ==
    ASSUME TypeOK, Negotiate
    PROVE  TypeOK'
<1>1. PICK ms \in MethodOffers :
         LET m == SelectMethod(ms, authMethods) IN
         /\ offered' = ms /\ method' = m
         /\ out' = <<Method(m)>>
         /\ pc' = CASE m = NoAuth -> "request"
                    [] m = UserPassAuth -> "userpass"
                    [] OTHER -> "done"
  BY DEF Negotiate
<1>2. SelectMethod(ms, authMethods) \in {NoAuth, UserPassAuth, NoAcceptable}
  BY SelectMethodType DEF TypeOK
<1>3. out' \in Seq(Frames) BY <1>1, <1>2, FrameKinds
<1>4. pc' \in PCs BY <1>1 DEF PCs, ReadPoints
<1>5. UNCHANGED <<cfgVars, user, pass, reqCmd, fqdn, dispatched, relayVars>>
  BY DEF Negotiate
<1> QED BY <1>1, <1>2, <1>3, <1>4, <1>5 DEF TypeOK, cfgVars, relayVars

LEMMA ReadUserPassTypeOK ==
    ASSUME TypeOK, ReadUserPass
    PROVE  TypeOK'
<1>1. out' \in Seq(Frames) /\ pc' \in PCs
  BY FrameKinds, AppendFrame DEF ReadUserPass, TypeOK, PCs, ReadPoints
<1>2. UNCHANGED <<cfgVars, offered, method, reqCmd, fqdn, dispatched, relayVars>>
  BY DEF ReadUserPass
<1> QED BY <1>1, <1>2 DEF TypeOK, cfgVars, relayVars

LEMMA ReadRequestTypeOK ==
    ASSUME TypeOK, ReadRequest
    PROVE  TypeOK'
<1>1. PICK ver \in {4, 5}, c \in Commands, atyp \in {1, 3, 5} :
         IF ver # 5 THEN pc' = "done" /\ UNCHANGED <<out, reqCmd, fqdn>>
         ELSE IF atyp \notin {1, 3, 4}
         THEN /\ out' = Append(out, Reply(AddrTypeNotSupported))
              /\ pc' = "done" /\ UNCHANGED <<reqCmd, fqdn>>
         ELSE /\ reqCmd' = c /\ fqdn' = (atyp = 3)
              /\ pc' = "policy" /\ UNCHANGED out
  BY DEF ReadRequest
<1>2. UNCHANGED <<cfgVars, authVars, dispatched, relayVars>> BY DEF ReadRequest
<1>3. CASE ver # 5
  <2>1. pc' = "done" /\ UNCHANGED <<out, reqCmd, fqdn>> BY <1>1, <1>3
  <2> QED BY <1>2, <2>1 DEF TypeOK, PCs, cfgVars, authVars, relayVars
<1>4. CASE ver = 5 /\ atyp \notin {1, 3, 4}
  <2>1. out' = Append(out, Reply(AddrTypeNotSupported))
        /\ pc' = "done" /\ UNCHANGED <<reqCmd, fqdn>>
    BY <1>1, <1>4
  <2>2. out' \in Seq(Frames) BY <2>1, FrameKinds, AppendFrame DEF TypeOK, AddrTypeNotSupported
  <2> QED BY <1>2, <2>1, <2>2 DEF TypeOK, PCs, cfgVars, authVars, relayVars
<1>5. CASE ver = 5 /\ atyp \in {1, 3, 4}
  <2>1. reqCmd' = c /\ fqdn' = (atyp = 3) /\ pc' = "policy" /\ UNCHANGED out
    BY <1>1, <1>5
  <2>2. fqdn' \in BOOLEAN BY <2>1, Zenon
  <2> QED BY <1>2, <2>1, <2>2 DEF TypeOK, PCs, cfgVars, authVars, relayVars
<1> QED BY <1>3, <1>4, <1>5

LEMMA ReplyStepTypeOK ==
    ASSUME TypeOK, ResolveFail \/ BindListen \/ AssociateSetup
    PROVE  TypeOK'
<1>1. out' \in Seq(Frames)
  <2>1. CASE ResolveFail
    <3>1. out' = Append(out, Reply(4)) BY <2>1 DEF ResolveFail, HostUnreachable
    <3> QED BY <3>1, FrameKinds, AppendFrame DEF TypeOK
  <2>2. CASE BindListen
    <3>1. PICK ok \in BOOLEAN : out' = Append(out, Reply(IF ok THEN 0 ELSE 1))
      BY <2>2 DEF BindListen, SuccessReply, ServerFailure
    <3>2. (IF ok THEN 0 ELSE 1) \in 0..8 OBVIOUS
    <3> QED BY <3>1, <3>2, FrameKinds, AppendFrame DEF TypeOK
  <2>3. CASE AssociateSetup
    <3>1. out' = Append(out, Reply(0)) \/ out' = out BY <2>3 DEF AssociateSetup, SuccessReply
    <3>2. Reply(0) \in Frames BY FrameKinds
    <3>3. out \in Seq(Frames) BY DEF TypeOK
    <3> QED BY <3>1, <3>2, <3>3, AppendFrame
  <2> QED BY <2>1, <2>2, <2>3
<1>2. pc' \in PCs BY DEF ResolveFail, BindListen, AssociateSetup, PCs
<1>3. UNCHANGED <<cfgVars, authVars, reqCmd, fqdn, dispatched, relayVars>>
  BY DEF ResolveFail, BindListen, AssociateSetup
<1> QED BY <1>1, <1>2, <1>3 DEF TypeOK, cfgVars, authVars, relayVars

LEMMA ApplyPolicyTypeOK ==
    ASSUME TypeOK, ApplyPolicy
    PROVE  TypeOK'
<1>1. out' \in Seq(Frames)
  <2>1. \/ out' = Append(out, Reply(2)) \/ out' = Append(out, Reply(7))
        \/ out' = out
    BY DEF ApplyPolicy, RuleFailure, CommandNotSupported
  <2>2. Reply(2) \in Frames /\ Reply(7) \in Frames BY FrameKinds
  <2>3. out \in Seq(Frames) BY DEF TypeOK
  <2> QED BY <2>1, <2>2, <2>3, AppendFrame
<1>2. pc' \in PCs BY DEF ApplyPolicy, Handler, PCs
<1>3. dispatched' \in Commands \cup {NoCmd} BY DEF ApplyPolicy, TypeOK
<1>4. UNCHANGED <<cfgVars, authVars, reqCmd, fqdn, relayVars>> BY DEF ApplyPolicy
<1> QED BY <1>1, <1>2, <1>3, <1>4 DEF TypeOK, cfgVars, authVars, relayVars

LEMMA StartStepTypeOK ==
    ASSUME TypeOK, Connect \/ BindAccept
    PROVE  TypeOK'
<1>1. out' \in Seq(Frames)
  <2>1. \E r \in 0..8 : out' = Append(out, Reply(r))
    BY DEF Connect, BindAccept, SuccessReply, ServerFailure, DialFailures
  <2> QED BY <2>1, FrameKinds, AppendFrame DEF TypeOK
<1>2. pc' \in PCs BY DEF Connect, BindAccept, PCs
<1>3. px' \in [1..2 -> {"idle", "copying", "eof", "err", "done"}]
  BY DEF Connect, BindAccept, StartRelay, TypeOK
<1>4. UNCHANGED <<cfgVars, authVars, reqCmd, fqdn, dispatched, errCh, got,
                  clientGone, peerGone>>
  BY DEF Connect, BindAccept
<1> QED BY <1>1, <1>2, <1>3, <1>4 DEF TypeOK, cfgVars, authVars

LEMMA PeerDataTypeOK ==
    ASSUME TypeOK, PeerData
    PROVE  TypeOK'
<1>1. out' \in Seq(Frames) BY FrameKinds, AppendFrame DEF PeerData, TypeOK
<1>2. UNCHANGED <<cfgVars, pc, authVars, reqCmd, fqdn, dispatched, relayVars>>
  BY DEF PeerData
<1> QED BY <1>1, <1>2 DEF TypeOK, cfgVars, authVars, relayVars

LEMMA HangupTypeOK ==
    ASSUME TypeOK, ClientHangup \/ PeerHangup
    PROVE  TypeOK'
<1>1. clientGone' \in BOOLEAN /\ peerGone' \in BOOLEAN
  BY Zenon DEF ClientHangup, PeerHangup, TypeOK
<1>2. UNCHANGED <<cfgVars, pc, out, authVars, reqCmd, fqdn, dispatched, px, errCh, got>>
  BY DEF ClientHangup, PeerHangup
<1> QED BY <1>1, <1>2 DEF TypeOK, cfgVars, authVars

LEMMA ProxyTypeOK ==
    ASSUME TypeOK, NEW i \in 1..2, ProxyEof(i) \/ ProxyError(i) \/ ProxySend(i)
    PROVE  TypeOK'
<1>1. px' \in [1..2 -> {"idle", "copying", "eof", "err", "done"}]
  BY DEF ProxyEof, ProxyError, ProxySend, TypeOK
<1>2. errCh' \in Seq({"nil", "err"}) /\ Len(errCh') <= 2
  <2>1. CASE ProxyEof(i) \/ ProxyError(i)
    BY <2>1 DEF ProxyEof, ProxyError, TypeOK
  <2>2. CASE ProxySend(i)
    BY <2>2 DEF ProxySend, TypeOK, ErrChCap
  <2>. QED
    BY <2>1, <2>2
<1>3. UNCHANGED <<cfgVars, pc, out, authVars, reqCmd, fqdn, dispatched, got,
                  clientGone, peerGone>>
  BY DEF ProxyEof, ProxyError, ProxySend
<1> QED BY <1>1, <1>2, <1>3 DEF TypeOK, cfgVars, authVars

LEMMA RelayWaitTypeOK ==
    ASSUME TypeOK, RelayWait
    PROVE  TypeOK'
<1>1. errCh' \in Seq({"nil", "err"}) /\ Len(errCh') <= 2 BY DEF RelayWait, TypeOK
<1>2. got' \in 0..1 /\ pc' \in PCs BY DEF RelayWait, TypeOK, Joins, PCs
<1>3. UNCHANGED <<cfgVars, out, authVars, reqCmd, fqdn, dispatched, px,
                  clientGone, peerGone>>
  BY DEF RelayWait
<1> QED BY <1>1, <1>2, <1>3 DEF TypeOK, cfgVars, authVars

LEMMA NextTypeOK ==
    ASSUME TypeOK, [Next]_vars
    PROVE  TypeOK'
<1>1. CASE UNCHANGED vars BY <1>1 DEF vars, TypeOK
<1> QED
  BY <1>1, PcStepTypeOK, NegotiateTypeOK, ReadUserPassTypeOK, ReadRequestTypeOK,
     ReplyStepTypeOK, ApplyPolicyTypeOK, StartStepTypeOK, PeerDataTypeOK,
     HangupTypeOK, ProxyTypeOK, RelayWaitTypeOK
  DEF Next

\* The type invariant: every frame written is a method selection, an RFC
\* 1929 status, a reply with a REP code of the spec, or relayed bytes; the
\* join channel never holds more than its two results.
THEOREM TypeCorrect == Spec => []TypeOK
<1>1. Init => TypeOK BY InitTypeOK
<1>2. TypeOK /\ [Next]_vars => TypeOK' BY NextTypeOK
<1> QED BY <1>1, <1>2, PTL DEF Spec

(***************************************************************************)
(* The inductive invariant.  PolicyInv records which checks have passed   *)
(* at each point of ServeConn; WireInv the exact frames written so far at *)
(* each point, which is what lets every write be matched with a step of   *)
(* SessionReplies.                                                         *)
(***************************************************************************)
IPOk == allowlist = AllowAll \/ ip \in allowlist
Authorized == /\ method \in authMethods
              /\ method = UserPassAuth => user \in DOMAIN Creds /\ Creds[user] = pass
Permitted(c) == /\ c = ConnectCommand => rules.connect
                /\ c = BindCommand => rules.bind
                /\ c = AssociateCommand => rules.associate

PolicyInv ==
    /\ pc \in {"version", "methods", "userpass", "request", "policy"} => IPOk
    /\ pc = "userpass" => method = UserPassAuth /\ UserPassAuth \in authMethods
    /\ pc \in {"request", "policy"} => Authorized
    /\ pc \in {"accepted", "version", "methods", "userpass", "request", "policy"}
         => dispatched = NoCmd
    /\ dispatched # NoCmd => IPOk /\ Authorized /\ Permitted(dispatched)

M0 == Method(NoAuth)
M2 == Method(UserPassAuth)
A0 == AuthStatus(0)
R0 == Reply(SuccessReply)
P2 == Append(<<M2>>, A0)
\* The wires of an authenticated client, then after one and two replies.
Prefixes == {<<M0>>, P2}
OneReply == {Append(w, R0) : w \in Prefixes}
TwoReplies == {Append(w, R0) : w \in OneReply}
\* The replies a relayed command has been answered with.
Answered(c) == IF c = BindCommand THEN TwoReplies ELSE OneReply

WireInv ==
    /\ pc \in {"accepted", "version", "methods"} => out = <<>>
    /\ pc = "userpass" => out = <<M2>>
    /\ pc \in {"request", "policy", "connect", "bind", "associate"} => out \in Prefixes
    /\ pc = "accept" => out \in OneReply
    /\ pc = "relay" => \/ out \in Answered(reqCmd)
                      \/ \E q \in Answered(reqCmd) : out = Append(q, Data)
    /\ pc \in {"accepted", "version", "methods", "userpass", "request"} => reqCmd = NoCmd
    /\ pc \in {"policy", "connect", "bind", "associate", "accept", "relay"}
         => reqCmd \in Commands
    /\ pc = "connect" => reqCmd = ConnectCommand
    /\ pc \in {"bind", "accept"} => reqCmd = BindCommand
    /\ pc = "relay" => reqCmd \in {ConnectCommand, BindCommand}

SInv == TypeOK /\ PolicyInv /\ WireInv

LEMMA InitSInv == Init => SInv
<1> SUFFICES ASSUME Init PROVE SInv OBVIOUS
<1>1. TypeOK BY InitTypeOK
<1>2. PolicyInv BY DEF Init, PolicyInv
<1>3. WireInv BY DEF Init, WireInv
<1> QED BY <1>1, <1>2, <1>3 DEF SInv

\* What SessionReplies' guards say of the wires WireInv allows.
LEMMA FrameDistinct ==
    /\ M0 # M2 /\ R0 # Data /\ M0 # R0 /\ M2 # R0 /\ A0 # R0
    /\ \A r \in 0..8 : Reply(r) = R0 <=> r = 0
BY DEF M0, M2, A0, R0, Method, AuthStatus, Reply, Data, R!Method, R!AuthStatus,
       R!Reply, R!Data, NoAuth, UserPassAuth, SuccessReply

LEMMA FrameNames ==
    /\ R!Method(R!NoAuth) = M0 /\ R!Method(R!UserPassAuth) = M2
    /\ R!AuthStatus(0) = A0 /\ R!Reply(R!SuccessReply) = R0
    /\ {M0, M2, A0, R0, Data} \subseteq Frames
<1>1. /\ R!Method(R!NoAuth) = M0 /\ R!Method(R!UserPassAuth) = M2
      /\ R!AuthStatus(0) = A0 /\ R!Reply(R!SuccessReply) = R0
  BY DEF M0, M2, A0, R0, Method, AuthStatus, Reply, NoAuth, UserPassAuth, SuccessReply,
         R!NoAuth, R!UserPassAuth, R!SuccessReply
<1>2. {M0, M2, A0, R0, Data} \subseteq Frames
  BY FrameKinds DEF M0, M2, A0, R0, NoAuth, UserPassAuth, NoAcceptable, SuccessReply
<1> QED BY <1>1, <1>2

LEMMA PrefixGuards ==
    ASSUME NEW w \in Prefixes
    PROVE  /\ w \in Seq(Frames) /\ Len(w) \in {1, 2}
           /\ R!Authenticated(w) /\ R!NReplies(w) = 0 /\ R!AllSucceeded(w)
<1>1. CASE w = <<M0>>
  BY <1>1, FrameNames, FrameDistinct
  DEF R!Authenticated, R!NReplies, R!AllSucceeded, R!AuthLen
<1>2. CASE w = P2
  <2>1. <<M2>> \in Seq(Frames) /\ A0 \in Frames BY FrameNames
  <2>2. w \in Seq(Frames) /\ Len(w) = 2 /\ w[1] = M2 /\ w[2] = A0
    BY <1>2, <2>1, AppendProperties DEF P2
  <2> QED BY <2>2, FrameNames, FrameDistinct
    DEF R!Authenticated, R!NReplies, R!AllSucceeded, R!AuthLen
<1> QED BY <1>1, <1>2 DEF Prefixes

\* A success reply keeps the client authenticated and every reply a success.
LEMMA ExtendGuards ==
    ASSUME NEW w \in Seq(Frames), Len(w) >= 1, NEW n \in Nat,
           R!Authenticated(w), R!AllSucceeded(w), R!NReplies(w) = n
    PROVE  LET v == Append(w, R0) IN
           /\ v \in Seq(Frames) /\ Len(v) = Len(w) + 1
           /\ R!Authenticated(v) /\ R!AllSucceeded(v) /\ R!NReplies(v) = n + 1
<1> DEFINE v == Append(w, R0)
<1>1. /\ v \in Seq(Frames) /\ Len(v) = Len(w) + 1
      /\ \A i \in 1..Len(w) : v[i] = w[i]
      /\ v[Len(w) + 1] = R0
  BY FrameNames, AppendProperties
<1>2. R!AuthLen(v) = R!AuthLen(w) /\ R!AuthLen(w) \in {1, 2}
  BY <1>1 DEF R!AuthLen
<1>3. R!Authenticated(v) BY <1>1 DEF R!Authenticated
<1>4. R!NReplies(v) = n + 1 BY <1>1, <1>2 DEF R!NReplies
<1>5. R!AllSucceeded(v)
  <2> SUFFICES ASSUME NEW i \in R!AuthLen(v) + 1 .. Len(v)
               PROVE  v[i] = R!Reply(R!SuccessReply)
    BY DEF R!AllSucceeded
  <2>1. CASE i <= Len(w) BY <1>1, <1>2, <2>1 DEF R!AllSucceeded
  <2>2. CASE i = Len(w) + 1 BY <1>1, <2>2, FrameNames
  <2> QED BY <1>1, <1>2, <2>1, <2>2
<1> QED BY <1>1, <1>3, <1>4, <1>5

LEMMA OneReplyGuards ==
    ASSUME NEW w \in OneReply
    PROVE  /\ w \in Seq(Frames) /\ Len(w) >= 1
           /\ R!Authenticated(w) /\ R!NReplies(w) = 1 /\ R!AllSucceeded(w)
<1>1. PICK p \in Prefixes : w = Append(p, R0) BY DEF OneReply
<1> QED BY <1>1, PrefixGuards, ExtendGuards

LEMMA TwoRepliesGuards ==
    ASSUME NEW w \in TwoReplies
    PROVE  /\ w \in Seq(Frames) /\ Len(w) >= 1
           /\ R!Authenticated(w) /\ R!NReplies(w) = 2 /\ R!AllSucceeded(w)
<1>1. PICK q \in OneReply : w = Append(q, R0) BY DEF TwoReplies
<1> QED BY <1>1, OneReplyGuards, ExtendGuards

\* What every step must establish besides the type invariant: the two
\* invariants, and a SessionReplies step (or a stutter) for the frames.
StepOK == PolicyInv' /\ WireInv' /\ [R!Next]_<<out, reqCmd>>

\* Steps that write nothing and keep every variable the invariants read,
\* apart from pc moving to a point without constraints.
LEMMA QuietStep ==
    ASSUME SInv,
           UNCHANGED <<cfgVars, out, authVars, reqCmd, dispatched>>,
           pc' = pc \/ pc' \in {"done", "udp"}
    PROVE  StepOK
<1>1. PolicyInv' BY DEF SInv, PolicyInv, IPOk, Authorized, Permitted, cfgVars, authVars
<1>2. WireInv' BY DEF SInv, WireInv
<1> QED BY <1>1, <1>2 DEF StepOK

LEMMA CheckIPStep ==
    ASSUME SInv, CheckIP
    PROVE  StepOK
<1>1. CASE IPAllowed(allowlist, ip)
  <2>1. pc' = "version" /\ IPOk BY <1>1 DEF CheckIP, IPAllowed, IPOk
  <2>2. UNCHANGED <<cfgVars, out, authVars, reqCmd, dispatched>> BY DEF CheckIP
  <2>3. PolicyInv' BY <2>1, <2>2 DEF SInv, PolicyInv, IPOk, cfgVars, CheckIP
  <2>4. WireInv' BY <2>1, <2>2 DEF SInv, WireInv, CheckIP
  <2> QED BY <2>2, <2>3, <2>4 DEF StepOK
<1>2. CASE ~IPAllowed(allowlist, ip)
  BY <1>2, QuietStep DEF CheckIP
<1> QED BY <1>1, <1>2

LEMMA ReadVersionStep ==
    ASSUME SInv, ReadVersion
    PROVE  StepOK
<1>1. CASE pc' = "methods"
  <2>1. pc = "version" /\ UNCHANGED <<cfgVars, out, authVars, reqCmd, dispatched>>
    BY DEF ReadVersion
  <2>2. PolicyInv' BY <1>1, <2>1 DEF SInv, PolicyInv, IPOk, cfgVars
  <2>3. WireInv' BY <1>1, <2>1 DEF SInv, WireInv
  <2> QED BY <2>1, <2>2, <2>3 DEF StepOK
<1>2. CASE pc' # "methods"
  <2>1. pc' = "done" BY <1>2 DEF ReadVersion
  <2> QED BY <2>1, QuietStep DEF ReadVersion
<1> QED BY <1>1, <1>2

LEMMA QuietActions ==
    ASSUME SInv,
           \/ ReadFail \/ AssociateEnd \/ RelayWait \/ ClientHangup \/ PeerHangup
           \/ \E i \in 1..2 : ProxyEof(i) \/ ProxyError(i) \/ ProxySend(i)
    PROVE  StepOK
<1>1. UNCHANGED <<cfgVars, out, authVars, reqCmd, dispatched>>
  BY DEF ReadFail, AssociateEnd, RelayWait, ClientHangup, PeerHangup, ProxyEof,
         ProxyError, ProxySend
<1>2. pc' = pc \/ pc' \in {"done", "udp"}
  BY DEF ReadFail, AssociateEnd, RelayWait, ClientHangup, PeerHangup, ProxyEof,
         ProxyError, ProxySend
<1> QED BY <1>1, <1>2, QuietStep

LEMMA NegotiateStep ==
    ASSUME SInv, Negotiate
    PROVE  StepOK
<1>1. PICK ms \in MethodOffers :
         LET m == SelectMethod(ms, authMethods) IN
         /\ offered' = ms /\ method' = m
         /\ out' = <<Method(m)>>
         /\ pc' = CASE m = NoAuth -> "request"
                    [] m = UserPassAuth -> "userpass"
                    [] OTHER -> "done"
  BY DEF Negotiate
<1> DEFINE m == SelectMethod(ms, authMethods)
<1>2. m \in authMethods \cup {NoAcceptable} /\ authMethods \subseteq {NoAuth, UserPassAuth}
  BY SelectMethodType DEF SInv, TypeOK
<1>3. /\ pc = "methods" /\ out = <<>> /\ reqCmd = NoCmd /\ dispatched = NoCmd /\ IPOk
      /\ UNCHANGED <<cfgVars, user, pass, reqCmd, dispatched>>
  BY DEF Negotiate, SInv, WireInv, PolicyInv
<1>4. [R!Next]_<<out, reqCmd>>
  <2>1. m \in {R!NoAuth, R!UserPassAuth, R!NoAcceptable}
    BY <1>2 DEF NoAuth, UserPassAuth, NoAcceptable, R!NoAuth, R!UserPassAuth, R!NoAcceptable
  <2>2. out' = <<R!Method(m)>> BY <1>1 DEF Method
  <2>3. R!SendMethod BY <1>3, <2>1, <2>2 DEF R!SendMethod
  <2> QED BY <2>3 DEF R!Next
<1>5. CASE m = NoAuth
  <2>1. pc' = "request" /\ out' = <<M0>> /\ method' = NoAuth
    BY <1>1, <1>5 DEF M0, NoAuth, UserPassAuth
  <2>2. NoAuth \in authMethods BY <1>2, <1>5 DEF NoAuth, NoAcceptable
  <2>5. Authorized' BY <1>3, <2>1, <2>2 DEF Authorized, cfgVars, NoAuth, UserPassAuth
  <2>3. PolicyInv' BY <1>3, <2>1, <2>5 DEF PolicyInv, IPOk, cfgVars
  <2>4. WireInv' BY <1>3, <2>1 DEF WireInv, Prefixes
  <2> QED BY <1>4, <2>3, <2>4 DEF StepOK
<1>6. CASE m = UserPassAuth
  <2>1. pc' = "userpass" /\ out' = <<M2>> /\ method' = UserPassAuth
    BY <1>1, <1>6 DEF M2, NoAuth, UserPassAuth
  <2>2. UserPassAuth \in authMethods BY <1>2, <1>6 DEF NoAcceptable, UserPassAuth
  <2>3. PolicyInv' BY <1>3, <2>1, <2>2 DEF PolicyInv, IPOk, cfgVars
  <2>4. WireInv' BY <1>3, <2>1 DEF WireInv
  <2> QED BY <1>4, <2>3, <2>4 DEF StepOK
<1>7. CASE m # NoAuth /\ m # UserPassAuth
  <2>1. pc' = "done" BY <1>1, <1>7, Zenon
  <2>2. PolicyInv' BY <1>3, <2>1 DEF PolicyInv
  <2>3. WireInv' BY <1>3, <2>1 DEF WireInv
  <2> QED BY <1>4, <2>2, <2>3 DEF StepOK
<1> QED BY <1>5, <1>6, <1>7

LEMMA ReadUserPassStep ==
    ASSUME SInv, ReadUserPass
    PROVE  StepOK
<1>1. PICK ver \in {0, 1}, u \in Users, p \in Passwords :
         IF ver # 1
         THEN pc' = "done" /\ UNCHANGED <<out, user, pass>>
         ELSE /\ user' = u /\ pass' = p
              /\ out' = Append(out, AuthStatus(IF Valid(u, p) THEN 0 ELSE 1))
              /\ pc' = IF Valid(u, p) THEN "request" ELSE "done"
  BY DEF ReadUserPass
<1>2. /\ pc = "userpass" /\ out = <<M2>> /\ reqCmd = NoCmd /\ dispatched = NoCmd
      /\ IPOk /\ method = UserPassAuth /\ UserPassAuth \in authMethods
      /\ UNCHANGED <<cfgVars, offered, method, reqCmd, dispatched>>
  BY DEF ReadUserPass, SInv, WireInv, PolicyInv
<1>3. CASE ver # 1
  BY <1>1, <1>3, QuietStep DEF ReadUserPass, authVars
<1>4. CASE ver = 1
  <2> DEFINE st == IF Valid(u, p) THEN 0 ELSE 1
  <2>1. out' = Append(out, AuthStatus(st)) /\ user' = u /\ pass' = p
        /\ pc' = IF Valid(u, p) THEN "request" ELSE "done"
    BY <1>1, <1>4
  <2>2. [R!Next]_<<out, reqCmd>>
    <3>1. out = <<R!Method(R!UserPassAuth)>> BY <1>2 DEF M2, Method, UserPassAuth, R!UserPassAuth
    <3>2. out' = Append(out, R!AuthStatus(st)) /\ st \in {0, 1} BY <2>1 DEF AuthStatus
    <3>3. R!SendAuthStatus BY <1>2, <3>1, <3>2 DEF R!SendAuthStatus
    <3> QED BY <3>3 DEF R!Next
  <2>3. CASE Valid(u, p)
    <3>1. pc' = "request" /\ out' = P2 BY <1>2, <2>1, <2>3 DEF P2, A0
    <3>2. Authorized' BY <1>2, <2>1, <2>3 DEF Authorized, Valid, cfgVars
    <3>3. PolicyInv' BY <1>2, <3>1, <3>2 DEF PolicyInv, IPOk, cfgVars
    <3>4. WireInv' BY <1>2, <3>1 DEF WireInv, Prefixes
    <3> QED BY <2>2, <3>3, <3>4 DEF StepOK
  <2>4. CASE ~Valid(u, p)
    <3>1. pc' = "done" BY <2>1, <2>4
    <3>2. PolicyInv' BY <1>2, <3>1 DEF PolicyInv
    <3>3. WireInv' BY <1>2, <3>1 DEF WireInv
    <3> QED BY <2>2, <3>2, <3>3 DEF StepOK
  <2> QED BY <2>3, <2>4
<1> QED BY <1>3, <1>4

\* A reply appended to a wire whose guards hold is a SendReply step.
LEMMA SendReplyStep ==
    ASSUME NEW w \in Seq(Frames), R!Authenticated(w), R!AllSucceeded(w),
           NEW c, NEW r,
           R!NReplies(w) < IF c = NoCmd THEN 1 ELSE R!Quota(c),
           r \in IF c = NoCmd THEN {R!AddrTypeNotSupported} ELSE 0..8,
           out = w, out' = Append(w, Reply(r)), reqCmd = c, reqCmd' = c
    PROVE  R!SendReply
BY Zenon DEF R!SendReply, Reply

LEMMA QuotaRange == \A c : R!Quota(c) \in {1, 2}
BY DEF R!Quota

LEMMA ReadRequestStep ==
    ASSUME SInv, ReadRequest
    PROVE  StepOK
<1>1. PICK ver \in {4, 5}, c \in Commands, atyp \in {1, 3, 5} :
         IF ver # 5 THEN pc' = "done" /\ UNCHANGED <<out, reqCmd, fqdn>>
         ELSE IF atyp \notin {1, 3, 4}
         THEN /\ out' = Append(out, Reply(AddrTypeNotSupported))
              /\ pc' = "done" /\ UNCHANGED <<reqCmd, fqdn>>
         ELSE /\ reqCmd' = c /\ fqdn' = (atyp = 3)
              /\ pc' = "policy" /\ UNCHANGED out
  BY DEF ReadRequest
<1>2. /\ pc = "request" /\ out \in Prefixes /\ reqCmd = NoCmd /\ dispatched = NoCmd
      /\ IPOk /\ Authorized
      /\ UNCHANGED <<cfgVars, authVars, dispatched>>
  BY DEF ReadRequest, SInv, WireInv, PolicyInv
<1>3. CASE ver # 5
  BY <1>1, <1>2, <1>3, QuietStep
<1>4. CASE ver = 5 /\ atyp \notin {1, 3, 4}
  <2>1. out' = Append(out, Reply(AddrTypeNotSupported)) /\ pc' = "done"
        /\ UNCHANGED reqCmd
    BY <1>1, <1>4
  <2>2. R!SendReply
    BY <1>2, <2>1, PrefixGuards, SendReplyStep
    DEF AddrTypeNotSupported, R!AddrTypeNotSupported
  <2>3. PolicyInv' /\ WireInv' BY <1>2, <2>1 DEF PolicyInv, WireInv
  <2> QED BY <2>2, <2>3 DEF StepOK, R!Next
<1>5. CASE ver = 5 /\ atyp \in {1, 3, 4}
  <2>1. reqCmd' = c /\ pc' = "policy" /\ UNCHANGED out BY <1>1, <1>5
  <2>2. R!ParseRequest BY <1>2, <2>1, PrefixGuards DEF R!ParseRequest
  <2>3. PolicyInv'
    BY <1>2, <2>1 DEF PolicyInv, IPOk, Authorized, cfgVars, authVars
  <2>4. WireInv' BY <1>2, <2>1 DEF WireInv
  <2> QED BY <2>2, <2>3, <2>4 DEF StepOK, R!Next
<1> QED BY <1>3, <1>4, <1>5

LEMMA ResolveFailStep ==
    ASSUME SInv, ResolveFail
    PROVE  StepOK
<1>1. /\ pc = "policy" /\ out \in Prefixes /\ reqCmd \in Commands
      /\ out' = Append(out, Reply(HostUnreachable)) /\ pc' = "done"
      /\ UNCHANGED <<reqCmd, dispatched, cfgVars, authVars>>
  BY DEF ResolveFail, SInv, WireInv
<1>2. R!SendReply
  <2>1. reqCmd # NoCmd BY <1>1, SessionAssumption
  <2> QED BY <1>1, <2>1, PrefixGuards, QuotaRange, SendReplyStep DEF HostUnreachable
<1>3. PolicyInv' /\ WireInv' BY <1>1 DEF SInv, PolicyInv, WireInv, IPOk, Authorized, cfgVars, authVars
<1> QED BY <1>2, <1>3 DEF StepOK, R!Next

LEMMA ApplyPolicyStep ==
    ASSUME SInv, ApplyPolicy
    PROVE  StepOK
<1>1. /\ pc = "policy" /\ out \in Prefixes /\ reqCmd \in Commands /\ reqCmd # NoCmd
      /\ IPOk /\ Authorized
      /\ UNCHANGED <<reqCmd, cfgVars, authVars>>
  BY SessionAssumption DEF ApplyPolicy, SInv, WireInv, PolicyInv
<1>2. CASE ~Allow(rules, reqCmd) \/ reqCmd \notin DOMAIN Handler
  <2>1. \E r \in {RuleFailure, CommandNotSupported} : out' = Append(out, Reply(r))
    BY <1>2 DEF ApplyPolicy
  <2>2. pc' = "done" /\ UNCHANGED dispatched BY <1>2 DEF ApplyPolicy
  <2>3. R!SendReply
    BY <1>1, <2>1, PrefixGuards, QuotaRange, SendReplyStep
    DEF RuleFailure, CommandNotSupported
  <2>4. PolicyInv' /\ WireInv'
    BY <1>1, <2>2 DEF SInv, PolicyInv, WireInv, IPOk, Authorized, cfgVars, authVars
  <2> QED BY <2>3, <2>4 DEF StepOK, R!Next
<1>3. CASE Allow(rules, reqCmd) /\ reqCmd \in DOMAIN Handler
  <2>1. dispatched' = reqCmd /\ pc' = Handler[reqCmd] /\ UNCHANGED out
    BY <1>3 DEF ApplyPolicy
  <2>2. Permitted(reqCmd) BY <1>3 DEF Allow, Permitted, ConnectCommand, BindCommand, AssociateCommand
  <2>3. /\ reqCmd = ConnectCommand => pc' = "connect"
        /\ reqCmd = BindCommand => pc' = "bind"
        /\ reqCmd \notin {ConnectCommand, BindCommand} => pc' = "associate"
        /\ pc' \in {"connect", "bind", "associate"}
    BY <1>3, <2>1 DEF Handler, ConnectCommand, BindCommand, AssociateCommand
  <2>4. PolicyInv'
    BY <1>1, <2>1, <2>2, <2>3 DEF PolicyInv, IPOk, Authorized, Permitted, cfgVars, authVars
  <2>5. WireInv' BY <1>1, <2>1, <2>3 DEF WireInv
  <2> QED BY <1>1, <2>1, <2>4, <2>5 DEF StepOK
<1> QED BY <1>2, <1>3

LEMMA ConnectStep ==
    ASSUME SInv, Connect
    PROVE  StepOK
<1>1. /\ pc = "connect" /\ out \in Prefixes /\ reqCmd = ConnectCommand
      /\ reqCmd \in Commands /\ reqCmd # NoCmd
      /\ UNCHANGED <<reqCmd, dispatched, cfgVars, authVars>>
  BY SessionAssumption DEF Connect, SInv, WireInv
<1>2. CASE out' = Append(out, Reply(SuccessReply)) /\ pc' = "relay"
  <2>1. R!SendReply BY <1>1, <1>2, PrefixGuards, QuotaRange, SendReplyStep DEF SuccessReply
  <2>2. out' \in Answered(reqCmd) BY <1>1, <1>2 DEF Answered, OneReply, R0, ConnectCommand, BindCommand
  <2>3. PolicyInv' /\ WireInv'
    BY <1>1, <1>2, <2>2 DEF SInv, PolicyInv, WireInv, IPOk, Authorized, Permitted, cfgVars, authVars
  <2> QED BY <2>1, <2>3 DEF StepOK, R!Next
<1>3. CASE ~(out' = Append(out, Reply(SuccessReply)) /\ pc' = "relay")
  <2>1. PICK r \in DialFailures : out' = Append(out, Reply(r)) /\ pc' = "done"
    BY <1>3 DEF Connect
  <2>2. R!SendReply BY <1>1, <2>1, PrefixGuards, QuotaRange, SendReplyStep DEF DialFailures
  <2>3. PolicyInv' /\ WireInv'
    BY <1>1, <2>1 DEF SInv, PolicyInv, WireInv, IPOk, Authorized, Permitted, cfgVars, authVars
  <2> QED BY <2>2, <2>3 DEF StepOK, R!Next
<1> QED BY <1>2, <1>3

LEMMA BindListenStep ==
    ASSUME SInv, BindListen
    PROVE  StepOK
<1>1. /\ pc = "bind" /\ out \in Prefixes /\ reqCmd = BindCommand
      /\ reqCmd \in Commands /\ reqCmd # NoCmd
      /\ UNCHANGED <<reqCmd, dispatched, cfgVars, authVars>>
  BY SessionAssumption DEF BindListen, SInv, WireInv
<1>2. PICK ok \in BOOLEAN :
         /\ out' = Append(out, Reply(IF ok THEN SuccessReply ELSE ServerFailure))
         /\ pc' = IF ok THEN "accept" ELSE "done"
  BY DEF BindListen
<1>3. R!SendReply
  <2>1. (IF ok THEN SuccessReply ELSE ServerFailure) \in 0..8
    BY DEF SuccessReply, ServerFailure
  <2> QED BY <1>1, <1>2, <2>1, PrefixGuards, QuotaRange, SendReplyStep
<1>4. ok => out' \in OneReply BY <1>1, <1>2 DEF OneReply, R0
<1>5. PolicyInv' /\ WireInv'
  BY <1>1, <1>2, <1>4 DEF SInv, PolicyInv, WireInv, IPOk, Authorized, Permitted, cfgVars, authVars
<1> QED BY <1>3, <1>5 DEF StepOK, R!Next

LEMMA BindAcceptStep ==
    ASSUME SInv, BindAccept
    PROVE  StepOK
<1>1. /\ pc = "accept" /\ out \in OneReply /\ reqCmd = BindCommand
      /\ reqCmd \in Commands /\ reqCmd # NoCmd
      /\ UNCHANGED <<reqCmd, dispatched, cfgVars, authVars>>
  BY SessionAssumption DEF BindAccept, SInv, WireInv
<1>2. R!Quota(reqCmd) = 2 BY <1>1 DEF R!Quota, BindCommand, R!BindCommand
<1>3. CASE out' = Append(out, Reply(SuccessReply)) /\ pc' = "relay"
  <2>1. R!SendReply BY <1>1, <1>2, <1>3, OneReplyGuards, SendReplyStep DEF SuccessReply
  <2>2. out' \in Answered(reqCmd) BY <1>1, <1>3 DEF Answered, TwoReplies, R0
  <2>3. PolicyInv' /\ WireInv'
    BY <1>1, <1>3, <2>2 DEF SInv, PolicyInv, WireInv, IPOk, Authorized, Permitted, cfgVars, authVars
  <2> QED BY <2>1, <2>3 DEF StepOK, R!Next
<1>4. CASE ~(out' = Append(out, Reply(SuccessReply)) /\ pc' = "relay")
  <2>1. out' = Append(out, Reply(ServerFailure)) /\ pc' = "done" BY <1>4 DEF BindAccept
  <2>2. R!SendReply BY <1>1, <1>2, <2>1, OneReplyGuards, SendReplyStep DEF ServerFailure
  <2>3. PolicyInv' /\ WireInv'
    BY <1>1, <2>1 DEF SInv, PolicyInv, WireInv, IPOk, Authorized, Permitted, cfgVars, authVars
  <2> QED BY <2>2, <2>3 DEF StepOK, R!Next
<1> QED BY <1>3, <1>4

LEMMA AssociateSetupStep ==
    ASSUME SInv, AssociateSetup
    PROVE  StepOK
<1>1. /\ pc = "associate" /\ out \in Prefixes /\ reqCmd \in Commands /\ reqCmd # NoCmd
      /\ UNCHANGED <<reqCmd, dispatched, cfgVars, authVars>>
      /\ pc' \in {"udp", "done"}
  BY SessionAssumption DEF AssociateSetup, SInv, WireInv
<1>2. PolicyInv' /\ WireInv'
  BY <1>1 DEF SInv, PolicyInv, WireInv, IPOk, Authorized, Permitted, cfgVars, authVars
<1>3. CASE out' = Append(out, Reply(SuccessReply))
  <2>1. R!SendReply BY <1>1, <1>3, PrefixGuards, QuotaRange, SendReplyStep DEF SuccessReply
  <2> QED BY <1>2, <2>1 DEF StepOK, R!Next
<1>4. CASE out' # Append(out, Reply(SuccessReply))
  <2>1. UNCHANGED out BY <1>4 DEF AssociateSetup
  <2> QED BY <1>1, <1>2, <2>1 DEF StepOK
<1> QED BY <1>3, <1>4

LEMMA PeerDataStep ==
    ASSUME SInv, PeerData
    PROVE  StepOK
<1>1. /\ pc = "relay" /\ reqCmd \in {ConnectCommand, BindCommand} /\ reqCmd \in Commands
      /\ reqCmd # NoCmd /\ out[Len(out)] # Data /\ out' = Append(out, Data)
      /\ UNCHANGED <<pc, reqCmd, dispatched, cfgVars, authVars>>
      /\ \/ out \in Answered(reqCmd)
         \/ \E q \in Answered(reqCmd) : out = Append(q, Data)
  BY SessionAssumption DEF PeerData, SInv, WireInv
<1>2. out \in Answered(reqCmd)
  <2>1. SUFFICES ASSUME NEW q \in Answered(reqCmd), out = Append(q, Data) PROVE FALSE
    BY <1>1
  <2>2. q \in Seq(Frames) BY OneReplyGuards, TwoRepliesGuards DEF Answered
  <2>3. out[Len(out)] = Data BY <2>1, <2>2, FrameNames, AppendProperties
  <2> QED BY <1>1, <2>3
<1>3. R!SendData
  <2>1. CASE reqCmd = BindCommand
    <3>1. out \in TwoReplies /\ R!Quota(reqCmd) = 2
      BY <1>2, <2>1 DEF Answered, R!Quota, BindCommand, R!BindCommand
    <3> QED BY <1>1, <3>1, TwoRepliesGuards DEF R!SendData, Data
  <2>2. CASE reqCmd # BindCommand
    <3>1. out \in OneReply /\ R!Quota(reqCmd) = 1
      BY <1>2, <2>2 DEF Answered, R!Quota, BindCommand, R!BindCommand
    <3> QED BY <1>1, <3>1, OneReplyGuards DEF R!SendData, Data
  <2> QED BY <2>1, <2>2
<1>4. PolicyInv' /\ WireInv'
  BY <1>1, <1>2 DEF SInv, PolicyInv, WireInv, IPOk, Authorized, Permitted, cfgVars, authVars
<1> QED BY <1>3, <1>4 DEF StepOK, R!Next

\* SInv is inductive, and every step of the session writes frames the way
\* SessionReplies allows (or leaves out and reqCmd alone).
LEMMA NextSInv ==
    ASSUME SInv, [Next]_vars
    PROVE  SInv' /\ [R!Next]_<<out, reqCmd>>
<1>1. TypeOK' BY NextTypeOK DEF SInv
<1>2. StepOK
  <2>1. CASE UNCHANGED vars BY <2>1, QuietStep DEF vars, cfgVars, authVars, relayVars
  <2>2. CASE CheckIP BY <2>2, CheckIPStep
  <2>3. CASE ReadVersion BY <2>3, ReadVersionStep
  <2>4. CASE Negotiate BY <2>4, NegotiateStep
  <2>5. CASE ReadUserPass BY <2>5, ReadUserPassStep
  <2>6. CASE ReadRequest BY <2>6, ReadRequestStep
  <2>7. CASE ResolveFail BY <2>7, ResolveFailStep
  <2>8. CASE ApplyPolicy BY <2>8, ApplyPolicyStep
  <2>9. CASE Connect BY <2>9, ConnectStep
  <2>10. CASE BindListen BY <2>10, BindListenStep
  <2>11. CASE BindAccept BY <2>11, BindAcceptStep
  <2>12. CASE AssociateSetup BY <2>12, AssociateSetupStep
  <2>13. CASE PeerData BY <2>13, PeerDataStep
  <2>14. CASE \/ ReadFail \/ AssociateEnd \/ RelayWait \/ ClientHangup \/ PeerHangup
              \/ \E i \in 1..2 : ProxyEof(i) \/ ProxyError(i) \/ ProxySend(i)
    BY <2>14, QuietActions
  <2> QED BY <2>1, <2>2, <2>3, <2>4, <2>5, <2>6, <2>7, <2>8, <2>9, <2>10,
             <2>11, <2>12, <2>13, <2>14 DEF Next
<1> QED BY <1>1, <1>2 DEF SInv, StepOK

\* ServeConn only hands a request to a handler (handleConnect, handleBind,
\* handleAssociate) for a client whose IP passed the allowlist, that
\* authenticated with a method the server registered (with valid
\* credentials for user/password), and whose command the rule set permits.
THEOREM AuthorizedDispatchHolds == Spec => []AuthorizedDispatch
<1>1. SInv => AuthorizedDispatch
  BY DEF SInv, PolicyInv, IPOk, Authorized, Permitted, AuthorizedDispatch
<1>2. SInv /\ [Next]_vars => SInv' BY NextSInv
<1> QED BY <1>1, <1>2, InitSInv, PTL DEF Spec

\* The frames ServeConn writes on the control connection (method reply,
\* RFC 1929 status, SOCKS replies, relayed bytes) follow the protocol
\* order of SessionReplies: the session implements that specification.
THEOREM ReplyOrderRefinement == Spec => ReplyOrder
<1>1. Init => R!Init BY DEF Init, R!Init
<1>2. SInv /\ [Next]_vars => SInv' /\ [R!Next]_<<out, reqCmd>> BY NextSInv
<1> QED BY <1>1, <1>2, InitSInv, PTL DEF Spec, ReplyOrder, R!Spec, R!vars

(***************************************************************************)
(* New's default.  The Config given to New never changes, and neither do  *)
(* the methods New registered from it; with the AuthMethods left empty and *)
(* Credentials set that is user/password alone, so the method a dispatched *)
(* request was authorized under (PolicyInv) is user/password.              *)
(***************************************************************************)
ConfInv == authMethods = RegisteredMethods(conf.AuthMethods, conf.Credentials)

\* No step of ServeConn or its handlers changes the server's configuration.
LEMMA NextKeepsConfig ==
    ASSUME [Next]_vars
    PROVE  UNCHANGED <<conf, authMethods>>
<1>1. CASE UNCHANGED vars BY <1>1 DEF vars
<1>2. CASE \/ CheckIP \/ ReadVersion \/ ReadFail \/ Negotiate \/ ReadUserPass
           \/ ReadRequest \/ ResolveFail \/ ApplyPolicy
  BY <1>2 DEF CheckIP, ReadVersion, ReadFail, Negotiate, ReadUserPass, ReadRequest,
              ResolveFail, ApplyPolicy, cfgVars
<1>3. CASE \/ Connect \/ BindListen \/ BindAccept \/ AssociateSetup \/ AssociateEnd
           \/ PeerData \/ ClientHangup \/ PeerHangup \/ RelayWait
  BY <1>3 DEF Connect, BindListen, BindAccept, AssociateSetup, AssociateEnd, PeerData,
              ClientHangup, PeerHangup, RelayWait, cfgVars
<1>4. CASE \E i \in 1..2 : ProxyEof(i) \/ ProxyError(i) \/ ProxySend(i)
  BY <1>4 DEF ProxyEof, ProxyError, ProxySend, cfgVars
<1> QED BY <1>1, <1>2, <1>3, <1>4 DEF Next

\* Given no authenticators and a credential store, New registers only
\* user/password.
LEMMA DefaultIsUserPass ==
    ASSUME NEW hasCreds, hasCreds = TRUE
    PROVE  RegisteredMethods(<<>>, hasCreds) = {UserPassAuth}
BY DEF RegisteredMethods

\* On a server New gave its user/password default, every command handed to
\* handleConnect, handleBind or handleAssociate comes from a client that
\* negotiated user/password and whose pair StaticCredentials.Valid accepts.
THEOREM CredentialsEnforcedHolds == Spec => []CredentialsEnforced
<1>1. SInv /\ ConfInv => CredentialsEnforced
  <2> SUFFICES ASSUME SInv, ConfInv, dispatched # NoCmd,
                      conf.AuthMethods = <<>>, conf.Credentials = TRUE
               PROVE  method = UserPassAuth /\ Valid(user, pass)
    BY Zenon DEF CredentialsEnforced
  <2>1. authMethods = {UserPassAuth} BY DefaultIsUserPass DEF ConfInv
  <2>2. method \in authMethods
        /\ (method = UserPassAuth => user \in DOMAIN Creds /\ Creds[user] = pass)
    BY DEF SInv, PolicyInv, Authorized
  <2> QED BY <2>1, <2>2 DEF Valid
<1>2. Init => ConfInv BY DEF Init, ConfInv
<1>3. ConfInv /\ [Next]_vars => ConfInv' BY NextKeepsConfig DEF ConfInv
<1>4. SInv /\ [Next]_vars => SInv' BY NextSInv
<1> QED BY <1>1, <1>2, <1>3, <1>4, InitSInv, PTL DEF Spec
=============================================================================
