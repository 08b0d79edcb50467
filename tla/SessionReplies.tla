--------------------------- MODULE SessionReplies ---------------------------
(***************************************************************************)
(* What a SOCKS5 server promises about the bytes it writes on one control  *)
(* connection (spec sections 5, 7 and 8), with nothing about how it gets   *)
(* there: one method-selection reply; a sub-negotiation status only after  *)
(* the user/password method was chosen; SOCKS replies only once the        *)
(* client is authenticated, at most one per command (two for BIND) and     *)
(* none after a failure reply; relayed bytes only after every reply of the *)
(* command has reported success.  Frames abstract the byte strings:        *)
(* <<"method", m>>, <<"auth", status>>, <<"reply", rep>>, <<"data">>.      *)
(***************************************************************************)
EXTENDS Naturals, Sequences

CONSTANTS Commands,   \* CMD codes a request may carry
          NoCmd       \* no request parsed yet

NoAuth == 0
UserPassAuth == 2
NoAcceptable == 255
ConnectCommand == 1
BindCommand == 2
SuccessReply == 0
AddrTypeNotSupported == 8

Method(m) == <<"method", m>>
AuthStatus(s) == <<"auth", s>>
Reply(r) == <<"reply", r>>
Data == <<"data">>

VARIABLES wire,   \* the frames written so far, in order
          cmd     \* the command of the parsed request, or NoCmd

vars == <<wire, cmd>>

\* The client is authenticated once the chosen method's handshake succeeded.
Authenticated(w) ==
    \/ Len(w) >= 1 /\ w[1] = Method(NoAuth)
    \/ /\ Len(w) >= 2
       /\ w[1] = Method(UserPassAuth) /\ w[2] = AuthStatus(0)

\* Frames of the method negotiation; every later frame is a SOCKS reply,
\* until the first relayed byte (Data) marks the start of the relay.
AuthLen(w) == IF w[1] = Method(NoAuth) THEN 1 ELSE 2
NReplies(w) == Len(w) - AuthLen(w)
AllSucceeded(w) == \A i \in AuthLen(w) + 1 .. Len(w) : w[i] = Reply(SuccessReply)

\* How many replies a command is answered with (BIND: two stages).
Quota(c) == IF c = BindCommand THEN 2 ELSE 1

Init == wire = <<>> /\ cmd = NoCmd

SendMethod ==
    /\ wire = <<>>
    /\ \E m \in {NoAuth, UserPassAuth, NoAcceptable} : wire' = <<Method(m)>>
    /\ UNCHANGED cmd

SendAuthStatus ==
    /\ wire = <<Method(UserPassAuth)>>
    /\ \E s \in {0, 1} : wire' = Append(wire, AuthStatus(s))
    /\ UNCHANGED cmd

ParseRequest ==
    /\ Authenticated(wire) /\ cmd = NoCmd /\ NReplies(wire) = 0
    /\ \E c \in Commands : cmd' = c
    /\ UNCHANGED wire

\* Before a request parsed, only "address type not supported" is possible.
SendReply ==
    /\ Authenticated(wire)
    /\ AllSucceeded(wire)
    /\ NReplies(wire) < IF cmd = NoCmd THEN 1 ELSE Quota(cmd)
    /\ \E r \in IF cmd = NoCmd THEN {AddrTypeNotSupported} ELSE 0..8 :
          wire' = Append(wire, Reply(r))
    /\ UNCHANGED cmd

\* Data marks the first relayed byte; it is written once.
SendData ==
    /\ Authenticated(wire) /\ cmd # NoCmd
    /\ AllSucceeded(wire) /\ NReplies(wire) = Quota(cmd)
    /\ wire' = Append(wire, Data)
    /\ UNCHANGED cmd

Next == SendMethod \/ SendAuthStatus \/ ParseRequest \/ SendReply \/ SendData

Spec == Init /\ [][Next]_vars
=============================================================================
