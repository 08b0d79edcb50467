----------------------------- MODULE MCSession -----------------------------
(***************************************************************************)
(* Small server configurations for TLC: two client IPs, an allow-all or a  *)
(* one-address allowlist, three method configurations, one account, a     *)
(* permit-all and a CONNECT-only rule set.                                 *)
(***************************************************************************)
EXTENDS Session

CONSTANTS a1, a2

MCAllowlists == {AllowAll, {a1}}

\* Config.AuthMethods: empty (defaults apply), user/password only, both.
MCAuthConfigs == {<<>>, <<UserPassAuth>>, <<UserPassAuth, NoAuth>>}

\* Client method lists: none, no-auth, user/password first, GSSAPI first.
MCMethodOffers == {<<>>, <<NoAuth>>, <<UserPassAuth, NoAuth>>, <<1, NoAuth, UserPassAuth>>}

MCCreds == [u \in {"alice"} |-> "pw"]

MCRuleSets == {[connect |-> TRUE, bind |-> TRUE, associate |-> TRUE],
               [connect |-> TRUE, bind |-> FALSE, associate |-> FALSE]}
=============================================================================
