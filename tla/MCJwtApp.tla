------------------------------- MODULE MCJwtApp -------------------------------
(***************************************************************************)
(* Three keys, so that a second rotation meets what the first one left,    *)
(* two requests at a time, and an environment of each kind.                *)
(***************************************************************************)
EXTENDS JwtApp

CONSTANTS k1, k2, k3, q1, q2

MCKey == {k1, k2, k3}
MCRequest == {q1, q2}

Started(proxy, insecure, port, cert) ==
  [proxy |-> proxy, insecure |-> insecure, port |-> port, cert |-> cert]

MCEnv == {
  Started("https", "unset", "free", "valid"),
  Started("bare", "1", "free", "selfSigned"),
  Started("https", "True", "free", "selfSigned"),
  Started("unset", "false", "free", "valid"),
  Started("HTTPS", "true", "free", "valid"),
  Started("malformed", "t", "free", "valid"),
  Started("http", "TRUE", "busy", "valid"),
  Started("http", "false", "garbage", "valid")}
=============================================================================
