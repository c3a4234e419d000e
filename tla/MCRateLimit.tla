--------------------------- MODULE MCRateLimit ---------------------------
(* An instance of RateLimit for TLC. *)
EXTENDS RateLimit

CONSTANTS peer, proxy    \* a public address and a private one

\* A public peer that sets a header, a proxy that names a client, and a peer the
\* server does not know.
RequestShapes ==
  {[direct |-> peer, forwarded |-> proxy, real |-> None],
   [direct |-> proxy, forwarded |-> None, real |-> peer],
   [direct |-> None, forwarded |-> None, real |-> None]}
=============================================================================
