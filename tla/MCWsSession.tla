--------------------------- MODULE MCWsSession ---------------------------
(* Instances of WsSession for TLC, and what the code says of an unlimited one. *)
EXTENDS WsSession

\* server/mod.rs 1151-1154: a cap of 0 only parks "the deadline far in the
\* future ... so sleep_until never fires"; the session goes on.
UnlimitedSessionRuns == phase # "panicked"
=============================================================================
