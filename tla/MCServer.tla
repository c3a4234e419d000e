---------------------------- MODULE MCServer ----------------------------
(* Instances of Server for TLC, and what the documentation says of shutdown. *)
EXTENDS Server

\* docs/runbook.md 22-23: once the signal has been given, only SSE responses keep
\* HTTP open and the drain window is the longest wait, "the process exits anyway".
DrainIsBounded ==
  (main = "draining" /\ \A r \in OpenHttp : conn[r] = "streaming") ~> Stopped

\* docs/deployment.md 224: "gigastt drains live WebSocket / SSE sessions on
\* SIGTERM": no session is alive when a SIGTERM has ended the process.
SigtermDrains ==
  main = "killed" => \A r \in Requests : conn[r] \notin {"session", "streaming"}
=============================================================================
