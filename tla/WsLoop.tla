----------------------------- MODULE WsLoop -----------------------------
(***************************************************************************)
(* What a WebSocket session is to the rest of the server: a task that      *)
(* holds a triplet and reads a frame, infers, sends or leaves.  Server has *)
(* one such loop in each of its WebSocket requests; WsSession, the session *)
(* in detail, implements it.                                               *)
(***************************************************************************)

VARIABLES job,        \* what the task is doing
          gone,       \* the client has hung up
          cancelled   \* the CancellationToken is cancelled

loopVars == <<job, gone, cancelled>>

\* closing: sending the last frames.  ending: the triplet is on its way to the
\* pool.  lost: the task panicked, and its triplet and reservation went with it.
Jobs == {"sending", "idle", "infer", "closing", "ending", "lost"}

LoopInit ==
  /\ job = "sending"      \* the Ready message
  /\ gone \in BOOLEAN
  /\ cancelled \in BOOLEAN

Goes(from, to) ==
  /\ job \in from
  /\ job' \in to
  /\ UNCHANGED <<gone, cancelled>>

Frame == ~cancelled /\ Goes({"idle"}, {"infer", "sending"})
Inferred == Goes({"infer"}, {"idle", "sending"})
Shutdown == cancelled /\ Goes({"idle"}, {"closing"})
Leave == ~cancelled /\ Goes({"idle"}, {"closing", "ending"})
Sent == ~gone /\ (Goes({"sending"}, {"idle"}) \/ Goes({"closing"}, {"ending"}))
SendFails == gone /\ Goes({"sending", "closing"}, {"ending"})
Panic == Goes({"sending", "idle"}, {"lost"})

Cancel == ~cancelled /\ cancelled' = TRUE /\ UNCHANGED <<job, gone>>
Hangup == ~gone /\ gone' = TRUE /\ UNCHANGED <<job, cancelled>>

LoopNext ==
  \/ Frame \/ Inferred \/ Shutdown \/ Leave
  \/ Sent \/ SendFails \/ Panic
  \/ Cancel \/ Hangup

\* What the loop owes whatever its client does: an inference ends, a shutdown is
\* taken up between frames, a send to a client that is gone fails.
LoopProgress ==
  /\ job = "infer" ~> job # "infer"
  /\ (job = "idle" /\ cancelled) ~> job # "idle"
  /\ (job \in {"sending", "closing"} /\ gone) ~> job \notin {"sending", "closing"}

LoopSpec == LoopInit /\ [][LoopNext]_loopVars /\ LoopProgress
=============================================================================
