----------------------------- MODULE Server -----------------------------
(***************************************************************************)
(* The HTTP server around the pool: the handlers of src/server/http.rs and *)
(* src/server/mod.rs that check a triplet out, run inference on it in a    *)
(* spawn_blocking closure and check it in, and run_with_config's shutdown  *)
(* (cancel, close the pool, let axum::serve return, drain the tracker).    *)
(*                                                                         *)
(* A request is one connection with one request on it.  A handler is a     *)
(* future: it runs from one await to the next, and it can be dropped at an *)
(* await when its client goes away.  A closure cannot be dropped.          *)
(***************************************************************************)
EXTENDS Pool

CONSTANTS Rest,       \* POST /v1/transcribe
          Sse,        \* POST /v1/transcribe/stream
          Ws,         \* GET /v1/ws
          QueueCap    \* capacity of the closure-to-SSE channel (16 in the code)

ASSUME ServerAssumption ==
  /\ Requests = Rest \cup Sse \cup Ws
  /\ Rest \cap Sse = {} /\ Rest \cap Ws = {} /\ Sse \cap Ws = {}
  /\ Blocking = {}
  /\ QueueCap \in Nat \ {0}

VARIABLES conn,       \* the client's connection and how far its handler is
          job,        \* the inference closure (REST, SSE) or the session loop (WS)
          buffered,   \* segments in the SSE channel
          tracked,    \* the TaskTracker's members
          shutdown,   \* the CancellationToken is cancelled
          main,       \* where run_with_config is
          expired     \* the drain window ran out

serverVars == <<conn, job, buffered, tracked, shutdown, main, expired>>
vars == <<poolVars, serverVars>>

\* hungup: a WebSocket whose peer is gone, unnoticed by the session so far.
ConnStates == {"none", "accepted", "handling", "streaming", "upgrading",
               "session", "hungup", "closed"}
JobStates == {"none", "running", "finished",                \* REST
              "check", "last", "done",                      \* SSE
              "idle", "closing", "lost",                    \* WebSocket
              "infer", "sending", "ending"}                 \* SSE, WebSocket

ServerInit ==
  /\ Init
  /\ conn = [r \in Requests |-> "none"]
  /\ job = [r \in Requests |-> "none"]
  /\ buffered = [r \in Requests |-> 0]
  /\ tracked = {}
  /\ shutdown = FALSE
  /\ main = "serving"
  /\ expired = FALSE

-----------------------------------------------------------------------------
Connection(r, s) == conn' = [conn EXCEPT ![r] = s]
Job(r, from, to) == job[r] = from /\ job' = [job EXCEPT ![r] = to]

\* The handler returned: the response is out (or the socket dropped).
HandlerEnds(r) ==
  /\ Connection(r, "closed")
  /\ tracked' = tracked \ {r}

\* The connections axum::serve waits for; an upgraded one is no longer HTTP.
OpenHttp == {r \in Requests : conn[r] \in {"accepted", "handling", "streaming"}}

InCheckout(r) == conn[r] \in {"handling", "session", "hungup"}

-----------------------------------------------------------------------------
(* Connections *)

\* The accept loop runs until the whole shutdown future has completed.
Connect(r) ==
  /\ conn[r] = "none"
  /\ main \in {"serving", "closing"}
  /\ Connection(r, "accepted")
  /\ UNCHANGED <<poolVars, job, buffered, tracked, shutdown, main, expired>>

\* The request is answered before any checkout: middleware, an empty or too
\* large body, undecodable audio, a WebSocket upgrade after the shutdown
\* signal; or the connection is closed while it is idle.
Reject(r) ==
  /\ conn[r] = "accepted"
  /\ Connection(r, "closed")
  /\ UNCHANGED <<poolVars, job, buffered, tracked, shutdown, main, expired>>

Handle(r) ==
  /\ conn[r] = "accepted"
  /\ r \in Ws => ~shutdown
  /\ Connection(r, IF r \in Ws THEN "upgrading" ELSE "handling")
  /\ UNCHANGED <<poolVars, job, buffered, tracked, shutdown, main, expired>>

\* on_upgrade's task starts, and only then joins the tracker.
WsStart(r) ==
  /\ conn[r] = "upgrading"
  /\ Connection(r, "session")
  /\ tracked' = tracked \cup {r}
  /\ UNCHANGED <<poolVars, job, buffered, shutdown, main, expired>>

\* Mutant of Disconnect: the reservation is a drop guard that owns the triplet.
DisconnectChecksIn(r) ==
  /\ conn[r] = "handling"
  /\ Checkin(r)
  /\ Connection(r, "closed")
  /\ UNCHANGED <<job, buffered, tracked, shutdown, main, expired>>

\* The client leaves.  hyper drops the future of a handler that is at an await:
\* of the checkout, or of the inference closure, which runs on; the response
\* stream of an SSE request goes with its Receiver.  A WebSocket session is a
\* task of its own and finds out later.
Disconnect(r) ==
  \/ /\ \/ conn[r] \in {"accepted", "streaming", "upgrading"}
        \/ conn[r] = "handling" /\ pc[r] \in {"new", "holding"}
     /\ Connection(r, "closed")
     /\ UNCHANGED <<poolVars, job, buffered, tracked, shutdown, main, expired>>
  \/ /\ conn[r] = "handling"
     /\ Cancel(r)
     /\ Connection(r, "closed")
     /\ UNCHANGED <<job, buffered, tracked, shutdown, main, expired>>
  \/ /\ conn[r] = "session"
     /\ Connection(r, "hungup")
     /\ UNCHANGED <<poolVars, job, buffered, tracked, shutdown, main, expired>>

-----------------------------------------------------------------------------
(* Checkout, common to the three handlers *)

CheckoutWaits(r) ==
  /\ InCheckout(r)
  /\ FastPathMiss(r) \/ Register(r)
  /\ UNCHANGED serverVars

\* 503 pool_closed (REST, SSE) or an error frame (WebSocket).
CheckoutRefused(r) ==
  /\ InCheckout(r)
  /\ FastPathClosed(r) \/ RegisterClosed(r) \/ ReceiveClosed(r)
  /\ HandlerEnds(r)
  /\ UNCHANGED <<job, buffered, shutdown, main, expired>>

\* Mutant of CheckoutTimeout: the REST handler's checkout has no deadline.
CheckoutTimeoutNotRest(r) ==
  /\ InCheckout(r)
  /\ r \notin Rest
  /\ Cancel(r)
  /\ HandlerEnds(r)
  /\ UNCHANGED <<job, buffered, shutdown, main, expired>>

\* pool_checkout_timeout_secs passed: 503 timeout, or an error frame.
CheckoutTimeout(r) ==
  /\ InCheckout(r)
  /\ Cancel(r)
  /\ HandlerEnds(r)
  /\ UNCHANGED <<job, buffered, shutdown, main, expired>>

\* The biased select! of handle_ws polls the token first.  It may be cancelled
\* between that and the poll of the checkout, so the other outcomes stay possible.
WsShutdownAtCheckout(r) ==
  /\ r \in Ws
  /\ InCheckout(r)
  /\ shutdown
  /\ \/ pc[r] = "new" /\ UNCHANGED poolVars
     \/ Cancel(r)
  /\ HandlerEnds(r)
  /\ UNCHANGED <<job, buffered, shutdown, main, expired>>

\* Mutant of CheckoutGranted: the SSE closure is spawned outside the tracker.
CheckoutUntracked(r) ==
  /\ InCheckout(r)
  /\ FastPathItem(r) \/ Receive(r)
  /\ \/ r \in Rest /\ Job(r, "none", "running") /\ UNCHANGED conn
     \/ r \in Sse /\ Job(r, "none", "check") /\ Connection(r, "streaming")
     \/ r \in Ws /\ Job(r, "none", "sending") /\ UNCHANGED conn
  /\ UNCHANGED <<buffered, tracked, shutdown, main, expired>>

\* With the triplet: the REST handler awaits its closure, the SSE handler
\* spawns a tracked closure and returns the stream, the session sends Ready.
CheckoutGranted(r) ==
  /\ InCheckout(r)
  /\ FastPathItem(r) \/ Receive(r)
  /\ \/ /\ r \in Rest
        /\ Job(r, "none", "running")
        /\ UNCHANGED <<conn, tracked>>
     \/ /\ r \in Sse
        /\ Job(r, "none", "check")
        /\ Connection(r, "streaming")
        /\ tracked' = tracked \cup {r}
     \/ /\ r \in Ws
        /\ Job(r, "none", "sending")
        /\ UNCHANGED <<conn, tracked>>
  /\ UNCHANGED <<buffered, shutdown, main, expired>>

\* The rest of a checkin runs without an await.
CheckinContinues(r) ==
  /\ CheckinPop(r) \/ CheckinNoWaiter(r) \/ CheckinSend(r) \/ CheckinPush(r)
  /\ UNCHANGED serverVars

-----------------------------------------------------------------------------
(* POST /v1/transcribe *)

\* The closure returns result and triplet; a panic is caught and is a result.
RestInferred(r) ==
  /\ Job(r, "running", "finished")
  /\ UNCHANGED <<poolVars, conn, buffered, tracked, shutdown, main, expired>>

RestCheckin(r) ==
  /\ r \in Rest
  /\ conn[r] = "handling"
  /\ job[r] = "finished"
  /\ Checkin(r)
  /\ UNCHANGED serverVars

RestReply(r) ==
  /\ r \in Rest
  /\ conn[r] = "handling"
  /\ pc[r] = "served"
  /\ HandlerEnds(r)
  /\ UNCHANGED <<poolVars, job, buffered, shutdown, main, expired>>

\* The handler was dropped with the reservation: nobody takes the closure's
\* output, and the triplet in it is dropped.
RestOrphaned(r) ==
  /\ r \in Rest
  /\ conn[r] = "closed"
  /\ job[r] = "finished"
  /\ Abandon(r)
  /\ UNCHANGED serverVars

-----------------------------------------------------------------------------
(* POST /v1/transcribe/stream: the closure *)

\* Mutant of SseCheck: the token is not looked at.
SseUnchecked(r) ==
  /\ \E next \in {"infer", "last", "ending"} : Job(r, "check", next)
  /\ UNCHANGED <<poolVars, conn, buffered, tracked, shutdown, main, expired>>

\* Before every chunk, and before the final flush, the token is looked at.
SseCheck(r) ==
  /\ \/ shutdown /\ Job(r, "check", "ending")
     \/ ~shutdown /\ \E next \in {"infer", "last", "ending"} : Job(r, "check", next)
  /\ UNCHANGED <<poolVars, conn, buffered, tracked, shutdown, main, expired>>

\* One chunk: no segment, segments to send, an error to report, or a panic.
SseInferred(r) ==
  /\ r \in Sse
  /\ \E next \in {"check", "sending", "last", "ending"} : Job(r, "infer", next)
  /\ UNCHANGED <<poolVars, conn, buffered, tracked, shutdown, main, expired>>

\* Mutant of SseSend: the channel is unbounded.
SseSendUnbounded(r) ==
  /\ r \in Sse
  /\ conn[r] = "streaming"
  /\ buffered' = [buffered EXCEPT ![r] = @ + 1]
  /\ Job(r, "sending", "check") \/ Job(r, "last", "ending")
  /\ UNCHANGED <<poolVars, conn, tracked, shutdown, main, expired>>

\* blocking_send: waits for room in the channel, fails once the Receiver is gone.
SseSend(r) ==
  /\ r \in Sse
  /\ \/ /\ conn[r] = "streaming"
        /\ buffered[r] < QueueCap
        /\ buffered' = [buffered EXCEPT ![r] = @ + 1]
        /\ Job(r, "sending", "check") \/ Job(r, "last", "ending")
     \/ /\ conn[r] = "closed"
        /\ Job(r, "sending", "ending") \/ Job(r, "last", "ending")
        /\ UNCHANGED buffered
  /\ UNCHANGED <<poolVars, conn, tracked, shutdown, main, expired>>

SseCheckin(r) ==
  /\ r \in Sse
  /\ job[r] = "ending"
  /\ Checkin(r)
  /\ UNCHANGED serverVars

SseDone(r) ==
  /\ r \in Sse
  /\ pc[r] = "served"
  /\ Job(r, "ending", "done")
  /\ tracked' = tracked \ {r}
  /\ UNCHANGED <<poolVars, conn, buffered, shutdown, main, expired>>

\* The response stream: the client takes a segment; it ends when the Sender is
\* gone and the channel is empty.
SseRead(r) ==
  /\ conn[r] = "streaming"
  /\ buffered[r] > 0
  /\ buffered' = [buffered EXCEPT ![r] = @ - 1]
  /\ UNCHANGED <<poolVars, conn, job, tracked, shutdown, main, expired>>

SseStreamEnds(r) ==
  /\ conn[r] = "streaming"
  /\ job[r] = "done"
  /\ buffered[r] = 0
  /\ Connection(r, "closed")
  /\ UNCHANGED <<poolVars, job, buffered, tracked, shutdown, main, expired>>

-----------------------------------------------------------------------------
(* GET /v1/ws: the loop of WsLoop, which WsSession shows in detail *)

WsMoves(r, from, to) ==
  /\ r \in Ws
  /\ Job(r, from, to)
  /\ UNCHANGED <<poolVars, conn, buffered, tracked, shutdown, main, expired>>

WsFrame(r) == ~shutdown /\ \E next \in {"infer", "sending"} : WsMoves(r, "idle", next)

WsInferred(r) == \E next \in {"idle", "sending"} : WsMoves(r, "infer", next)

\* The loop is left with frames to send (shutdown, session cap, Stop, a bad
\* version) or without (idle timeout, the peer's Close, a stream error).
WsShutdown(r) == shutdown /\ WsMoves(r, "idle", "closing")
WsLeave(r) == ~shutdown /\ \E next \in {"closing", "ending"} : WsMoves(r, "idle", next)

WsSent(r) ==
  /\ conn[r] = "session"
  /\ WsMoves(r, "sending", "idle") \/ WsMoves(r, "closing", "ending")

WsSendFails(r) ==
  /\ conn[r] = "hungup"
  /\ \E from \in {"sending", "closing"} : WsMoves(r, from, "ending")

\* A panic of the session task: triplet and reservation are dropped with it.
WsPanics(r) ==
  /\ r \in Ws
  /\ job[r] \in {"sending", "idle"}
  /\ job' = [job EXCEPT ![r] = "lost"]
  /\ Abandon(r)
  /\ HandlerEnds(r)
  /\ UNCHANGED <<buffered, shutdown, main, expired>>

WsCheckin(r) ==
  /\ r \in Ws
  /\ job[r] = "ending"
  /\ Checkin(r)
  /\ UNCHANGED serverVars

WsDone(r) ==
  /\ r \in Ws
  /\ pc[r] = "served"
  /\ conn[r] # "closed"
  /\ HandlerEnds(r)
  /\ UNCHANGED <<poolVars, job, buffered, shutdown, main, expired>>

-----------------------------------------------------------------------------
(* run_with_config *)

\* Ctrl-C, or the caller's oneshot: the shutdown future cancels the token,
\* then closes the pool, and only then completes.
ShutdownSignal ==
  /\ main = "serving"
  /\ main' = "closing"
  /\ shutdown' = TRUE
  /\ UNCHANGED <<poolVars, conn, job, buffered, tracked, expired>>

ClosePool ==
  /\ main = "closing"
  /\ CloseStore \/ CloseClear
  /\ main' = IF closer' = "cleared" THEN "draining" ELSE main
  /\ UNCHANGED <<conn, job, buffered, tracked, shutdown, expired>>

\* axum::serve stops accepting and returns when every HTTP connection is over.
ServeReturns ==
  /\ main = "draining"
  /\ OpenHttp = {}
  /\ main' = "tracking"
  /\ UNCHANGED <<poolVars, conn, job, buffered, tracked, shutdown, expired>>

TrackerEmpty ==
  /\ main = "tracking"
  /\ tracked = {}
  /\ main' = "returned"
  /\ UNCHANGED <<poolVars, conn, job, buffered, tracked, shutdown, expired>>

DrainExpires ==
  /\ main = "tracking"
  /\ main' = "returned"
  /\ expired' = TRUE
  /\ UNCHANGED <<poolVars, conn, job, buffered, tracked, shutdown>>

\* `gigastt serve` listens for no other signal than Ctrl-C: SIGTERM has its
\* default effect, the process is gone.
Sigterm ==
  /\ main # "returned"
  /\ main' = "killed"
  /\ UNCHANGED <<poolVars, conn, job, buffered, tracked, shutdown, expired>>

-----------------------------------------------------------------------------
RestStep(r) == RestInferred(r) \/ RestCheckin(r) \/ RestReply(r) \/ RestOrphaned(r)
SseStep(r) == SseCheck(r) \/ SseInferred(r) \/ SseSend(r) \/ SseCheckin(r) \/ SseDone(r) \/ SseStreamEnds(r)
WsStep(r) == WsStart(r) \/ WsInferred(r) \/ WsShutdown(r) \/ WsSendFails(r) \/ WsCheckin(r) \/ WsDone(r)

\* What the server does for r without the client's help.
ServerStep(r) ==
  \/ CheckoutWaits(r) \/ CheckoutRefused(r) \/ CheckoutGranted(r) \/ CheckinContinues(r)
  \/ RestStep(r) \/ SseStep(r) \/ WsStep(r)

ClientStep(r) ==
  \/ Connect(r) \/ Reject(r) \/ Handle(r) \/ Disconnect(r)
  \/ SseRead(r)
  \/ WsFrame(r) \/ WsLeave(r) \/ WsSent(r) \/ WsPanics(r)

MainStep == ClosePool \/ ServeReturns \/ TrackerEmpty \/ DrainExpires

ServerNext ==
  /\ main \notin {"returned", "killed"}
  /\ \/ \E r \in Requests :
          \/ ServerStep(r) \/ ClientStep(r)
          \/ CheckoutTimeout(r) \/ WsShutdownAtCheckout(r)
     \/ MainStep
     \/ ShutdownSignal
     \/ Sigterm

ServerSpec == ServerInit /\ [][ServerNext]_vars

(***************************************************************************)
(* Fairness: tasks and blocking threads are scheduled, inference on a      *)
(* chunk ends, deadlines pass, axum::serve and the drain go on.  A client  *)
(* owes nothing: neither the rest of its request, nor to read, nor to go.  *)
(***************************************************************************)
ServerFairness ==
  /\ \A r \in Requests :
       /\ WF_vars(ServerStep(r))
       /\ WF_vars(CheckoutTimeout(r))
       /\ WF_vars(WsShutdownAtCheckout(r))
  /\ WF_vars(MainStep)

ServerFairSpec == ServerSpec /\ ServerFairness

-----------------------------------------------------------------------------
ServerTypeOK ==
  /\ TypeOK
  /\ conn \in [Requests -> ConnStates]
  /\ job \in [Requests -> JobStates]
  /\ buffered \in [Requests -> 0..QueueCap]
  /\ tracked \subseteq Requests
  /\ shutdown \in BOOLEAN
  /\ main \in {"serving", "closing", "draining", "tracking", "returned", "killed"}
  /\ expired \in BOOLEAN

Stopped == main \in {"returned", "killed"}

\* A closure or session that may touch its triplet.
Inferring(r) == job[r] \in {"running", "infer"}

\* A triplet under inference is nobody else's and not in the pool, also when
\* the handler that started the closure was dropped meanwhile (http.rs
\* transcribe: the closure cannot be dropped with its handler).
InferenceExclusive ==
  \A r \in Requests : Inferring(r) =>
    /\ got[r] # None
    /\ got[r] \notin items
    /\ \A q \in Requests \ {r} : got[q] # got[r]

\* When run_with_config returns with the tracker empty, no WebSocket session
\* and no SSE closure is cut off: each has given its triplet back (server/mod.rs
\* drain window, http.rs tracker.spawn_blocking).
CleanDrain ==
  main = "returned" /\ ~expired =>
    /\ \A r \in Sse \cup Ws : pc[r] \notin {"holding", "returning", "sending", "pushing"}
    /\ \A r \in Ws : conn[r] \notin {"session", "hungup"}

\* Every checkout of a handler ends, also for a waiter the pool passes over:
\* with a triplet, a 503 or a dropped connection (http.rs and mod.rs: the
\* timeout around checkout, the select! on shutdown).
CheckoutsEnd ==
  \A r \in Requests :
    InCheckout(r) /\ pc[r] \in {"new", "missed", "parked"}
      ~> (pc[r] \notin {"new", "missed", "parked"} \/ conn[r] = "closed" \/ Stopped)

\* A client keeps its HTTP connection, and axum::serve with it, from ending: it
\* does not finish its request, or does not take what was streamed to it.
Stalled(r) ==
  \/ conn[r] = "accepted"
  \/ r \in Sse /\ conn[r] = "streaming" /\ buffered[r] > 0
       /\ (job[r] = "done" \/ buffered[r] = QueueCap)

\* After the signal the server stops, if no client stalls for ever
\* (server/mod.rs: cancel, pool.close, axum::serve, drain window).
StopsUnlessStalled ==
  (\A r \in Requests : []<>~Stalled(r)) => (shutdown ~> Stopped)
=============================================================================
