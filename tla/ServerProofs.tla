--------------------------- MODULE ServerProofs ---------------------------
(***************************************************************************)
(* What the server keeps, for any number of requests of the three kinds,   *)
(* any number of triplets and any channel.  The handlers use the pool as   *)
(* Pool lets its callers, so all that is proved of the pool holds in the   *)
(* server; on top of it the invariant says where a request is when its     *)
(* closure or session may touch its triplet.                               *)
(***************************************************************************)
EXTENDS Server, PoolProofs

-----------------------------------------------------------------------------
(* The server's steps are the pool's *)

RequestStep(r) ==
  ServerStep(r) \/ ClientStep(r) \/ CheckoutTimeout(r) \/ WsShutdownAtCheckout(r)

\* What one caller may do with the pool.
PoolStep(r) == Checkout(r) \/ CallStep(r) \/ Checkin(r) \/ Cancel(r) \/ Abandon(r)

LEMMA RequestUsesPool ==
  ASSUME NEW r \in Requests, RequestStep(r)
  PROVE  PoolStep(r) \/ UNCHANGED poolVars
  <1>1. CASE \/ CheckoutWaits(r) \/ CheckoutRefused(r) \/ CheckoutGranted(r)
             \/ CheckinContinues(r)
    BY <1>1 DEF CheckoutWaits, CheckoutRefused, CheckoutGranted, CheckinContinues,
       PoolStep, Checkout, CallStep
  <1>2. CASE RestStep(r)
    BY <1>2 DEF RestStep, RestInferred, RestCheckin, RestReply, RestOrphaned, PoolStep
  <1>3. CASE SseStep(r)
    BY <1>3 DEF SseStep, SseCheck, SseInferred, SseSend, SseCheckin, SseDone, SseStreamEnds,
       PoolStep
  <1>4. CASE WsStep(r)
    BY <1>4 DEF WsStep, WsStart, WsInferred, WsShutdown, WsSendFails, WsMoves, WsCheckin,
       WsDone, PoolStep
  <1>5. CASE ClientStep(r)
    BY <1>5 DEF ClientStep, Connect, Reject, Handle, Disconnect, SseRead, WsFrame, WsLeave,
       WsSent, WsMoves, WsPanics, PoolStep
  <1>6. CASE CheckoutTimeout(r) \/ WsShutdownAtCheckout(r)
    BY <1>6 DEF CheckoutTimeout, WsShutdownAtCheckout, PoolStep
  <1> QED
    BY <1>1, <1>2, <1>3, <1>4, <1>5, <1>6 DEF RequestStep, ServerStep

\* The three handlers, disconnects, deadlines and the shutdown use the pool only as
\* its callers may: whatever holds of Pool holds of the pool in the server.
THEOREM ServerUsesPool == ServerSpec => Spec
  <1>1. ServerInit => Init
    BY DEF ServerInit
  <1>2. [ServerNext]_vars => [Next]_poolVars
    <2> SUFFICES ASSUME ServerNext PROVE Next \/ UNCHANGED poolVars
      BY DEF vars
    <2>1. CASE MainStep \/ ShutdownSignal \/ Sigterm
      BY <2>1 DEF MainStep, ClosePool, ServeReturns, TrackerEmpty, DrainExpires,
         ShutdownSignal, Sigterm, Next
    <2>2. ASSUME NEW r \in Requests, RequestStep(r)
          PROVE  Next \/ UNCHANGED poolVars
      BY <2>2, RequestUsesPool DEF PoolStep, Next
    <2> QED
      BY <2>1, <2>2 DEF ServerNext, RequestStep
  <1> QED
    BY <1>1, <1>2, PTL DEF ServerSpec, Spec

\* So the pool keeps its promise (SessionPool) to the handlers that share it.
THEOREM ServerPool == ServerSpec => PromiseSpec
  <1> QED
    BY ServerUsesPool, Implementation, PTL

LEMMA PoolInvariant == ServerSpec => []IInv
  <1> QED
    BY ServerUsesPool, Invariance, PTL

-----------------------------------------------------------------------------
(* The invariant *)

\* The stages of a closure or session before it gives its triplet up.
Working == {"running", "check", "infer", "sending", "last", "idle", "closing"}

InSession == {"session", "hungup"}

RequestInv(r) ==
  /\ job[r] \in Working => pc[r] = "holding"
  /\ r \in Sse /\ pc[r] \in Owning => r \in tracked
  /\ r \in Ws =>
       /\ conn[r] \notin {"handling", "streaming"}
       /\ pc[r] \in Owning => conn[r] \in InSession
       /\ conn[r] \in InSession => r \in tracked
       /\ job[r] \in {"none", "sending", "idle", "infer", "closing", "ending", "lost"}
       /\ job[r] # "none" => conn[r] \in InSession \cup {"closed"}

SInv == ServerTypeOK /\ (\A r \in Requests : RequestInv(r)) /\ CleanDrain

\* A step for r keeps the types, and leaves the other requests where they are.
Moves(r) ==
  /\ conn' \in [Requests -> ConnStates]
  /\ job' \in [Requests -> JobStates]
  /\ buffered' \in [Requests -> 0..QueueCap]
  /\ tracked' \subseteq Requests
  /\ \A q \in Requests \ {r} :
       /\ conn'[q] = conn[q] /\ job'[q] = job[q] /\ pc'[q] = pc[q]
       /\ q \in tracked' <=> q \in tracked
  /\ UNCHANGED <<shutdown, main, expired>>

-----------------------------------------------------------------------------
(* Connections *)

LEMMA ConnectionStep ==
  ASSUME SInv, NEW r \in Requests,
         Connect(r) \/ Reject(r) \/ Handle(r) \/ WsStart(r) \/ Disconnect(r)
  PROVE  Moves(r) /\ RequestInv(r)'
  <1> USE ServerAssumption DEF SInv, ServerTypeOK, Moves, RequestInv, Connection, poolVars
  <1>1. CASE Connect(r)
    BY <1>1 DEF Connect, ConnStates, InSession
  <1>2. CASE Reject(r)
    BY <1>2 DEF Reject, ConnStates, InSession
  <1>3. CASE Handle(r)
    BY <1>3 DEF Handle, ConnStates, InSession
  <1>4. CASE WsStart(r)
    BY <1>4 DEF WsStart, ConnStates, InSession
  <1>5. CASE Disconnect(r)
    BY <1>5 DEF Disconnect, Cancel, Goto, TypeOK, ConnStates, InSession, Owning, Working
  <1> QED
    BY <1>1, <1>2, <1>3, <1>4, <1>5

-----------------------------------------------------------------------------
(* Checkout and checkin *)

\* Where a pool step takes its caller; the others stay, but for what their
\* channels receive.
LEMMA CallerMoves ==
  ASSUME NEW r \in Requests, pc \in [Requests -> Phases]
  PROVE  /\ FastPathItem(r) \/ Receive(r) =>
              pc[r] \in {"new", "parked"} /\ pc' = [pc EXCEPT ![r] = "holding"]
         /\ FastPathMiss(r) \/ Register(r) =>
              pc[r] \in {"new", "missed"} /\ \E p \in {"missed", "parked"} : pc' = [pc EXCEPT ![r] = p]
         /\ FastPathClosed(r) \/ RegisterClosed(r) \/ ReceiveClosed(r) =>
              pc[r] \in {"new", "missed", "parked"} /\ pc' = [pc EXCEPT ![r] = "refused"]
         /\ Cancel(r) => pc[r] = "parked" /\ pc' = [pc EXCEPT ![r] = "cancelled"]
         /\ CheckinPop(r) \/ CheckinNoWaiter(r) \/ CheckinSend(r) \/ CheckinPush(r) =>
              /\ pc[r] \in {"returning", "sending", "pushing"}
              /\ \E p \in {"sending", "pushing", "served"} : pc' = [pc EXCEPT ![r] = p]
         /\ Checkin(r) =>
              /\ pc[r] = "holding"
              /\ \E p \in {"returning", "served"} : pc' = [pc EXCEPT ![r] = p]
         /\ Abandon(r) => pc[r] = "holding" /\ pc' = [pc EXCEPT ![r] = "abandoned"]
  BY DEF FastPathItem, Receive, FastPathMiss, Register, FastPathClosed, RegisterClosed,
     ReceiveClosed, Cancel, CheckinPop, CheckinNoWaiter, CheckinSend, CheckinPush, Checkin,
     CheckinClosed, CheckinOpen, Abandon, Goto

LEMMA PoolCallStep ==
  ASSUME SInv, NEW r \in Requests,
         \/ CheckoutWaits(r) \/ CheckoutRefused(r) \/ CheckoutGranted(r)
         \/ CheckinContinues(r) \/ CheckoutTimeout(r) \/ WsShutdownAtCheckout(r)
  PROVE  Moves(r) /\ RequestInv(r)'
  <1>1. pc \in [Requests -> Phases]
    BY DEF SInv, ServerTypeOK, TypeOK
  <1> USE ServerAssumption, CallerMoves
      DEF SInv, ServerTypeOK, Moves, RequestInv, Connection, HandlerEnds, poolVars, serverVars
  <1>2. CASE CheckoutWaits(r)
    BY <1>1, <1>2 DEF CheckoutWaits, Owning, Working
  <1>3. CASE CheckoutRefused(r)
    BY <1>1, <1>3 DEF CheckoutRefused, ConnStates, InSession, Owning, Working
  <1>4. CASE CheckoutGranted(r)
    BY <1>1, <1>4 DEF CheckoutGranted, InCheckout, Job, ConnStates, JobStates, InSession, Working
  <1>5. CASE CheckinContinues(r)
    BY <1>1, <1>5 DEF CheckinContinues, Owning, Working
  <1>6. CASE CheckoutTimeout(r)
    BY <1>1, <1>6 DEF CheckoutTimeout, ConnStates, InSession, Owning, Working
  <1>7. CASE WsShutdownAtCheckout(r)
    BY <1>1, <1>7 DEF WsShutdownAtCheckout, ConnStates, InSession, Owning, Working
  <1> QED
    BY <1>2, <1>3, <1>4, <1>5, <1>6, <1>7

-----------------------------------------------------------------------------
(* The closures and the session *)

LEMMA RestStepInv ==
  ASSUME SInv, NEW r \in Requests, RestStep(r)
  PROVE  Moves(r) /\ RequestInv(r)'
  <1>1. pc \in [Requests -> Phases]
    BY DEF SInv, ServerTypeOK, TypeOK
  <1> USE ServerAssumption, CallerMoves
      DEF SInv, ServerTypeOK, Moves, RequestInv, Connection, HandlerEnds, Job, poolVars, serverVars
  <1>2. CASE RestInferred(r)
    BY <1>2 DEF RestInferred, JobStates, Working
  <1>3. CASE RestCheckin(r)
    BY <1>1, <1>3 DEF RestCheckin, Working
  <1>4. CASE RestReply(r)
    BY <1>4 DEF RestReply, ConnStates, Owning, Working
  <1>5. CASE RestOrphaned(r)
    BY <1>1, <1>5 DEF RestOrphaned, Working
  <1> QED
    BY <1>2, <1>3, <1>4, <1>5 DEF RestStep

LEMMA SseStepInv ==
  ASSUME SInv, NEW r \in Requests, SseStep(r) \/ SseRead(r)
  PROVE  Moves(r) /\ RequestInv(r)'
  <1>1. pc \in [Requests -> Phases] /\ QueueCap \in Nat
    BY ServerAssumption DEF SInv, ServerTypeOK, TypeOK
  <1> USE ServerAssumption, CallerMoves
      DEF SInv, ServerTypeOK, Moves, RequestInv, Connection, Job, poolVars, serverVars
  <1>2. CASE SseCheck(r)
    BY <1>2 DEF SseCheck, JobStates, Working
  <1>3. CASE SseInferred(r)
    BY <1>3 DEF SseInferred, JobStates, Working
  <1>4. CASE SseSend(r)
    BY <1>1, <1>4 DEF SseSend, JobStates, Working
  <1>5. CASE SseCheckin(r)
    BY <1>1, <1>5 DEF SseCheckin, Owning, Working
  <1>6. CASE SseDone(r)
    BY <1>6 DEF SseDone, JobStates, Owning, Working
  <1>7. CASE SseStreamEnds(r)
    BY <1>7 DEF SseStreamEnds, ConnStates, InSession
  <1>8. CASE SseRead(r)
    BY <1>1, <1>8 DEF SseRead
  <1> QED
    BY <1>2, <1>3, <1>4, <1>5, <1>6, <1>7, <1>8 DEF SseStep

LEMMA WsStepInv ==
  ASSUME SInv, NEW r \in Requests,
         \/ WsInferred(r) \/ WsShutdown(r) \/ WsSendFails(r) \/ WsCheckin(r) \/ WsDone(r)
         \/ WsFrame(r) \/ WsLeave(r) \/ WsSent(r) \/ WsPanics(r)
  PROVE  Moves(r) /\ RequestInv(r)'
  <1>1. pc \in [Requests -> Phases]
    BY DEF SInv, ServerTypeOK, TypeOK
  <1> USE ServerAssumption, CallerMoves
      DEF SInv, ServerTypeOK, Moves, RequestInv, Connection, HandlerEnds, Job, poolVars, serverVars
  <1>2. CASE WsInferred(r) \/ WsShutdown(r) \/ WsSendFails(r) \/ WsFrame(r) \/ WsLeave(r) \/ WsSent(r)
    <2> DEFINE Loop == {"sending", "idle", "infer", "closing"}
    <2>1. PICK from \in Loop, to \in Loop \cup {"ending"} : WsMoves(r, from, to)
      BY <1>2 DEF WsInferred, WsShutdown, WsSendFails, WsFrame, WsLeave, WsSent
    <2>2. Loop \subseteq Working /\ Loop \cup {"ending"} \subseteq JobStates
      BY DEF Working, JobStates
    <2> QED
      BY <2>1, <2>2 DEF WsMoves
  <1>3. CASE WsCheckin(r)
    BY <1>1, <1>3 DEF WsCheckin, Owning, Working
  <1>4. CASE WsDone(r)
    BY <1>4 DEF WsDone, ConnStates, InSession, Owning, Working
  <1>5. CASE WsPanics(r)
    BY <1>1, <1>5 DEF WsPanics, ConnStates, JobStates, InSession, Owning, Working
  <1> QED
    BY <1>2, <1>3, <1>4, <1>5

-----------------------------------------------------------------------------
(* Every step *)

LEMMA RequestStepInv ==
  ASSUME SInv, IInv', main # "returned", NEW r \in Requests, RequestStep(r)
  PROVE  SInv'
  <1>1. Moves(r) /\ RequestInv(r)'
    BY ConnectionStep, PoolCallStep, RestStepInv, SseStepInv, WsStepInv
       DEF RequestStep, ServerStep, ClientStep, WsStep
  <1>2. ASSUME NEW q \in Requests \ {r}
        PROVE  RequestInv(q)'
    BY <1>1, <1>2 DEF SInv, RequestInv, Moves
  <1>3. ServerTypeOK'
    BY <1>1 DEF SInv, ServerTypeOK, IInv, Moves
  <1>4. CleanDrain'
    BY <1>1 DEF CleanDrain, Moves
  <1> QED
    BY <1>1, <1>2, <1>3, <1>4 DEF SInv

\* The tracker is empty only when no closure has its triplet and no session lives.
LEMMA MainStepInv ==
  ASSUME SInv, IInv', main \notin {"returned", "killed"}, MainStep \/ ShutdownSignal \/ Sigterm
  PROVE  SInv'
  <1> USE DEF MainStep, ClosePool, CloseStore, CloseClear, ServeReturns, TrackerEmpty,
              DrainExpires, ShutdownSignal, Sigterm, poolVars
  <1>1. UNCHANGED <<pc, conn, job, buffered, tracked>>
    OBVIOUS
  <1>2. ServerTypeOK'
    BY <1>1 DEF SInv, ServerTypeOK, IInv
  <1>3. ASSUME NEW q \in Requests
        PROVE  RequestInv(q)'
    BY <1>1 DEF SInv, RequestInv
  <1>4. CleanDrain'
    <2>1. CASE TrackerEmpty
      <3>1. tracked = {} /\ Sse \cup Ws \subseteq Requests
        BY <2>1, ServerAssumption
      <3>2. ASSUME NEW q \in Sse \cup Ws
            PROVE  pc[q] \notin Owning /\ (q \in Ws => conn[q] \notin InSession)
        BY <3>1 DEF SInv, RequestInv
      <3> QED
        BY <1>1, <3>2 DEF CleanDrain, Owning, InSession
    <2>2. CASE ~TrackerEmpty
      BY <2>2 DEF CleanDrain
    <2> QED
      BY <2>1, <2>2
  <1> QED
    BY <1>2, <1>3, <1>4 DEF SInv

LEMMA ServerInvariant == ServerSpec => []SInv
  <1>1. ServerInit /\ IInv => SInv
    <2> SUFFICES ASSUME ServerInit, IInv PROVE SInv
      OBVIOUS
    <2>1. ServerTypeOK
      <3>1. QueueCap \in Nat
        BY ServerAssumption
      <3>2. /\ conn \in [Requests -> ConnStates] /\ job \in [Requests -> JobStates]
            /\ buffered \in [Requests -> 0..QueueCap]
        BY <3>1 DEF ServerInit, ConnStates, JobStates
      <3> QED
        BY <3>2 DEF ServerInit, ServerTypeOK, IInv
    <2>2. ASSUME NEW r \in Requests
          PROVE  RequestInv(r)
      BY DEF ServerInit, Init, RequestInv, Working, Owning, InSession
    <2>3. CleanDrain
      BY DEF ServerInit, CleanDrain
    <2> QED
      BY <2>1, <2>2, <2>3 DEF SInv
  <1>2. SInv /\ IInv' /\ [ServerNext]_vars => SInv'
    <2> SUFFICES ASSUME SInv, IInv', [ServerNext]_vars PROVE SInv'
      OBVIOUS
    <2>1. CASE ServerNext
      BY <2>1, RequestStepInv, MainStepInv DEF ServerNext, RequestStep
    <2>2. CASE UNCHANGED vars
      <3>1. UNCHANGED serverVars /\ pc' = pc
        BY <2>2 DEF vars, poolVars
      <3>2. ServerTypeOK' /\ CleanDrain'
        BY <3>1 DEF SInv, ServerTypeOK, IInv, CleanDrain, serverVars
      <3>3. \A r \in Requests : RequestInv(r)'
        BY <3>1 DEF SInv, RequestInv, serverVars
      <3> QED
        BY <3>2, <3>3 DEF SInv
    <2> QED
      BY <2>1, <2>2
  <1> QED
    BY <1>1, <1>2, PoolInvariant, PTL DEF ServerSpec

-----------------------------------------------------------------------------
(* The theorems *)

\* Every variable of the server keeps its type; the SSE channel never holds more
\* than its capacity.
THEOREM ServerTypes == ServerSpec => []ServerTypeOK
  <1>1. SInv => ServerTypeOK
    BY DEF SInv
  <1> QED
    BY <1>1, ServerInvariant, PTL

\* Whoever leaves, times out or shuts down whenever: a triplet under inference is
\* with its closure alone, also when the handler that started it is gone.
THEOREM InferenceAlone == ServerSpec => []InferenceExclusive
  <1>1. SInv /\ IInv => InferenceExclusive
    <2> SUFFICES ASSUME SInv, IInv, NEW r \in Requests, Inferring(r)
                 PROVE  /\ got[r] # None /\ got[r] \notin items
                        /\ \A q \in Requests \ {r} : got[q] # got[r]
      BY DEF InferenceExclusive
    <2>1. pc[r] = "holding"
      BY DEF SInv, RequestInv, Inferring, Working
    <2>2. got[r] # None
      BY <2>1 DEF IInv, SendersInv, Owning
    <2> QED
      BY <2>2 DEF IInv, UniqueOwner
  <1> QED
    BY <1>1, ServerInvariant, PoolInvariant, PTL

\* When run_with_config returns with its tracker empty, no session is alive and no
\* session or SSE closure has a triplet: the drain has cut off none of them.
THEOREM DrainIsClean == ServerSpec => []CleanDrain
  <1>1. SInv => CleanDrain
    BY DEF SInv
  <1> QED
    BY <1>1, ServerInvariant, PTL

-----------------------------------------------------------------------------
(* The sessions are loops *)

\* The loop that WsSession implements, for one of the server's sessions.
Session(r) == INSTANCE WsLoop WITH
  job <- job[r], gone <- conn[r] # "session", cancelled <- shutdown

WsMove(r) ==
  \/ WsFrame(r) \/ WsInferred(r) \/ WsShutdown(r) \/ WsLeave(r) \/ WsSent(r) \/ WsSendFails(r)

LoopMove(r) ==
  \/ Session(r)!Frame \/ Session(r)!Inferred \/ Session(r)!Shutdown
  \/ Session(r)!Leave \/ Session(r)!Sent \/ Session(r)!SendFails

\* Nothing but the session of r moves.
Alone(r) ==
  /\ job' = [job EXCEPT ![r] = job'[r]]
  /\ UNCHANGED <<poolVars, conn, buffered, tracked, shutdown, main, expired>>

\* The server leaves a live session the moves of the loop, all of them and no other:
\* what WsSession is shown to do, Server has in it (the loop of handle_ws_inner).
THEOREM SessionMovesAsLoop ==
  ASSUME NEW r \in Ws, job \in [Requests -> JobStates], conn[r] \in InSession
  PROVE  WsMove(r) <=> LoopMove(r) /\ Alone(r)
  <1>1. r \in Requests
    BY ServerAssumption
  <1>2. ASSUME NEW from, NEW to
        PROVE  WsMoves(r, from, to) <=> job[r] = from /\ job'[r] = to /\ Alone(r)
    BY <1>1 DEF WsMoves, Job, Alone
  <1>3. Alone(r) => UNCHANGED <<conn[r] # "session", shutdown>>
    BY DEF Alone
  <1>4. conn[r] = "session" <=> conn[r] # "hungup"
    BY DEF InSession
  <1>5. WsFrame(r) <=> Session(r)!Frame /\ Alone(r)
    BY <1>2, <1>3 DEF WsFrame, Session!Frame, Session!Goes
  <1>6. WsInferred(r) <=> Session(r)!Inferred /\ Alone(r)
    BY <1>2, <1>3 DEF WsInferred, Session!Inferred, Session!Goes
  <1>7. WsShutdown(r) <=> Session(r)!Shutdown /\ Alone(r)
    BY <1>2, <1>3 DEF WsShutdown, Session!Shutdown, Session!Goes
  <1>8. WsLeave(r) <=> Session(r)!Leave /\ Alone(r)
    BY <1>2, <1>3 DEF WsLeave, Session!Leave, Session!Goes
  <1>9. WsSent(r) <=> Session(r)!Sent /\ Alone(r)
    BY <1>2, <1>3, <1>4 DEF WsSent, Session!Sent, Session!Goes
  <1>10. WsSendFails(r) <=> Session(r)!SendFails /\ Alone(r)
    BY <1>2, <1>3, <1>4 DEF WsSendFails, Session!SendFails, Session!Goes
  <1> QED
    BY <1>5, <1>6, <1>7, <1>8, <1>9, <1>10 DEF WsMove, LoopMove

\* A panic takes the session's task, and with it its end of the connection.
SessionPanics(r) ==
  job[r] \in {"sending", "idle"} /\ job'[r] = "lost" /\ conn'[r] = "closed"

\* A step of a session, of its client or of the shutdown; or none of them.
LoopStep(r) ==
  \/ Session(r)!LoopNext
  \/ UNCHANGED <<job[r], conn[r] # "session", shutdown>>
  \/ SessionPanics(r)

SessionsAreLoops ==
  [][\A r \in Ws : IF job[r] = "none"
                   THEN job'[r] = "none" \/ Session(r)!LoopInit'
                   ELSE LoopStep(r)]_vars

\* What a step for another request, or of run_with_config, does to a session.
LEMMA SessionUndisturbed ==
  ASSUME SInv, NEW r \in Ws, job'[r] = job[r], conn'[r] = conn[r],
         shutdown' = shutdown \/ shutdown' = TRUE
  PROVE  LoopStep(r)
  <1>1. shutdown \in BOOLEAN
    BY DEF SInv, ServerTypeOK
  <1>2. CASE shutdown' = shutdown
    BY <1>2 DEF LoopStep
  <1>3. CASE shutdown' # shutdown
    <2>1. ~shutdown /\ shutdown' = TRUE
      BY <1>1, <1>3
    <2>2. Session(r)!Cancel
      BY <2>1 DEF Session!Cancel
    <2> QED
      BY <2>2 DEF LoopStep, Session!LoopNext
  <1> QED
    BY <1>2, <1>3

\* Any step for a session's own request is a move of its loop, its end or its client's.
LEMMA OwnLoopStep ==
  ASSUME SInv, NEW r \in Ws, job[r] # "none", RequestStep(r)
  PROVE  LoopStep(r)
  <1>1. /\ r \in Requests /\ r \notin Rest /\ r \notin Sse
        /\ conn \in [Requests -> ConnStates] /\ job \in [Requests -> JobStates]
        /\ pc \in [Requests -> Phases]
    BY ServerAssumption DEF SInv, ServerTypeOK, TypeOK
  <1>2. job[r] \in Working => pc[r] = "holding" /\ conn[r] \in InSession
    BY <1>1 DEF SInv, RequestInv, Owning
  <1>3. ASSUME WsMove(r)
        PROVE  LoopStep(r)
    <2>1. conn[r] \in InSession
      <3>1. job[r] \in Working
        BY <1>3 DEF WsMove, WsFrame, WsInferred, WsShutdown, WsLeave, WsSent, WsSendFails,
           WsMoves, Job, Working
      <3> QED
        BY <1>2, <3>1
    <2>2. LoopMove(r)
      BY <1>1, <1>3, <2>1, SessionMovesAsLoop
    <2> QED
      BY <2>2 DEF LoopMove, LoopStep, Session!LoopNext
  <1>4. CASE WsPanics(r)
    BY <1>1, <1>4 DEF WsPanics, HandlerEnds, Connection, LoopStep, SessionPanics
  <1>5. ASSUME UNCHANGED <<job, shutdown>>, \E s : Connection(r, s) /\ s # "session"
        PROVE  LoopStep(r)
    <2>1. conn'[r] # "session"
      BY <1>1, <1>5 DEF Connection
    <2>2. CASE conn[r] = "session"
      <3>1. Session(r)!Hangup
        BY <1>5, <2>1, <2>2 DEF Session!Hangup
      <3> QED
        BY <3>1 DEF LoopStep, Session!LoopNext
    <2>3. CASE conn[r] # "session"
      BY <1>5, <2>1, <2>3 DEF LoopStep
    <2> QED
      BY <2>2, <2>3
  <1>6. CASE UNCHANGED <<job, conn, shutdown>>
    BY <1>6 DEF LoopStep
  <1>7. CASE Connect(r) \/ Reject(r) \/ Handle(r) \/ WsStart(r) \/ Disconnect(r)
    <2>1. conn[r] \in InSession \cup {"closed"}
      BY <1>1 DEF SInv, RequestInv
    <2>2. CASE Disconnect(r)
      BY <1>5, <2>1, <2>2 DEF Disconnect, InSession
    <2> QED
      BY <1>7, <2>1, <2>2 DEF Connect, Reject, Handle, WsStart, InSession
  <1>8. CASE CheckoutRefused(r) \/ CheckoutTimeout(r) \/ WsShutdownAtCheckout(r) \/ WsDone(r)
    BY <1>5, <1>8 DEF CheckoutRefused, CheckoutTimeout, WsShutdownAtCheckout, WsDone, HandlerEnds
  <1>9. CASE CheckoutWaits(r) \/ CheckinContinues(r) \/ WsCheckin(r) \/ SseRead(r)
    BY <1>6, <1>9 DEF CheckoutWaits, CheckinContinues, WsCheckin, SseRead, serverVars
  <1>10. ~RestStep(r) /\ ~SseStep(r) /\ ~CheckoutGranted(r)
    <2>1. /\ job[r] \notin {"running", "finished", "check", "done"}
          /\ conn[r] \notin {"handling", "streaming"}
      BY <1>1 DEF SInv, RequestInv, InSession
    <2>2. ~RestInferred(r) /\ ~SseCheck(r) /\ ~SseStreamEnds(r) /\ ~CheckoutGranted(r)
      BY <1>1, <2>1 DEF RestInferred, SseCheck, SseStreamEnds, CheckoutGranted, Job
    <2> QED
      BY <1>1, <2>2 DEF RestStep, RestCheckin, RestReply, RestOrphaned, SseStep, SseInferred,
         SseSend, SseCheckin, SseDone
  <1> QED
    BY <1>3, <1>4, <1>7, <1>8, <1>9, <1>10
       DEF RequestStep, ServerStep, ClientStep, WsStep, WsMove

\* A session starts with Ready.
LEMMA LoopStarts ==
  ASSUME SInv, NEW r \in Ws, job[r] = "none", RequestStep(r)
  PROVE  job'[r] \in {"none", "sending"}
  <1>1. /\ r \in Requests /\ r \notin Rest /\ r \notin Sse
        /\ job \in [Requests -> JobStates]
    BY ServerAssumption DEF SInv, ServerTypeOK
  <1>2. ~SseStep(r) /\ ~RestStep(r)
    <2>1. conn[r] \notin {"handling", "streaming"}
      BY <1>1 DEF SInv, RequestInv
    <2> QED
      BY <1>1, <2>1 DEF RestStep, RestInferred, RestCheckin, RestReply, RestOrphaned, SseStep,
         SseCheck, SseInferred, SseSend, SseCheckin, SseDone, SseStreamEnds, Job
  <1>3. CASE CheckoutGranted(r)
    BY <1>1, <1>3 DEF CheckoutGranted, Job
  <1>4. ~WsMove(r) /\ ~WsPanics(r)
    BY DEF WsMove, WsFrame, WsInferred, WsShutdown, WsLeave, WsSent, WsSendFails, WsMoves,
       WsPanics, Job
  <1>5. CASE \/ Connect(r) \/ Reject(r) \/ Handle(r) \/ WsStart(r)
             \/ Disconnect(r) \/ SseRead(r)
    BY <1>5 DEF Connect, Reject, Handle, WsStart, Disconnect, SseRead
  <1>6. CASE CheckoutWaits(r) \/ CheckoutRefused(r) \/ CheckoutTimeout(r)
             \/ WsShutdownAtCheckout(r) \/ CheckinContinues(r) \/ WsCheckin(r) \/ WsDone(r)
    BY <1>6 DEF CheckoutWaits, CheckoutRefused, CheckoutTimeout, WsShutdownAtCheckout,
       CheckinContinues, WsCheckin, WsDone, serverVars
  <1> QED
    BY <1>2, <1>3, <1>4, <1>5, <1>6
       DEF RequestStep, ServerStep, ClientStep, WsStep, WsMove

\* Every session of the server is the loop from its Ready message on: whoever else uses
\* the pool, hangs up, times out or shuts down, it makes the steps of WsLoop, which
\* WsSession implements, and no others, but for a panic that takes its connection too.
THEOREM SessionsLoop == ServerSpec => SessionsAreLoops
  <1>1. SInv /\ [ServerNext]_vars =>
          [\A r \in Ws : IF job[r] = "none"
                         THEN job'[r] = "none" \/ Session(r)!LoopInit'
                         ELSE LoopStep(r)]_vars
    <2> SUFFICES ASSUME SInv, ServerNext, NEW r \in Ws
                 PROVE  IF job[r] = "none"
                        THEN job'[r] = "none" \/ Session(r)!LoopInit'
                        ELSE LoopStep(r)
      BY DEF vars
    <2>1. r \in Requests /\ r \notin Rest /\ r \notin Sse /\ shutdown \in BOOLEAN
      BY ServerAssumption DEF SInv, ServerTypeOK
    <2>2. CASE MainStep \/ ShutdownSignal \/ Sigterm
      <3>1. UNCHANGED <<job, conn>> /\ (shutdown' = shutdown \/ shutdown' = TRUE)
        BY <2>2 DEF MainStep, ClosePool, ServeReturns, TrackerEmpty, DrainExpires,
           ShutdownSignal, Sigterm
      <3> QED
        BY <3>1, SessionUndisturbed
    <2>3. ASSUME NEW q \in Requests, RequestStep(q)
          PROVE  IF job[r] = "none"
                 THEN job'[r] = "none" \/ Session(r)!LoopInit'
                 ELSE LoopStep(r)
      <3>1. Moves(q)
        BY <2>3, ConnectionStep, PoolCallStep, RestStepInv, SseStepInv, WsStepInv
           DEF RequestStep, ServerStep, ClientStep, WsStep
      <3>2. CASE q # r
        BY <2>1, <3>1, <3>2, SessionUndisturbed DEF Moves
      <3>3. CASE q = r /\ job[r] # "none"
        BY <2>3, <3>3, OwnLoopStep
      <3>4. CASE q = r /\ job[r] = "none"
        <4>1. job'[r] \in {"none", "sending"}
          BY <2>1, <2>3, <3>4, LoopStarts
        <4>2. job'[r] = "sending" => Session(r)!LoopInit'
          BY <2>1, <3>1 DEF Session!LoopInit, Moves
        <4> QED
          BY <3>4, <4>1, <4>2
      <3> QED
        BY <3>2, <3>3, <3>4
    <2> QED
      BY <2>2, <2>3 DEF ServerNext, RequestStep
  <1> QED
    BY <1>1, ServerInvariant, PTL DEF ServerSpec, SessionsAreLoops
=============================================================================
