# A TLA+ model of gigastt

gigastt is a speech-to-text server and library in Rust: a pool of pre-loaded
ONNX sessions, a streaming recogniser on top of it, an HTTP / WebSocket server
around both, a C interface, and the code that downloads and quantises the model.
This directory holds TLA+ modules of the parts whose correctness depends on the
order of events, the TLC configurations that check them, and proofs for TLAPS.

Source paths below are relative to the crate's `src/`.

## 1. Inventory

| Part | State | Operations | What is hard |
|---|---|---|---|
| Session pool (`inference/mod.rs` 81-332) | deque of idle items, deque of waiters, closed flag, each with its own lock | `checkout`, `checkout_blocking`, `checkin` (by `PoolGuard` or `OwnedReservation`), `close` | no lock covers two of them; a waiting checkout can be dropped; a reservation can be lost |
| REST and SSE handlers (`server/http.rs`) | a triplet and its reservation, a blocking closure, the SSE channel | `transcribe`, `transcribe_stream` | a handler is a future that its client's departure drops, its closure is not; a full channel blocks the closure |
| WebSocket session (`server/mod.rs` 630-1325) | streaming state, triplet, odd byte, configured rate, deadline | binary frame, configure, stop, shutdown, cap, idle timeout | priorities of shutdown, cap and frames; every exit must return the triplet and most owe a Final |
| Server lifecycle (`server/mod.rs` 260-526) | cancellation token, task tracker, drain window | start, shutdown signal, drain | token, pool, HTTP connections and tracked tasks end in stages that race with new requests |
| Streaming engine (`inference/mod.rs` 339-1211, `decode.rs`, `audio.rs`) | decoder state, sample buffer, assembler, frame counter | `process_chunk`, `flush_state`, `greedy_decode`, `prepare_audio_buffer` | state carried over chunks of any size; endpointing; time base |
| Rate limiter (`server/rate_limit.rs`) | a bucket per address | `check`, `evict_stale` | clock read outside the lock; eviction forgets |
| Model files (`model/mod.rs`, `quantize.rs`, `main.rs`) | final, partial and derived files | `ensure_model`, `finalize_download`, `quantize_model` | crashes; two processes in one directory; a derived file that outlives its source |
| C interface (`ffi.rs`) | engine and stream handles | `engine_new`, `stream_new`, `process_chunk`, `flush`, `free` | blocking checkout without a deadline |
| Metrics, tokenizer, protocol types, origin policy, CLI | counters, tables, configuration | | formatting and parsing, no interleaving that matters |

How they interact.  Every user of the recogniser gets its `SessionTriplet` from
the pool and gives it back by `checkin`.  The HTTP handlers check out under a
deadline and move the triplet into `spawn_blocking` closures; a WebSocket session
keeps it for its lifetime; the C interface checks out blocking.  Shutdown cancels
a token that handlers poll, closes the pool, waits for axum's connections and
then for a `TaskTracker`, for at most the drain window.

What makes each part correct:

* pool: a triplet has one owner; it is lost only for a call that was cancelled
  or abandoned, one for one; waiters are served in order; `close` releases all;
* handlers: a triplet under inference is nobody else's even after its handler
  was dropped; each checkout ends; a closure gives its triplet back;
* lifecycle: after the signal the server stops; what it tracks is not cut off
  unless the drain window ran out;
* session: Final before Close on shutdown and cap; audio is not reordered, lost
  or shifted; the cap is enforced;
* streaming: each token appears in exactly one final segment; word times grow;
* limiter: no more than burst + rate x time requests are admitted;
* model files: the final name never shows unverified content.

## 2. Plan

1. `Pool`, its promise `SessionPool`, the proofs. **Done.**
2. `Server`: the handlers and the shutdown over `Pool`. **Done.**
3. `WsSession` and its abstraction `WsLoop`: one session's frame protocol, with the
   client, the clock and the shutdown as environment. **Done.**
4. `GreedyDecode` with its definition `Rnnt`, and `Streaming` on top of it: sample
   buffer, endpointing, assembler, frame counter, callers. **Done, with proofs.**
5. `RateLimit`: buckets in integer fractions of a token, concurrent `check` and
   `evict_stale`, both clocks. **Done, with proofs.**
6. `ModelInstall`: files, processes, crashes; what the final name may show. **Done,
   with proofs.**
7. `WsProofs`, the session's invariants and the safety part of `ImplementsLoop` for
   any client; `ServerProofs`, `InferenceExclusive` and `CleanDrain` on top of the
   pool's invariant. **Done.**
8. The tokens and words of a stream, any number of them, by induction over the fold
   of `tokens_to_words`; that `Server` has the loop in it that a session implements;
   that a final file stays. **Done.**
9. `engine_new` and `engine_free` of the C interface; a composition of `Streaming`
   and `WsSession`, which today meet only in the words a chunk may yield.

No module meant for proof declares a RECURSIVE operator.

## 3. The modules

### Pool

One action per critical section.  A member of `Requests` is one call of
`checkout`, or of `checkout_blocking` if it is in `Blocking`, together with the
one `checkin` of what it got.  The same call cannot be repeated; repeated use of
the pool is several requests.

| Code | Model |
|---|---|
| fast path of `checkout`: lock the deque, test the flag, pop | `FastPathClosed`, `FastPathItem`, `FastPathMiss` |
| slow path: lock the waiters, test the flag again, push a Sender | `RegisterClosed`, `Register` |
| `rx.await`, `rx.recv()` | `Receive`, `ReceiveClosed` |
| the checkout future is dropped at its await | `Cancel` (not for `Blocking`) |
| `checkin`: test the flag | `CheckinClosed`, `CheckinOpen` |
| lock the waiters, pop the front, unlock | `CheckinPop`, `CheckinNoWaiter` |
| send to the popped Sender, ignoring a failure | `CheckinSend` |
| lock the deque, push | `CheckinPush` |
| a reservation dropped without `checkin` | `Abandon` |
| `close`: store the flag; lock the waiters, clear | `CloseStore`, `CloseClear` |

`got[r]` is the value in `r`'s channel while `r` is parked, and what `r` owns
afterwards; a channel is full at most once, so one variable serves both.
`target[r]` is the Sender in the hand of `r`'s checkin.  The deque is a set:
triplets are interchangeable.  `charged` is history only, no guard reads it.  A
send finds its Receiver dropped exactly when the caller is no longer parked.
`SenderAlive` is what the Receiver can observe: the Sender is queued or popped.
Loads and stores of the flag are SeqCst, hence atomic steps.

The proofs found the strengthening `SendersInv`, which the runs check as well.

### SessionPool

The contract: no locks, no queues.  A caller is new, waiting, using, served,
refused or has quit; an item is in use by one caller, available or gone.  `Pool`
implements it under the mapping `statusBar`, `usingBar`, `goneBar`: for its caller
an item is back as soon as `checkin` has read the flag.  The contract leaves the
order of service open, because the code does not keep it (section 4); what is kept
is the order of the queue, `ServedInOrder`.

### Server

Extends `Pool`: each request is a connection with one request on it and its
handler's steps are the pool's steps joined with its own.  `conn` is the client's
side and the handler, `job` the closure (REST, SSE) or the loop (WebSocket),
`tracked` the TaskTracker.  A handler can be dropped where it awaits: in the
checkout (`Disconnect` with `Cancel`) and while its closure runs, after which the
closure's triplet goes with its result (`RestOrphaned`).  The
only other loss of a reservation is a panic of a session task (`WsPanics`).  A panic inside a closure is caught and is one more way to finish.
A blocked `blocking_send` is a disabled `SseSend`; `buffered` stands for all that
lies between the closure and the client, the socket's buffers included.  The
shutdown follows `run_with_config_listener`: token, `close` in its two steps,
axum's return when no HTTP connection is open (an upgraded one is no longer HTTP),
tracker or drain window.  The accept loop runs until the shutdown future is done.

axum, hyper and tokio are modelled from their use here: graceful shutdown waits
for connections in the middle of a request or response and drops idle ones, a
client's departure drops its handler, a `select!` that is `biased` polls in order.

Left out: payload errors beyond `Reject`, keep-alive (a second request is a second
connection), the frames of a WebSocket session: its loop is the one of `WsLoop`,
action for action (`WsFrame` is `Frame`, and so on).

### WsLoop and WsSession

`WsLoop` is what a session is to the server: send, read, infer, leave; after a
shutdown no more reading; and what the loop owes whatever its client does.
`WsSession` is `handle_ws_inner` and its handlers, and implements it (`LoopJob`); each
WebSocket request of `Server` is one (`SessionsLoop`).

| Code | Model |
|---|---|
| Ready, then the session's variables and deadline | `Greeted`, `GreetingFails` |
| the two checks at the top of the loop and the biased `select!` | `TakesFrame`, `Shutdown`, `Cap` |
| `handle_binary_frame` up to `spawn_blocking` | `Audio`, `ResampleFails` |
| its match on the closure's result | `Quiet`, `Partial`, `Endpoint`, `InferenceFails`, `InferencePanics` |
| `handle_configure_message` | `ConfigureTooLate`, `ConfigureBadVersion`, `Configure` |
| `handle_stop_message`; `flush_and_final` | `Stop`; `Flush` |
| text that does not parse, logged | `UnknownText` |
| Close, end or error of the stream, idle timeout | `Leave` |
| one `sink.send` | `Sent`, `SendFails` |

A handler runs from one await to the next; what it sends one after the other is
`outbox`, taken a message at a time, and `exit` says whether the loop goes on
after that.  The checks and the `select!` are one decision: a token cancelled
between the poll of the token and the arrival of a frame is as good as one
cancelled just after.  Bytes are known by their place in the stream, so
`SamplesAligned` says which bytes make a sample.  Words are counted: recognised,
in the assembler, in a Final, lost with a state.  Time is the two facts the loop
can see, `capped` and the width of the clock: `Uptime` and `MaxSecs` decide whether
the deadline can be computed.  `gone` is a hang-up the local socket knows of; until
then messages go to its buffer, which is `Sent`.

Left out, as they change nothing: empty binary frames, ping and pong, unknown text
that is not logged.  Left out too: the join error of `spawn_blocking`, which occurs
only when the runtime is torn down around the session.

### Rnnt and GreedyDecode

`Rnnt` is what decoding is meant to compute: the joiner is given the prediction
network's output for the present state every time, an endpoint is a pause of
`Pause` frames behind some token of the chunk.  `GreedyDecode` is `greedy_decode`,
one step per turn of its inner loop, and implements it (`ImplementsRnnt`).

| Code (`inference/decode.rs`) | Model |
|---|---|
| the call; `encoded_len` | `Start` |
| `run_decoder`, or the cached output in a blank run | `DecoderOut`, `given` |
| the joiner answers a blank | `Blank` |
| a token beyond `MAX_TOKENS_PER_STEP` | `Capped` |
| a token | `Emit` |
| end of the frames; an error; a new LSTM state of wrong length | `Return`; `Fail`; `BadShape` |
| the caller throws the state away after a panic | `Discard` |

The joiner's answer is open.  The LSTM state is known by what it has seen, the
number of tokens it consumed, so a stale cache would show as a pair other than the
present one.  `prev_token` is the token's number in the stream, not its identity.
The comment at decode.rs:221 calls the cached output stale at the cap; it is the
output for the present state there too, and throwing it away costs one run of the
network and changes nothing.

### Streaming

Extends `GreedyDecode` by everything around it for one `StreamingState`.

| Code | Model |
|---|---|
| `process_chunk` to the encoder: `prepare_audio_buffer`, mel frames | `ProcessChunk` |
| its callers: a WebSocket frame, `gigastt_stream_process_chunk`, the SSE closure | `WsFrame`, `gigastt_stream_process_chunk`, `SseChunk` |
| `decode_audio_inner`: packets, the ten-minute limit, errors | `Packet`, `FileFails`, `EndOfFile` |
| `transcribe_samples` on a whole file | `transcribe_samples`, `Transcribed` |
| `greedy_decode` | `Turn` |
| the rest of `process_chunk`: words, assembler, endpoint, `total_frames` | `ChunkDone`, `Decoded` |
| `tokens_to_words`, `TranscriptAssembler::finalize` | the same names |
| an error of inference; a panic, after which a session has a fresh state | `InferenceFails`; `InferencePanics` |
| `flush_state`: stop, shutdown, cap, end of an upload; `gigastt_stream_flush` | `FlushAndEnd`; `gigastt_stream_flush` |
| the state dropped without a flush | `Drop` |

Samples are counted, not computed with.  A word is its frames and its number of
tokens.  The variables `received` to `lost` are history: where each sample and
each token went.

What the model says of the code, and a reader may not expect:

* An endpoint needs a token and the pause behind it in one chunk.  Fifteen
  blanks are 600 ms; a client that sends smaller chunks gets no Final before it
  stops, whatever silence it sends, and the count carried over from an earlier
  chunk (`consecutive_blanks`) never has an effect.
* A chunk ends with whole windows and the next begins after them: the windows that
  would lie across the border are never computed.  Time, as `total_frames`
  counts it, falls behind by the overlap for each chunk (`SamplesOnce`).
* A word cut by a chunk's border becomes two words.
* A chunk that fails has used up its samples; the tokens found in it are lost, but
  the decoder goes on from the state they left.
* The 5 s limit of the buffer is reached by a live client's single large chunk; the
  SSE closure's chunks never reach it.

### RateLimit

`Check` is `check` from the lock on, with `try_consume`; `ReadClocks` the middleware
and the two clock readings before it.  Between the two other requests of the same
address can pass.  `EvictBegins` and `EvictLooks` are the task's `retain`, which locks
the map shard by shard, so that checks fall between its looks at two buckets;
`StepClock` sets the wall clock, once.

| Code (`server/rate_limit.rs`) | Model |
|---|---|
| `RateLimiter::new`: clamps | `refill_per_ms`, `capacity` |
| `extract_client_ip` | the same, on what a request shows of addresses |
| `Instant::now`, `now_unix_ms` | `ReadClocks` |
| the entry's lock, `or_insert_with`, `try_consume`, `last_seen_ms` | `Check`, `Refilled`, `Enough`, `Seen` |
| `evict_stale` and its ticker | `EvictBegins`, `EvictLooks`, `EvictStops` |

A bucket's f64 is an exact fraction here: tokens are counted in parts of
1 / `MsPerMinute`.  What rounding adds is not modelled.  The X-Forwarded-For text is
reduced to the address it names, if any.

`EvictedWhenFull` has `FillsInTime` as its precondition: a rate so slow that a
burst takes longer than `EvictAfter` to refill gets a fresh one by eviction.  A wall
clock set forward has the same effect, hence `~stepped`.

### ModelInstall

Processes that share the model directory, each with one command; a process that is
gone may start again with another one.  A path has a file, the parts of which are
missing, good or bad; an open file follows its inode over renames and removals.

| Code | Model |
|---|---|
| `ensure_model`, `model_files_exist`; `ensure_speaker_model` | the same names |
| the INT8 step of serve and download; of Quantize and the C interface | `ensure_int8_encoder`; `gigastt_quantize_model` |
| `load_with_pool_size` and `load_inner`; a loading thread; the rest | `load_inner`; `load_sessions`; `loaded` |
| `stream_to_partial_then_finalize`: stale partial, create, chunks, close | `DropStale`, `Create`, `Write`, `Close` |
| `finalize_download`: checksum, removal, rename | `Verify`, `RemoveCorrupt`, `Rename` |
| `quantize_model`: read, graph, write, rename | `ReadEncoder`, then `Create` to `Rename` without `Verify` |
| an error of any call; a kill; the server's end | `CallFails`; `Killed`; `ServerStops` |

`shared` is history: two processes staged one name at the same time.  `alone` is the
process that started last with no file damaged and nobody else at work, as long as
no fault comes and nobody else starts.

What the model says of the code:

* `model/mod.rs` 175-177 and 238-245 say that a crash never leaves a file under its
  final name that was not verified.  For one process at a time that holds, with any
  crash (`VerifiedUnlessShared`).  Two processes write to the same `.partial`: one can
  verify it, the other truncate it, the first rename it.  The second goes on writing
  into the file under its final name, and completes it unless it fails
  (`DamagedHasWriter`); if it does, the torn file stays, and `model_files_exist`
  takes it for installed on every later start.
* Each triplet looks for the INT8 encoder by itself.  If another process installs
  it meanwhile, an engine that says it is not INT8 may run on both; one that says it
  is, is (`SuccessIsInstalled`).
* A crash is a crash of the process: what it wrote is kept.  The code does not
  call fsync, so after a power loss a renamed file may be empty; no property here
  speaks of that.

### The MC modules

`MCPool`, `MCServer`, `MCWsSession`, `MCStreaming`, `MCRateLimit` and `MCModelInstall` are
what the configurations name.  They hold what a configuration cannot write (sets of
records, sequences), and what the documentation claims and the code does not do,
one property each.

### Mutants

Operators introduced as "Mutant of ..." stand before the action they change: the
action with a plausible slip in it.  They are in no specification; each shows that
some property notices the slip.

## 4. The runs

| Run | Instance | Shows |
|---|---|---|
| `pool` | 2 items, 3 cancellable callers, 1 blocking (43507 states) | all safety properties, refinement of `SessionPool`, release on close, completion of a handover |
| `pool_stranded` | 1 item, 2 + 1 callers | violated: a caller waits beside an idle item |
| `pool_shrinks` | 1 item, 2 + 1 callers | violated: a guard's drop on an open pool loses the item |
| `server` | 1 item, a REST, an SSE and a WebSocket request, channel of 1 (97810 states) | exclusive inference, clean drain, checkouts end, the server stops unless a client stalls it |
| `server_stalled_stream` | the same | violated: the drain window never starts while an SSE client does not read |
| `server_sigterm` | the same | violated: SIGTERM ends the process with sessions alive |
| `ws_session` | 5 bytes of audio in frames of 1 to 3, 2 words, a cap that fits the clock (32909 states) | words, samples and triplet are neither lost nor doubled, the order of priorities, the session ends when told, refinement of `WsLoop` |
| `ws_uncapped` | cap 0 | violated: the session panics after Ready |
| `streaming` | threshold 2, cap 2, window 4, hop 2, buffer 12, chunks of 2, 5 or 13 samples, 3 tokens (266891 states) | decoding as defined, endpoints, tokens and samples used once, word times in order, each turn of the loop a step to its end |
| `streaming_times` | the same | violated: a word starts after the end of the audio received |
| `rate_limit` | 2 handlers, 2 addresses, 4 requests, 6 ms, rate 3 of 4, burst 2 (1633660 states) | buckets exact whatever the order, the bound on admissions, fair eviction |
| `model_install` | 2 processes, 2 model files, INT8 and speaker, files of 2 parts, 1 fault (707929 states) | verified files, damaged ones have a writer, success means installed, recovery without repair |

Bounds.  The hazards of the pool need one checkin, one late registrant and one
caller that barges or cancels; with two items and four callers a second handover
can be under way beside the first, a Sender can be dead while another is live,
and loss can be charged twice.  The server's hazards need contention for the last
triplet between kinds of request, so there is one of each kind and one item; a
channel of one is full after one segment.  The session's hazards need an odd byte
carried into a later frame and over a one-byte frame, a word in the assembler when
the next one, a panic or an exit comes, and a frame after a configure: five bytes
and two words give all of these.
`streaming`: the hazards need an
endpoint, a token at the cap, a chunk that leaves a rest, one that overflows the
buffer (13 into 12) and an error with words behind and after it; 18 samples are at least
two chunks and up to eight frames, three tokens are a word of two and another.
`rate_limit`: two handlers of one address read and arrive in opposite orders; four
requests drain a burst of 2 and try the refill; `EvictAfter` is 4, so that
a bucket fills, goes stale, is evicted and made anew within six milliseconds.
`model_install`: a file of two parts can be half written; two processes are what a
`.partial` can be shared by; one fault interrupts any step, and runs before and after
it are free.  The three commands are a server without quantisation (it loads), a
download of everything, a forced requantisation.  They fire every action; the others
of `Command` are recombinations of their parts.
No run uses symmetry, since liveness
is checked in most and the instances are small.  Deadlock is not checked: every
caller may be done, and the server stops.

### What the violations mean

* `pool_stranded`.  The caller's fast path finds nothing; a checkin finds no waiter
  and pushes; the caller registers.  Nothing wakes it until some other checkin
  pops it.  The HTTP handlers recover by their deadline (`CheckoutsEnd`); a
  blocking checkout does not.  The item left behind also goes to the next fast
  path, ahead of the parked caller.
* `pool_shrinks`.  A cancelled caller's Sender stays in the queue.  The checkin that
  pops it fails to send, and the failed send's item is dropped.  `LossesCharged`
  bounds the damage: one item for each cancelled or abandoned call, no more.
* `server_stalled_stream`.  `axum::serve` waits for open responses without a limit
  and the drain window is entered only after it.
* `server_sigterm`.  The binary passes no shutdown receiver, and the server then
  waits for Ctrl-C only.  (As process 1 of a container the default effect of
  SIGTERM is none, and the kill that follows has the same result.)

* `ws_uncapped`.  `u64::MAX / 2` is the largest second of a Unix `Instant`, so it can
  only be added to a clock that shows less than one second.  The panic drops the
  triplet; each session costs the pool one, whatever the documented meaning of 0.

* `streaming_times`.  `total_frames` is counted in mel frames of 10 ms and used as the
  offset of encoder frames, four mel frames each, so the times of every chunk but
  the first are up to four times too late.  `WordTimesGrow` is what is left.

What holds is narrower than one may read into it: `EachWordFinalOnce` promises the
Final only on stop, shutdown and cap.  After an idle timeout, a Close or an error of
the stream the words in the assembler are not sent.

### Fairness

`Pool`: a started call runs on, since threads are scheduled and a woken task is
polled; a holder's checkin comes, since inference on a finite input ends; a
started `close` ends, it is straight-line code.  Fairness is weak, per caller.
Nothing obliges a caller to start or to give up, or anybody to close.  `Server`:
what the runtime, the blocking threads and the timers do is weakly fair.  No
client action is fair: a client need not finish a request, read, or leave.
`StopsUnlessStalled` therefore assumes that no client is stalled for ever, and
`DrainIsBounded` shows what happens otherwise.

`WsSession`: inference ends, the loop runs on, a client that is gone runs out of
frames and fails the sends.  The idle timeout is not among these, because a client
that keeps sending keeps it from passing; nor is reading.  So `EndsWhenTold` assumes
that the client reads or goes, which is the price of waiting in a send: neither the
cap nor the shutdown nor the idle timeout is looked at there, and a session whose
client does neither keeps its triplet.

`Streaming` and `RateLimit` have safety properties only and need no fairness: that the
decoder's loop ends is the decreasing bound `DecodeProgress`.  `ModelInstall`: each
process's own steps are weakly fair, since the code is sequential and a download
ends.  The latter is an assumption about the network: `reqwest::get` is called without
a timeout, and a server that stalls without closing the connection keeps the command,
and a start of the server with it, waiting for ever.  Starting a command and every
fault are not fair.  `RecoversAlone` is then a promise about a process that is left
alone by others and not left hanging by the network: it succeeds, or something
disturbs it.

## 5. Proofs

### The pool

`PoolProofs`, for any sets of items and callers; the one
assumption, `PoolAssumption`, says that blocking callers are callers and that
`None` is neither an item nor a caller.

The inductive invariant is

    IInv == TypeOK /\ SendersInv /\ UniqueOwner /\ LossesCharged /\ NoWaiterAfterClose

`UniqueOwner` and `LossesCharged` are not inductive alone: `CheckinSend` writes
another caller's channel and must find it empty, its owner parked or cancelled
and charged with nothing.  `SendersInv` says so of every live Sender: it is in the
queue once or in one hand, and its caller has nothing yet.  The proof has a lemma
for each action; the actions that only move a caller on share `QuietStep`, the
two that lose an item share `ChargeStep`; `AppendWaiter` and `PopWaiter` hold what
is needed of sequences.

| Theorem | States |
|---|---|
| `Invariance` | `Spec => []IInv` |
| `TypeCorrect`, `Exclusive`, `LossesBounded`, `CloseDrainsWaiters`, `SendersLive` | its parts |
| `QueueOrder` | `Spec => ServedInOrder` |
| `Implementation` | `Spec => PromiseSpec`: the pool implements `SessionPool` |

`Implementation` maps each critical section to one step of the contract or none,
from `IInv`: the checkin after its flag test, the registration and the delivery
are invisible, a failed send is the `Forfeit` of the caller that quit.

### The server

`ServerProofs`, for any requests of the three kinds, any triplets and any channel
capacity above zero (`ServerAssumption`).  `ServerUsesPool` comes first: each handler,
disconnect, deadline and the shutdown moves the pool by one step of `Pool` or not at
all.  So `IInv` holds in the server, and the rest is about one request at a time
(`RequestInv`): a closure or session that has not given its triplet up is a caller that
is "holding"; an SSE request with a triplet, and a WebSocket session from its start,
are in the tracker; a WebSocket request has a triplet only in its session.  `Moves`
says that a step for one request leaves the others where they are.
`InferenceExclusive` follows from "holding" and `UniqueOwner`, `CleanDrain` from
the tracker's members.

A session has two models: the loop of `WsLoop` that `Server` moves, and `WsSession`.
`SessionIsLoop` (below) has the second implement the loop; `SessionsLoop` and
`SessionMovesAsLoop` show that the loop is what `Server` has in it.  From its Ready message
on each session of the server makes the steps of `WsLoop` and no others, whoever
else uses the pool, and while it lives all moves of the loop are open to it.  The one
exception is a panic, which takes the connection with it and is two steps of the loop in
one.  So nothing a session of `WsSession` does to its job is missing in the server.

| Theorem | States |
|---|---|
| `ServerUsesPool`, `ServerPool` | `ServerSpec => Spec`, `ServerSpec => PromiseSpec` |
| `ServerTypes` | `ServerSpec => []ServerTypeOK` |
| `InferenceAlone` | `ServerSpec => []InferenceExclusive` |
| `DrainIsClean` | `ServerSpec => []CleanDrain` |
| `SessionsLoop` | `ServerSpec => SessionsAreLoops`: every session starts and goes on as `WsLoop` |
| `SessionMovesAsLoop` | a live session's moves are those of the loop, in both directions |

### The session

`WsProofs`, for any session cap, bounds on frames, bytes and words (`WsAssumption`).
The inductive invariant is

    Inv == Types /\ AudioInv /\ FreshInv /\ TripletInv /\ OutboxInv /\ WordsInv

* `AudioInv`: `SamplesAligned`, and the frame is the last part of what was decoded.
* `FreshInv`: before any audio there are no words and no resampler.  A `configure`
  message is taken only then, so the one that changes the rate finds no cache for the
  old one: `ResamplerMatchesRate` is inductive only with it.
* `TripletInv`: who has the triplet in which phase.
* `OutboxInv`: a `Close` is the last message, after a Final, and once the session has
  chosen to stop, close or be capped the assembler is empty.
* `WordsInv`: recognised words are sent, on their way, held or lost.

`Sends` says what a handler may send; every handler ends in `Respond`, and `RespondStep`
proves once that it keeps the messages and the phase in order.

| Theorem | States |
|---|---|
| `SessionTypes`, `TripletComesBack` | `Spec => []WsTypeOK`, `Spec => []TripletReturned` |
| `WordsGoOnce`, `CloseAfterFinal` | `Spec => []EachWordFinalOnce`, `Spec => []CloseIsComplete` |
| `BytesPairUp`, `CacheFits` | `Spec => []SamplesAligned`, `Spec => []ResamplerMatchesRate` |
| `LossIsTold` | `Spec => EveryLossAnnounced` |
| `SessionIsLoop` | `Spec => LoopSafety`: every step of a session is one of `WsLoop`, which `Server` has in its place, or none |

### Decoding

`GreedyProofs`, for any threshold and any cap above zero (`GreedyAssumption`).  The
inductive invariant ties each thing the code keeps to what it stands for:
`CacheInv` (in a blank run the cached output is that of the present state),
`CountInv` (once the chunk has a token, the count of blanks is the distance to the
last one), `StepInv` (the last `tokens_this_step` tokens are those of this frame),
`FramesInv` and `IdleInv`.  `EndpointIffPause` needs `CountInv`, and `CountInv` the
order of the frames; the refinement needs `CacheInv` for `given` and `StepInv` for
the cap.

| Theorem | States |
|---|---|
| `GreedyInvariant`, `GreedyTypes` | the invariant, and its type part |
| `EndpointMeansPause` | `GreedySpec => []EndpointIffPause` |
| `Refinement` | `GreedySpec => ImplementsRnnt` |
| `LoopEnds` | `GreedySpec => DecodeProgress` |

`StreamingProofs`, for any window, hop, limit and chunk sizes that satisfy
`StreamAssumption`: the window is no shorter than the hop, and a chunk of the SSE
closure fits the buffer beside a rest.  Its invariants are on top of the decoder's, and
come in two parts.  `SampleInv` is about samples and frames.  `TextInv` is about tokens
and words:

    TextInv == TextTypes /\ TokensOnce /\ WordTimesGrow /\ WithinTime /\ FileWords

`WordTimesGrow` is not inductive alone.  New words follow the old ones because no word
ends beyond `total_frames`, their offset (`WithinTime`), and that stays so because the
encoder gives no more frames than it gets (`EncodedShrinks`), so a token's frame is no
later than what the chunk adds to `total_frames`.  `FileWords`: a file has no assembler,
so that the offset 0 of its words is no step back.

What a chunk's words are is a fold over its tokens, of any number and kinds.  Induction
is done with sets, since the library's induction theorems take an operator: a set of
naturals that is not all of them has a least missing member (`NatSet`, from `WFMin`).
`FoldExists` shows so that the function a fold is defined by exists, `WordsFold` that
`tokens_to_words` goes through the intermediate values one expects of it, `AddTokenKeeps`
that a token keeps them in the order of time and adds a part if it has text.
`WordsOfTokens` is the result: the words of a chunk are in order, within the chunk, and
have as many parts as the chunk has tokens with text.  `PartsAppend`, `PartsConcat` and
`PartsLast` are the same for the count of parts in an assembler.

| Theorem | States |
|---|---|
| `SamplesGoOnce` | `Spec => []SamplesOnce`, by what `Usable` leaves (`UsableBounds`) |
| `StreamRunsGreedy` | `Spec => GreedySpec`: every step is one of the decoder's or leaves it alone |
| `StreamDecodes` | hence what is proved of the decoder holds of a stream |
| `StreamTypes` | `Spec => []StreamTypeOK` |
| `TokensGoOnce` | `Spec => []TokensOnce`, for any tokens a chunk may have |
| `WordsInOrder` | `Spec => []WordTimesGrow` |
| `LatenessBounded` | `Spec => []LateAtMost`: a word's times are too late (`streaming_times`) by no more than the factor `ENCODER_SUBSAMPLING` on the audio received, over any number of chunks |

### The limiter

`RateProofs`, for any rate, burst, handlers, addresses, clocks.  `RateAssumption`
bounds the constants; `NoneAssumption` says that `None` is no bucket.  The induction
is over `BucketsFit`: a bucket holds no more than any stretch of its admissions
leaves, and as much as the tightest one.  An admission takes a token from both
sides, a refill adds the same to both and the capacity cuts off both.  `ClockInv`
adds, for eviction, that no reading is older than `MaxPause` and that a bucket's
last refill is at most that much later than its stamp, as long as the wall clock is not
set.

| Theorem | States |
|---|---|
| `RateTypes` | `Spec => []RateTypeOK` |
| `BucketsExact` | `Spec => []TokensExact` |
| `AdmissionBound` | `Spec => []AdmittedBound` |
| `EvictionIsFair` | `Spec => EvictedWhenFull` |

### Model files

`InstallProofs` and `InstallWriters`, for any lists of files, numbers of parts,
processes, commands and faults.  `InstallAssumption` says that the INT8 encoder and
the speaker model are no model files and that the encoder is one;
`NoneAssumption`, that `None` is no name, path, content or command.

The inductive invariant of `InstallProofs` is the type, and for each process

* `Achieved`: what is under its final name, or still on the process's list, as far as
  it has come.  Other processes cannot undo it, since no step removes a file from a
  final name: `SuccessIsInstalled` needs nothing about sharing.
* `Linked`: who has a file open is writing, and the file is somewhere.
* `Unshared`, unless `shared`: no two processes stage one name, every writer has the
  file at its own path open, and what is about to be renamed is good.
  `VerifiedUnlessShared` rests on it, `Verify` is where it becomes true.

`InstallWriters` speaks of shared partials.  Its invariant `WInv` says that while
nothing has failed, a part that a file lacks, under either name, lies before a
process that has the file open (`Remaining`).  A second `Create` empties the file but
puts all of it before the second writer; a `Close` leaves nothing behind; a `Rename`
takes the writers along.  The INT8 encoder is outside of it, as its content depends on
what it was made of.

| Theorem | States |
|---|---|
| `InstallTypes` | `Spec => []InstallTypeOK` |
| `FinalFilesVerified` | `Spec => []VerifiedUnlessShared` |
| `SuccessHasFiles` | `Spec => []SuccessIsInstalled` |
| `DamageHasWriter` | `Spec => []DamagedHasWriter` |
| `FinalFilesStay` | `Spec => FilesStay`: no step, fault or crash takes a file from its final name, and none changes it unless two processes staged one name |

### Only model-checked

The liveness properties (`CloseReleasesWaiters`, `HandoverCompletes`,
`CheckoutsEnd`, `StopsUnlessStalled`, `EndsWhenTold`, `RecoversAlone`, the progress part
of `ImplementsLoop`), which need fairness and ENABLED, out of the prover's reach.
Every invariant and every action property that a passing run checks is also proved,
and the safety part of every refinement.

## 6. Not modelled

Floating-point code (mel features, resampling, quantisation), the ONNX runtime,
audio container decoding, text formats (JSON, Prometheus, SSE), the CLI, origin
matching and pointer handling in the C interface: there is no order of events in
them for a model to explore.  Speaker labels and word confidences, which decide
nothing.  The graph rewrite of `quantize.rs`, between its read and its write.
`engine_new` and `engine_free`, whose only state is a pointer.  Metrics: counters
under a mutex that nothing in the program reads back.
