---------------------------- MODULE WsSession ----------------------------
(***************************************************************************)
(* One WebSocket session, src/server/mod.rs handle_ws_inner: the loop over *)
(* the client's frames, the handlers of audio, configure and stop, and the *)
(* ways out of it.  The session is one task; its closure runs inference.   *)
(* Around it the client sends and reads as it likes, the server may shut   *)
(* down, and time passes.                                                  *)
(*                                                                         *)
(* A sink.send awaits until the client has taken what came before.  So the *)
(* messages a handler sends one after the other wait in outbox.            *)
(***************************************************************************)
EXTENDS Integers, SequencesExt

CONSTANTS SessionCap,   \* max_session_secs
          Uptime,       \* the monotonic clock, in seconds, when the session starts
          MaxSecs,      \* the last second that clock can show; also u64::MAX / 2
          DebugLog,     \* tracing is enabled at the debug level
          MaxFrame,     \* bound: bytes in a binary frame
          MaxBytes,     \* bound: bytes of audio in the session
          MaxWords      \* bound: words recognised in the session

ASSUME WsAssumption ==
  /\ {SessionCap, Uptime, MaxSecs, MaxFrame, MaxBytes, MaxWords} \subseteq Nat
  /\ DebugLog \in BOOLEAN

VARIABLES phase,          \* where handle_ws_inner is
          outbox,         \* messages of the current handler, not sent yet
          exit,           \* why the loop is left, "none" while it is not
          triplet,        \* who has the triplet: the session, its closure, or nobody
          stream,         \* the StreamingState
          audio_received,
          client_sample_rate,
          pending_byte,   \* the odd byte carried to the next frame, 0 if none
          frame           \* the samples the closure was given

VARIABLES cancelled,      \* the shutdown token
          capped,         \* session_deadline has passed
          gone            \* the client has hung up, and the socket knows

\* History: bytes received, samples decoded from them; words recognised, sent in
\* a Final, discarded with a StreamingState; the kind of the last message sent.
VARIABLES received, decoded, recognised, finalised, lost, last

settings == <<audio_received, client_sample_rate>>
audio == <<pending_byte, frame, received, decoded>>
environment == <<cancelled, capped, gone>>
said == <<finalised, last>>
vars == <<phase, outbox, exit, triplet, stream, settings, audio, environment,
          said, recognised, lost>>

\* The rate the model takes as it is, the default, and one more for the other three.
Native == "16k"
SUPPORTED_RATES == {"8k", Native, "48k"}
DEFAULT_SAMPLE_RATE == "48k"

\* What the properties need of a StreamingState: how many words its assembler
\* holds, whether it has a diarizer, the rate its cached resampler was made for.
FreshState(dia) == [words |-> 0, dia |-> dia, resampler |-> "none"]

Message(kind) == [kind |-> kind, words |-> 0]
Final(n) == [kind |-> "final", words |-> n]

Init ==
  /\ phase = "greeting"
  /\ outbox = <<>>
  /\ exit = "none"
  /\ triplet = "session"
  /\ stream = FreshState(FALSE)
  /\ audio_received = FALSE
  /\ client_sample_rate = DEFAULT_SAMPLE_RATE
  /\ pending_byte = 0
  /\ frame = <<>>
  /\ cancelled = FALSE /\ capped = FALSE /\ gone = FALSE
  /\ received = 0 /\ decoded = 0 /\ recognised = 0 /\ finalised = 0 /\ lost = 0
  /\ last = "none"

Over == phase \in {"ended", "panicked"}

-----------------------------------------------------------------------------
\* Where the handler goes with nothing left to send.
Onward(why) == IF why = "none" THEN "loop" ELSE "ended"

\* A handler sends msgs and returns to the loop, or leaves it for a reason.
Respond(msgs, why) ==
  /\ outbox' = msgs
  /\ exit' = why
  /\ phase' = IF msgs = <<>> THEN Onward(why) ELSE "sending"

\* A panic of the task drops the triplet, which handle_ws_inner owns.
TaskPanics ==
  /\ phase' = "panicked"
  /\ triplet' = "lost"
  /\ UNCHANGED <<outbox, exit, stream, settings, audio, environment, said, recognised, lost>>

\* Mutant of TakesFrame: the loop asks the client first.
FrameFirst == phase = "loop"

\* The loop's order: shutdown, then the session cap, then a frame.
TakesFrame == phase = "loop" /\ ~cancelled /\ ~capped

\* session_deadline = now + cap, in the seconds of an Instant.
DeadlineOverflows ==
  Uptime + (IF SessionCap = 0 THEN MaxSecs ELSE SessionCap) > MaxSecs

-----------------------------------------------------------------------------
(* The greeting *)

\* Ready is out; the session's variables are set up without another await.
Greeted ==
  /\ phase = "greeting"
  /\ ~gone
  /\ IF DeadlineOverflows
     THEN TaskPanics
     ELSE /\ phase' = "loop"
          /\ UNCHANGED <<outbox, exit, triplet, stream, settings, audio, environment,
                         said, recognised, lost>>

GreetingFails ==
  /\ phase = "greeting"
  /\ gone
  /\ Respond(<<>>, "error")
  /\ UNCHANGED <<triplet, stream, settings, audio, environment, said, recognised, lost>>

-----------------------------------------------------------------------------
(* Audio *)

\* Little-endian pairs of bytes, a trailing odd one left out.
Samples(bytes) == [i \in 1..(Len(bytes) \div 2) |-> <<bytes[2 * i - 1], bytes[2 * i]>>]

\* Mutant of Decode: an odd trailing byte is dropped.
DecodeExact(n) ==
  /\ received + n <= MaxBytes
  /\ received' = received + n
  /\ audio_received' = TRUE
  /\ frame' = Samples([i \in 1..n |-> received + i])
  /\ decoded' = decoded + Len(frame')
  /\ UNCHANGED pending_byte

\* A frame of n bytes, each known by its place in the session's audio.
Decode(n) ==
  LET data == [i \in 1..n |-> received + i]
      combined == IF pending_byte = 0 THEN data ELSE <<pending_byte>> \o data
  IN /\ received + n <= MaxBytes
     /\ received' = received + n
     /\ audio_received' = TRUE
     /\ pending_byte' = IF Len(combined) % 2 = 1 THEN Last(combined) ELSE 0
     /\ frame' = Samples(combined)
     /\ decoded' = decoded + Len(frame')

\* resample_with_cache compares no rates: it keeps the resampler it finds, or
\* makes a new one if there is none or the frame is larger than any before.
Resampled ==
  IF client_sample_rate = Native \/ frame' = <<>>
  THEN UNCHANGED stream
  ELSE \E rate \in {client_sample_rate, stream.resampler} \ {"none"} :
         stream' = [stream EXCEPT !.resampler = rate]

\* A non-empty binary frame: triplet and state move into the closure.
Audio(n) ==
  /\ TakesFrame
  /\ Decode(n)
  /\ Resampled
  /\ phase' = "infer"
  /\ triplet' = "closure"
  /\ UNCHANGED <<outbox, exit, client_sample_rate, environment, said, recognised, lost>>

\* Mutant of ResampleFails: the triplet was taken before the resampling.
ResampleFailsLate(n) ==
  /\ TakesFrame
  /\ Decode(n)
  /\ client_sample_rate # Native /\ frame' # <<>>
  /\ Respond(<<>>, "error")
  /\ triplet' = "lost"
  /\ UNCHANGED <<stream, client_sample_rate, environment, said, recognised, lost>>

ResampleFails(n) ==
  /\ TakesFrame
  /\ Decode(n)
  /\ client_sample_rate # Native /\ frame' # <<>>
  /\ Respond(<<>>, "error")
  /\ UNCHANGED <<triplet, stream, client_sample_rate, environment, said, recognised, lost>>

\* The closure returns the triplet, whatever became of the inference.
Inferred(msgs) ==
  /\ phase = "infer"
  /\ triplet' = "session"
  /\ frame' = <<>>
  /\ Respond(msgs, "none")
  /\ UNCHANGED <<settings, pending_byte, received, decoded, environment, said>>

Quiet == Inferred(<<>>) /\ UNCHANGED <<stream, recognised, lost>>

Recognises(n) ==
  /\ frame # <<>>
  /\ recognised + n <= MaxWords
  /\ recognised' = recognised + n
  /\ UNCHANGED lost

Partial(n) ==
  /\ n > 0
  /\ Recognises(n)
  /\ Inferred(<<Message("partial")>>)
  /\ stream' = [stream EXCEPT !.words = @ + n]

\* Mutant of Endpoint: finalize clones the words it should take.
EndpointKeeps(n) ==
  /\ Recognises(n)
  /\ Inferred(<<Final(stream.words + n)>>)
  /\ stream' = [stream EXCEPT !.words = @ + n]

Endpoint(n) ==
  /\ Recognises(n)
  /\ Inferred(<<Final(stream.words + n)>>)
  /\ stream' = [stream EXCEPT !.words = 0]

InferenceFails ==
  /\ frame # <<>>
  /\ Inferred(<<Message("error")>>)
  /\ UNCHANGED <<stream, recognised, lost>>

\* Mutant of InferencePanics: the state is replaced without a word.
InferencePanicsQuietly ==
  /\ frame # <<>>
  /\ Inferred(<<>>)
  /\ stream' = FreshState(FALSE)
  /\ lost' = lost + stream.words
  /\ UNCHANGED recognised

\* The panic is caught in the closure; the state may be half updated and is
\* replaced by a fresh one, without a diarizer.
InferencePanics ==
  /\ frame # <<>>
  /\ Inferred(<<Message("inference_panic")>>)
  /\ stream' = FreshState(FALSE)
  /\ lost' = lost + stream.words
  /\ UNCHANGED recognised

Infer ==
  \/ Quiet \/ InferenceFails \/ InferencePanics
  \/ \E n \in 0..MaxWords : Partial(n) \/ Endpoint(n)

-----------------------------------------------------------------------------
(* Configure, stop and other text *)

Refuse(why) ==
  /\ TakesFrame
  /\ Respond(<<Message("error")>>, why)
  /\ UNCHANGED <<triplet, stream, settings, audio, environment, said, recognised, lost>>

ConfigureTooLate == audio_received /\ Refuse("none")
ConfigureBadVersion == ~audio_received /\ Refuse("version")

\* Mutant of ConfigureRate: the rate is set before it is looked up.
ConfigureAnyRate(rate) ==
  /\ client_sample_rate' = IF rate = "none" THEN client_sample_rate ELSE rate
  /\ Respond(IF rate \in SUPPORTED_RATES \cup {"none"} THEN <<>> ELSE <<Message("error")>>, "none")

ConfigureRate(rate) ==
  /\ client_sample_rate' = IF rate \in SUPPORTED_RATES THEN rate ELSE client_sample_rate
  /\ Respond(IF rate \in SUPPORTED_RATES \cup {"none"} THEN <<>> ELSE <<Message("error")>>, "none")

ConfigureDiarization(dia) ==
  stream' = IF dia = "none" THEN stream ELSE FreshState(dia = "on")

\* Mutant of Configure: accepted at any time.
ConfigureAnytime(rate, dia) ==
  /\ TakesFrame
  /\ ConfigureRate(rate)
  /\ ConfigureDiarization(dia)
  /\ UNCHANGED <<triplet, audio_received, audio, environment, said, recognised, lost>>

\* Either field may be absent.  An unsupported rate is refused, the rest of the
\* message still applies.
Configure(rate, dia) ==
  /\ TakesFrame
  /\ ~audio_received
  /\ ConfigureRate(rate)
  /\ ConfigureDiarization(dia)
  /\ UNCHANGED <<triplet, audio_received, audio, environment, said, recognised, lost>>

\* The words of the assembler go out in a Final, an empty one if there are none.
Flush(before, after, why) ==
  /\ Respond(before \o <<Final(stream.words)>> \o after, why)
  /\ stream' = [stream EXCEPT !.words = 0]
  /\ UNCHANGED <<triplet, settings, audio, environment, said, recognised, lost>>

Stop == TakesFrame /\ Flush(<<>>, <<>>, "stop")

\* Text that is no client message is only logged: its first 100 bytes, which is
\* a panic if a character lies across the hundredth.
UnknownText ==
  /\ TakesFrame
  /\ DebugLog
  /\ TaskPanics

-----------------------------------------------------------------------------
(* The ways out *)

\* The client's Close or the end of the stream, an error on it, the idle timeout.
Leave ==
  /\ TakesFrame
  /\ \E why \in {"closed", "error", "idle"} : Respond(<<>>, why)
  /\ UNCHANGED <<triplet, stream, settings, audio, environment, said, recognised, lost>>

Shutdown ==
  /\ phase = "loop"
  /\ cancelled
  /\ Flush(<<>>, <<Message("close")>>, "shutdown")

\* Mutants of Cap: Close goes out first; the loop is not left.
CapClosesFirst ==
  /\ phase = "loop" /\ ~cancelled /\ capped
  /\ Flush(<<Message("error"), Message("close")>>, <<>>, "cap")
CapGoesOn ==
  /\ phase = "loop" /\ ~cancelled /\ capped
  /\ Flush(<<Message("error")>>, <<>>, "none")

Cap ==
  /\ phase = "loop" /\ ~cancelled /\ capped
  /\ Flush(<<Message("error")>>, <<Message("close")>>, "cap")

\* The client (or the socket's buffer) takes the next message.
Sent ==
  /\ phase = "sending"
  /\ ~gone
  /\ finalised' = finalised + Head(outbox).words
  /\ last' = Head(outbox).kind
  /\ outbox' = Tail(outbox)
  /\ phase' = IF Len(outbox) = 1 THEN Onward(exit) ELSE "sending"
  /\ UNCHANGED <<exit, triplet, stream, settings, audio, environment, recognised, lost>>

\* The error of a send in a handler ends the loop; the last sends of a session
\* ignore theirs.  What is in outbox then stays unsent.
SendFails ==
  /\ phase = "sending"
  /\ gone
  /\ phase' = "ended"
  /\ exit' = IF exit = "none" THEN "error" ELSE exit
  /\ UNCHANGED <<outbox, triplet, stream, settings, audio, environment, said, recognised, lost>>

-----------------------------------------------------------------------------
(* The environment *)

EnvironmentOnly ==
  UNCHANGED <<phase, outbox, exit, triplet, stream, settings, audio, said, recognised, lost>>

Cancel == ~Over /\ ~cancelled /\ cancelled' = TRUE /\ UNCHANGED <<capped, gone>> /\ EnvironmentOnly

Expire ==
  /\ ~Over /\ ~capped
  /\ phase # "greeting" /\ SessionCap # 0
  /\ capped' = TRUE
  /\ UNCHANGED <<cancelled, gone>> /\ EnvironmentOnly

Hangup == ~Over /\ ~gone /\ gone' = TRUE /\ UNCHANGED <<cancelled, capped>> /\ EnvironmentOnly

-----------------------------------------------------------------------------
ClientFrame ==
  \/ \E n \in 1..MaxFrame : Audio(n) \/ ResampleFails(n)
  \/ ConfigureTooLate \/ ConfigureBadVersion
  \/ \E rate \in SUPPORTED_RATES \cup {"none", "bad"}, dia \in {"none", "on", "off"} :
       Configure(rate, dia)
  \/ Stop \/ UnknownText

Next ==
  \/ Greeted \/ GreetingFails
  \/ ClientFrame \/ Infer
  \/ Leave \/ Shutdown \/ Cap
  \/ Sent \/ SendFails
  \/ Cancel \/ Expire \/ Hangup

Spec == Init /\ [][Next]_vars

(***************************************************************************)
(* Fairness: inference on a frame ends, the loop runs on, and once the     *)
(* client is gone its frames run out and sends to it fail.  Nothing makes  *)
(* a client read, or stop sending.                                         *)
(***************************************************************************)
Fairness ==
  /\ WF_vars(Infer)
  /\ WF_vars(Shutdown) /\ WF_vars(Cap)
  /\ WF_vars(gone /\ Leave) /\ WF_vars(GreetingFails) /\ WF_vars(SendFails)

FairSpec == Spec /\ Fairness

-----------------------------------------------------------------------------
Phases == {"greeting", "loop", "infer", "sending", "ended", "panicked"}
Kinds == {"partial", "final", "error", "inference_panic", "close"}

WsTypeOK ==
  /\ phase \in Phases
  /\ outbox \in BoundedSeq([kind : Kinds, words : 0..MaxWords], 3)
  /\ exit \in {"none", "stop", "shutdown", "cap", "version", "idle", "closed", "error"}
  /\ triplet \in {"session", "closure", "lost"}
  /\ stream \in [words : 0..MaxWords, dia : BOOLEAN, resampler : SUPPORTED_RATES \cup {"none"}]
  /\ audio_received \in BOOLEAN
  /\ client_sample_rate \in SUPPORTED_RATES
  /\ pending_byte \in 0..MaxBytes
  /\ frame \in BoundedSeq((1..MaxBytes) \X (1..MaxBytes), MaxFrame)
  /\ {cancelled, capped, gone} \subseteq BOOLEAN
  /\ received \in 0..MaxBytes /\ decoded \in 0..MaxBytes
  /\ {recognised, finalised, lost} \subseteq 0..MaxWords
  /\ last \in Kinds \cup {"none"}

\* No handler sends more than three messages.
WordsIn(msgs) ==
  LET Words(i) == IF i \in DOMAIN msgs THEN msgs[i].words ELSE 0
  IN Words(1) + Words(2) + Words(3)

Unsent == WordsIn(outbox)

\* Every recognised word is in exactly one Final, or still in the assembler, or
\* went with the state of a panic; and a session that stops, is capped or is
\* shut down leaves none behind (append, finalize, flush_state, create_state).
EachWordFinalOnce ==
  /\ recognised = finalised + Unsent + stream.words + lost
  /\ phase = "ended" /\ exit \in {"stop", "shutdown", "cap"} => stream.words = 0

\* When a Close goes out the client has had a Final as the message before it,
\* and every word (flush_and_final before Close in both branches that close).
CloseIsComplete ==
  phase = "sending" /\ Head(outbox).kind = "close" =>
    last = "final" /\ finalised + lost = recognised

\* However the client cuts its stream into frames, sample k is made of the bytes
\* 2k - 1 and 2k, in order, none left out (handle_binary_frame's pending_byte).
SamplesAligned ==
  /\ \A i \in DOMAIN frame :
       LET k == decoded - Len(frame) + i IN frame[i] = <<2 * k - 1, 2 * k>>
  /\ pending_byte = IF received % 2 = 1 THEN received ELSE 0
  /\ decoded = received \div 2

\* The cached resampler was made for the rate the client sends at: the cache
\* itself does not look (resample_with_cache, handle_configure_message).
ResamplerMatchesRate == stream.resampler \in {"none", client_sample_rate}

\* The triplet is with the closure during inference only, and is there to be
\* checked in on every way out but a panic of the task (handle_ws_inner).
TripletReturned ==
  /\ phase = "infer" <=> triplet = "closure"
  /\ phase = "ended" => triplet = "session"

\* Words and the diarizer are never dropped behind the client's back: it asked
\* before any audio, or it is told of the panic (handle_binary_frame).
EveryLossAnnounced ==
  [][lost' > lost \/ (stream.dia /\ ~stream'.dia) =>
       ~audio_received \/ outbox' = <<Message("inference_panic")>>]_vars

\* Shutdown, the session cap and a client that hangs up each end the session,
\* unless a client that stays does not read: then the task hangs in its send.
Blocked == phase \in {"greeting", "sending"} /\ ~gone
EndsWhenTold ==
  ([]<>~Blocked) => ((cancelled \/ capped \/ gone) ~> Over)

LoopJob ==
  CASE phase = "greeting" -> "sending"
    [] phase = "loop" -> "idle"
    [] phase = "infer" -> "infer"
    [] phase = "sending" -> IF exit = "none" THEN "sending" ELSE "closing"
    [] phase = "ended" -> "ending"
    [] phase = "panicked" -> "lost"

Loop == INSTANCE WsLoop WITH job <- LoopJob

\* The session is what Server takes it for: it reads no frame after a shutdown,
\* closes once, and moves on wherever its client cannot hold it.
ImplementsLoop == Loop!LoopSpec
=============================================================================
