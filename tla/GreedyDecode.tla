--------------------------- MODULE GreedyDecode ---------------------------
(***************************************************************************)
(* greedy_decode, src/inference/decode.rs, one step per turn of its inner  *)
(* loop.  What the joiner answers is open; what it is given is not: the    *)
(* decoder's output, taken from the cache in a run of blanks.              *)
(*                                                                         *)
(* DecoderState is known by what it has seen: prev_token is the last token *)
(* of the stream, by number, and h (with c) the number of tokens the LSTM  *)
(* consumed.  The decoder's output on a state is known by that state.      *)
(***************************************************************************)
EXTENDS Integers, Sequences

CONSTANTS ENDPOINT_BLANK_THRESHOLD, MAX_TOKENS_PER_STEP

ASSUME GreedyAssumption ==
  /\ ENDPOINT_BLANK_THRESHOLD \in Nat \ {0}
  /\ MAX_TOKENS_PER_STEP \in Nat \ {0}

VARIABLES prev_token, h, consecutive_blanks    \* DecoderState, kept over chunks
VARIABLES running,                             \* greedy_decode has been called
          encoded_len, t,
          tokens,
          tokens_this_step,
          endpoint_detected,
          cached_decoder_output,
          in_blank_run
VARIABLE given        \* history: the decoder output the joiner was given last

state == <<prev_token, h, consecutive_blanks>>
locals == <<tokens, tokens_this_step, endpoint_detected, cached_decoder_output,
            in_blank_run, given>>
greedyVars == <<state, running, encoded_len, t, locals>>

\* Text with the mark of a word's beginning, text without it, the mark alone.
Kinds == {"begin", "inner", "bare"}

NoOutput == <<>>

GreedyInit ==
  /\ prev_token = 0 /\ h = 0 /\ consecutive_blanks = 0
  /\ running = FALSE /\ encoded_len = 0 /\ t = 0
  /\ tokens = <<>> /\ tokens_this_step = 0 /\ endpoint_detected = FALSE
  /\ cached_decoder_output = NoOutput /\ in_blank_run = FALSE /\ given = NoOutput

Start(len) ==
  /\ ~running
  /\ running' = TRUE
  /\ encoded_len' = len
  /\ UNCHANGED <<state, t, locals>>

-----------------------------------------------------------------------------
\* run_decoder, or what it returned last.
DecoderOut == IF in_blank_run THEN cached_decoder_output ELSE <<prev_token, h>>

\* The new LSTM state that comes with an output.
NewH(out) == out[2] + 1

Joined ==
  /\ running /\ t < encoded_len
  /\ given' = DecoderOut
  /\ UNCHANGED <<running, encoded_len>>

\* Mutant of CountBlank: a chunk without a token can end the utterance too.
CountAnyBlank ==
  /\ consecutive_blanks' = consecutive_blanks + 1
  /\ endpoint_detected' =
       (endpoint_detected \/ consecutive_blanks' >= ENDPOINT_BLANK_THRESHOLD)

CountBlank ==
  /\ consecutive_blanks' = consecutive_blanks + 1
  /\ endpoint_detected' =
       (endpoint_detected \/ (consecutive_blanks' >= ENDPOINT_BLANK_THRESHOLD /\ tokens # <<>>))

NextFrame == t' = t + 1 /\ tokens_this_step' = 0

Blank ==
  /\ Joined
  /\ in_blank_run' = TRUE
  /\ cached_decoder_output' = DecoderOut
  /\ CountBlank
  /\ NextFrame
  /\ UNCHANGED <<prev_token, h, tokens>>

\* A token beyond the cap is dropped: the frame is done.
Capped ==
  /\ Joined
  /\ tokens_this_step >= MAX_TOKENS_PER_STEP
  /\ in_blank_run' = FALSE
  /\ cached_decoder_output' = NoOutput
  /\ CountBlank
  /\ NextFrame
  /\ UNCHANGED <<prev_token, h, tokens>>

\* The token is the decoder's next input; the LSTM has consumed the one before.
Commit(kind) ==
  /\ cached_decoder_output' = DecoderOut
  /\ consecutive_blanks' = 0
  /\ prev_token' = prev_token + 1
  /\ h' = NewH(DecoderOut)
  /\ tokens' = Append(tokens, [kind |-> kind, frame_index |-> t])
  /\ UNCHANGED <<t, endpoint_detected>>

\* Mutants of Emit: the cap is off by one; the blank run is not left; the token is
\* not counted.
EmitOneMore(kind) ==
  /\ Joined
  /\ tokens_this_step <= MAX_TOKENS_PER_STEP
  /\ in_blank_run' = FALSE
  /\ tokens_this_step' = tokens_this_step + 1
  /\ Commit(kind)
EmitFromCache(kind) ==
  /\ Joined
  /\ tokens_this_step < MAX_TOKENS_PER_STEP
  /\ tokens_this_step' = tokens_this_step + 1
  /\ Commit(kind)
  /\ UNCHANGED in_blank_run
EmitUncounted(kind) ==
  /\ Joined
  /\ tokens_this_step < MAX_TOKENS_PER_STEP
  /\ in_blank_run' = FALSE
  /\ Commit(kind)
  /\ UNCHANGED tokens_this_step

Emit(kind) ==
  /\ Joined
  /\ tokens_this_step < MAX_TOKENS_PER_STEP
  /\ in_blank_run' = FALSE
  /\ tokens_this_step' = tokens_this_step + 1
  /\ Commit(kind)

\* The call is over: its locals are gone.
Leave ==
  /\ running
  /\ running' = FALSE /\ encoded_len' = 0 /\ t' = 0
  /\ tokens' = <<>> /\ tokens_this_step' = 0 /\ endpoint_detected' = FALSE
  /\ cached_decoder_output' = NoOutput /\ in_blank_run' = FALSE /\ given' = NoOutput

\* DecodeResult; process_chunk clears the count after an endpoint.
Return ==
  /\ t = encoded_len
  /\ Leave
  /\ consecutive_blanks' \in {consecutive_blanks, 0}
  /\ UNCHANGED <<prev_token, h>>

\* The encoder, the decoder or the joiner fails or panics, or the encoder's
\* output is shorter than it says.
Fail == Leave /\ UNCHANGED state

\* The decoder's new state has a wrong length: prev_token is set, h is not.
BadShape ==
  /\ t < encoded_len
  /\ tokens_this_step < MAX_TOKENS_PER_STEP
  /\ Leave
  /\ prev_token' = prev_token + 1
  /\ consecutive_blanks' = 0
  /\ UNCHANGED h

\* The caller throws the state away with the failed call.
FreshState == prev_token' = 0 /\ h' = 0 /\ consecutive_blanks' = 0
Discard == Leave /\ FreshState

GreedyNext ==
  \/ encoded_len' \in Nat /\ Start(encoded_len')
  \/ Blank \/ Capped \/ \E kind \in Kinds : Emit(kind)
  \/ Return \/ Fail \/ BadShape \/ Discard

GreedySpec == GreedyInit /\ [][GreedyNext]_greedyVars

-----------------------------------------------------------------------------
Token == [kind : Kinds, frame_index : Nat]
Outputs == (Nat \X Nat) \cup {NoOutput}

GreedyTypeOK ==
  /\ prev_token \in Nat /\ h \in Nat /\ consecutive_blanks \in Nat
  /\ running \in BOOLEAN
  /\ encoded_len \in Nat /\ t \in 0..encoded_len
  /\ tokens \in Seq(Token)
  /\ tokens_this_step \in 0..MAX_TOKENS_PER_STEP
  /\ endpoint_detected \in BOOLEAN
  /\ cached_decoder_output \in Outputs
  /\ in_blank_run \in BOOLEAN
  /\ given \in Outputs

Rnnt == INSTANCE Rnnt WITH
  Pause <- ENDPOINT_BLANK_THRESHOLD, MaxPerFrame <- MAX_TOKENS_PER_STEP,
  prev <- prev_token, seen <- given, len <- encoded_len, endpoint <- endpoint_detected

\* The cached output, the count of blanks that outlives a chunk and the count of
\* tokens in a frame change nothing of what is decoded: the joiner is given the
\* output for the present state every time (greedy_decode's optimisation).
ImplementsRnnt == Rnnt!RnntSpec

\* An endpoint is reported when the chunk has a pause of the threshold's length
\* behind one of its own tokens, and only then: blanks counted in earlier chunks
\* do not help, nor do earlier tokens (the test of consecutive_blanks and tokens).
EndpointIffPause == endpoint_detected <=> Rnnt!Paused(tokens, t)

\* Each turn of the inner loop uses up one of a chunk's turns, of which there is
\* the cap and one more for each frame: no answer of the joiner keeps the loop
\* from ending (the loop's two breaks and tokens_this_step).
TurnsLeft == (encoded_len - t) * (MAX_TOKENS_PER_STEP + 1) - tokens_this_step
DecodeProgress ==
  [][running /\ running' => TurnsLeft' >= 0 /\ TurnsLeft' < TurnsLeft]_greedyVars
=============================================================================
