------------------------------- MODULE Rnnt -------------------------------
(***************************************************************************)
(* Greedy RNN-T decoding as it is defined, one chunk after the other: the  *)
(* prediction network is run on its present state for every symbol, and    *)
(* an endpoint is a pause behind some token of the chunk.  No cache, no    *)
(* counter of blanks.                                                      *)
(***************************************************************************)
EXTENDS Integers, Sequences

CONSTANTS Kinds,        \* what a token can be
          Pause,        \* frames without a token that make an endpoint
          MaxPerFrame   \* tokens one frame may yield, at least one

VARIABLES running,      \* a chunk is being decoded
          prev,         \* the last token, by its number in the stream
          h,            \* tokens the LSTM has consumed
          seen,         \* the network's state whose output the joiner got last
          len, t,       \* encoder frames of the chunk, and those done
          tokens,       \* tokens of the chunk
          endpoint

rnntVars == <<running, prev, h, seen, len, t, tokens, endpoint>>

RnntInit ==
  /\ running = FALSE
  /\ prev = 0 /\ h = 0
  /\ seen = <<>> /\ len = 0 /\ t = 0 /\ tokens = <<>> /\ endpoint = FALSE

\* Frames from token i to the next one, or to the frame the chunk has reached.
Gap(toks, now, i) ==
  (IF i = Len(toks) THEN now ELSE toks[i + 1].frame_index) - toks[i].frame_index

Paused(toks, now) == \E i \in DOMAIN toks : Gap(toks, now, i) >= Pause

Forget == seen' = <<>> /\ len' = 0 /\ t' = 0 /\ tokens' = <<>> /\ endpoint' = FALSE

Begin ==
  /\ ~running
  /\ running' = TRUE
  /\ len' \in Nat
  /\ UNCHANGED <<prev, h, seen, t, tokens, endpoint>>

\* The joiner, on the present state and frame t.
Join == running /\ t < len /\ seen' = <<prev, h>> /\ UNCHANGED <<running, len>>

\* A blank, or a token too many for one frame.
NextFrame ==
  /\ Join
  /\ t' = t + 1
  /\ endpoint' = Paused(tokens, t')
  /\ UNCHANGED <<prev, h, tokens>>

\* The last MaxPerFrame tokens are all of this frame.
FrameFull ==
  LET n == Len(tokens) - MaxPerFrame + 1
  IN n >= 1 /\ tokens[n].frame_index = t

NewToken ==
  /\ Join
  /\ ~FrameFull
  /\ prev' = prev + 1 /\ h' = h + 1
  /\ \E kind \in Kinds : tokens' = Append(tokens, [kind |-> kind, frame_index |-> t])
  /\ UNCHANGED <<t, endpoint>>

\* The chunk is done or given up.  A token may have been noted and not consumed
\* when a chunk fails; or the stream starts afresh.
End ==
  /\ running
  /\ running' = FALSE
  /\ Forget
  /\ <<prev', h'>> \in {<<prev, h>>, <<prev + 1, h>>, <<0, 0>>}

RnntNext == Begin \/ NextFrame \/ NewToken \/ End

RnntSpec == RnntInit /\ [][RnntNext]_rnntVars
=============================================================================
