--------------------------- MODULE GreedyProofs ---------------------------
(***************************************************************************)
(* greedy_decode computes what Rnnt defines, for every threshold and every *)
(* cap.  The inductive invariant relates each thing the code keeps to save *)
(* work to what it stands for: the cached output to the state, the count   *)
(* of blanks to the distance from the last token, the count of a frame's   *)
(* tokens to the tokens of that frame.                                     *)
(***************************************************************************)
EXTENDS GreedyDecode, TLAPS

\* Between two calls the locals are as a call finds them.
Blank0 ==
  /\ encoded_len = 0 /\ t = 0
  /\ tokens = <<>> /\ tokens_this_step = 0 /\ endpoint_detected = FALSE
  /\ cached_decoder_output = NoOutput /\ in_blank_run = FALSE /\ given = NoOutput
IdleInv == ~running => Blank0

\* The cache, where it is used, holds the output for the present state.
CacheInv == in_blank_run => cached_decoder_output = <<prev_token, h>>

\* Tokens come in the order of frames, none beyond the present one.
FramesInv ==
  /\ \A i \in DOMAIN tokens : tokens[i].frame_index <= t
  /\ \A i, j \in DOMAIN tokens : i <= j => tokens[i].frame_index <= tokens[j].frame_index

\* Once the chunk has a token the count of blanks is the distance to the last one.
CountInv ==
  tokens # <<>> => consecutive_blanks = t - tokens[Len(tokens)].frame_index

\* The last tokens_this_step tokens are those of the present frame.
StepInv ==
  /\ tokens_this_step <= Len(tokens)
  /\ \A i \in DOMAIN tokens :
       tokens[i].frame_index = t <=> i > Len(tokens) - tokens_this_step

Inv == GreedyTypeOK /\ IdleInv /\ CacheInv /\ FramesInv /\ CountInv /\ StepInv
       /\ EndpointIffPause

USE GreedyAssumption

-----------------------------------------------------------------------------
LEMMA OutputsHas ==
  /\ NoOutput \in Outputs
  /\ \A a, b \in Nat : <<a, b>> \in Outputs
  BY DEF Outputs

\* The decoder's output is the one for the present state, cached or not.
LEMMA OutIsPresent ==
  ASSUME GreedyTypeOK, CacheInv
  PROVE  /\ DecoderOut = <<prev_token, h>>
         /\ NewH(DecoderOut) = h + 1
  BY DEF GreedyTypeOK, CacheInv, DecoderOut, NewH

\* One more token at the end.
LEMMA Appended ==
  ASSUME NEW s \in Seq(Token), NEW e \in Token, NEW r, r = Append(s, e)
  PROVE  /\ r \in Seq(Token)
         /\ Len(r) = Len(s) + 1
         /\ DOMAIN r = 1..(Len(s) + 1)
         /\ DOMAIN s = 1..Len(s)
         /\ \A i \in 1..Len(s) : r[i] = s[i]
         /\ r[Len(s) + 1] = e
  OBVIOUS

LEMMA FramesNat ==
  ASSUME NEW s \in Seq(Token)
  PROVE  /\ Len(s) \in Nat /\ DOMAIN s = 1..Len(s)
         /\ \A i \in 1..Len(s) : s[i].frame_index \in Nat
  <1>1. Len(s) \in Nat /\ DOMAIN s = 1..Len(s) /\ \A i \in 1..Len(s) : s[i] \in Token
    OBVIOUS
  <1>2. \A e \in Token : e.frame_index \in Nat
    BY DEF Token
  <1> QED
    BY <1>1, <1>2

\* A pause is the pause behind the last token or one that was there before.
LEMMA PausedNextFrame ==
  ASSUME NEW s \in Seq(Token), NEW n \in Nat
  PROVE  Rnnt!Paused(s, n + 1) <=>
           \/ Rnnt!Paused(s, n)
           \/ s # <<>> /\ n + 1 - s[Len(s)].frame_index >= ENDPOINT_BLANK_THRESHOLD
  <1>1. /\ Len(s) \in Nat /\ DOMAIN s = 1..Len(s)
        /\ \A i \in 1..Len(s) : s[i].frame_index \in Nat
    BY FramesNat
  <1>2. \A i \in 1..Len(s) : i # Len(s) => Rnnt!Gap(s, n + 1, i) = Rnnt!Gap(s, n, i)
    BY DEF Rnnt!Gap
  <1>3. s # <<>> => Len(s) \in 1..Len(s)
    BY <1>1
  <1>4. s # <<>> => /\ Rnnt!Gap(s, n + 1, Len(s)) = n + 1 - s[Len(s)].frame_index
                    /\ Rnnt!Gap(s, n, Len(s)) = n - s[Len(s)].frame_index
                    /\ s[Len(s)].frame_index \in Nat
    BY <1>1, <1>3 DEF Rnnt!Gap
  <1>5. CASE s = <<>>
    BY <1>5, <1>1 DEF Rnnt!Paused
  <1>6. CASE s # <<>>
    <2>1. ASSUME Rnnt!Paused(s, n + 1), ~Rnnt!Paused(s, n)
          PROVE  n + 1 - s[Len(s)].frame_index >= ENDPOINT_BLANK_THRESHOLD
      <3>1. PICK i \in 1..Len(s) : Rnnt!Gap(s, n + 1, i) >= ENDPOINT_BLANK_THRESHOLD
        BY <2>1, <1>1 DEF Rnnt!Paused
      <3>2. i = Len(s)
        BY <2>1, <3>1, <1>1, <1>2 DEF Rnnt!Paused
      <3> QED
        BY <3>1, <3>2, <1>4, <1>6
    <2>2. ASSUME Rnnt!Paused(s, n)
          PROVE  Rnnt!Paused(s, n + 1)
      <3>1. PICK i \in 1..Len(s) : Rnnt!Gap(s, n, i) >= ENDPOINT_BLANK_THRESHOLD
        BY <2>2, <1>1 DEF Rnnt!Paused
      <3>2. Rnnt!Gap(s, n + 1, i) >= ENDPOINT_BLANK_THRESHOLD
        BY <3>1, <1>2, <1>4, <1>6
      <3> QED
        BY <3>2, <1>1 DEF Rnnt!Paused
    <2>3. ASSUME n + 1 - s[Len(s)].frame_index >= ENDPOINT_BLANK_THRESHOLD
          PROVE  Rnnt!Paused(s, n + 1)
      BY <2>3, <1>1, <1>3, <1>4, <1>6 DEF Rnnt!Paused
    <2> QED
      BY <2>1, <2>2, <2>3, <1>6
  <1> QED
    BY <1>5, <1>6

\* A token of the present frame makes no pause, if it comes behind all others.
LEMMA PausedNewToken ==
  ASSUME NEW s \in Seq(Token), NEW e \in Token, NEW n \in Nat, e.frame_index = n,
         NEW r, r = Append(s, e)
  PROVE  Rnnt!Paused(r, n) <=> Rnnt!Paused(s, n)
  <1>1. /\ DOMAIN r = 1..(Len(s) + 1) /\ DOMAIN s = 1..Len(s) /\ Len(s) \in Nat
        /\ Len(r) = Len(s) + 1
        /\ \A i \in 1..Len(s) : r[i] = s[i]
        /\ r[Len(s) + 1] = e
    BY Appended
  <1>2. ASSUME NEW i \in 1..Len(s)
        PROVE  Rnnt!Gap(r, n, i) = Rnnt!Gap(s, n, i)
    <2>1. CASE i = Len(s)
      BY <1>1, <2>1 DEF Rnnt!Gap
    <2>2. CASE i # Len(s)
      <3>0. \A m \in Nat : i \in 1..m /\ i # m => i + 1 \in 1..m /\ i # m + 1
        OBVIOUS
      <3>1. i + 1 \in 1..Len(s) /\ i # Len(r)
        BY <1>1, <2>2, <3>0, Zenon
      <3>2. r[i] = s[i] /\ r[i + 1] = s[i + 1]
        BY <1>1, <3>1
      <3>3. Rnnt!Gap(r, n, i) = r[i + 1].frame_index - r[i].frame_index
        BY <3>1 DEF Rnnt!Gap
      <3>4. Rnnt!Gap(s, n, i) = s[i + 1].frame_index - s[i].frame_index
        BY <2>2 DEF Rnnt!Gap
      <3> QED
        BY <3>2, <3>3, <3>4
    <2> QED
      BY <2>1, <2>2
  <1>3. Rnnt!Gap(r, n, Len(s) + 1) = 0
    BY <1>1 DEF Rnnt!Gap, Token
  <1> QED
    BY <1>1, <1>2, <1>3 DEF Rnnt!Paused

-----------------------------------------------------------------------------
LEMMA InitInv == GreedyInit => Inv
  <1> SUFFICES ASSUME GreedyInit PROVE Inv
    OBVIOUS
  <1> USE DEF GreedyInit
  <1>1. GreedyTypeOK
    <2>1. /\ prev_token \in Nat /\ h \in Nat /\ consecutive_blanks \in Nat
          /\ encoded_len \in Nat /\ t \in 0..encoded_len
          /\ tokens_this_step \in 0..MAX_TOKENS_PER_STEP
      OBVIOUS
    <2>2. tokens \in Seq(Token)
      OBVIOUS
    <2> QED
      BY <2>1, <2>2, OutputsHas, Zenon DEF GreedyTypeOK
  <1>2. IdleInv /\ CacheInv
    BY DEF IdleInv, Blank0, CacheInv
  <1>3. FramesInv /\ CountInv /\ StepInv
    BY DEF FramesInv, CountInv, StepInv
  <1>4. EndpointIffPause
    BY DEF EndpointIffPause, Rnnt!Paused
  <1> QED
    BY <1>1, <1>2, <1>3, <1>4 DEF Inv

LEMMA StartInv ==
  ASSUME Inv, encoded_len' \in Nat, Start(encoded_len')
  PROVE  Inv'
  <1> USE DEF Start, state, locals, Inv
  <1>1. Blank0
    BY DEF IdleInv
  <1>2. GreedyTypeOK'
    BY <1>1 DEF GreedyTypeOK, Blank0
  <1>3. IdleInv' /\ CacheInv'
    BY DEF IdleInv, CacheInv
  <1>4. FramesInv' /\ CountInv' /\ StepInv'
    BY DEF FramesInv, CountInv, StepInv
  <1>5. EndpointIffPause'
    BY DEF EndpointIffPause, Rnnt!Paused, Rnnt!Gap
  <1> QED
    BY <1>2, <1>3, <1>4, <1>5

\* The frame is done, with a blank or with a token that is dropped.
LEMMA FrameDoneInv ==
  ASSUME Inv, Blank \/ Capped
  PROVE  Inv'
  <1> USE DEF Joined, NextFrame, CountBlank
  <1>0. GreedyTypeOK /\ CacheInv /\ FramesInv /\ CountInv /\ StepInv /\ EndpointIffPause
    BY DEF Inv
  <1>1. /\ running /\ running' = running /\ encoded_len' = encoded_len
        /\ t' = t + 1 /\ tokens_this_step' = 0 /\ tokens' = tokens
        /\ prev_token' = prev_token /\ h' = h
        /\ consecutive_blanks' = consecutive_blanks + 1
        /\ endpoint_detected' = (endpoint_detected \/
             (consecutive_blanks' >= ENDPOINT_BLANK_THRESHOLD /\ tokens # <<>>))
        /\ given' = DecoderOut /\ t < encoded_len
    BY DEF Blank, Capped
  <1>2. DecoderOut = <<prev_token, h>>
    BY <1>0, OutIsPresent
  <1>3. /\ in_blank_run' \in BOOLEAN
        /\ cached_decoder_output' \in Outputs /\ given' \in Outputs
        /\ in_blank_run' => cached_decoder_output' = <<prev_token, h>>
    <2>1. DecoderOut \in Outputs
      BY <1>0, <1>2, OutputsHas DEF GreedyTypeOK
    <2>2. CASE Blank
      BY <1>1, <1>2, <2>1, <2>2 DEF Blank
    <2>3. CASE Capped
      BY <1>1, <2>1, <2>3, OutputsHas DEF Capped
    <2> QED
      BY <2>2, <2>3
  <1>4. GreedyTypeOK'
    <2>1. endpoint_detected' \in BOOLEAN
      BY <1>1
    <2>2. t' \in 0..encoded_len'
      BY <1>0, <1>1 DEF GreedyTypeOK
    <2> QED
      BY <1>0, <1>1, <1>3, <2>1, <2>2 DEF GreedyTypeOK
  <1>5. IdleInv' /\ CacheInv'
    BY <1>1, <1>3 DEF IdleInv, CacheInv
  <1>6. /\ Len(tokens) \in Nat /\ DOMAIN tokens = 1..Len(tokens)
        /\ \A i \in 1..Len(tokens) : tokens[i].frame_index \in Nat
        /\ t \in Nat
    BY <1>0, FramesNat DEF GreedyTypeOK
  <1>7. FramesInv'
    BY <1>0, <1>1, <1>6 DEF FramesInv
  <1>8. CountInv'
    BY <1>0, <1>1, <1>6 DEF CountInv, GreedyTypeOK
  <1>9. StepInv'
    BY <1>0, <1>1, <1>6 DEF StepInv, FramesInv
  <1>10. EndpointIffPause'
    <2>1. Rnnt!Paused(tokens, t + 1) <=>
            \/ Rnnt!Paused(tokens, t)
            \/ tokens # <<>> /\ t + 1 - tokens[Len(tokens)].frame_index
                                 >= ENDPOINT_BLANK_THRESHOLD
      BY <1>0, <1>6, PausedNextFrame DEF GreedyTypeOK
    <2>2. ASSUME tokens # <<>>
          PROVE  consecutive_blanks + 1 = t + 1 - tokens[Len(tokens)].frame_index
      <3> DEFINE last == tokens[Len(tokens)].frame_index
      <3>1. tokens \in Seq(Token) /\ consecutive_blanks \in Nat
        BY <1>0 DEF GreedyTypeOK
      <3>2. Len(tokens) \in 1..Len(tokens)
        BY <2>2, <3>1, <1>6
      <3>3. last \in Nat
        BY <1>6, <3>2
      <3>4. consecutive_blanks = t - last
        BY <1>0, <2>2 DEF CountInv
      <3> HIDE DEF last
      <3>5. consecutive_blanks + 1 = t + 1 - last
        BY <1>6, <3>3, <3>4
      <3> QED
        BY <3>5 DEF last
    <2>3. endpoint_detected' <=> Rnnt!Paused(tokens, t + 1)
      BY <1>0, <1>1, <2>1, <2>2 DEF EndpointIffPause
    <2> QED
      BY <2>3, <1>1 DEF EndpointIffPause, Rnnt!Paused, Rnnt!Gap
  <1> QED
    BY <1>4, <1>5, <1>7, <1>8, <1>9, <1>10 DEF Inv

LEMMA EmitInv ==
  ASSUME Inv, NEW kind \in Kinds, Emit(kind)
  PROVE  Inv'
  <1> DEFINE e == [kind |-> kind, frame_index |-> t]
             n == Len(tokens)
  <1>0. GreedyTypeOK /\ CacheInv /\ FramesInv /\ CountInv /\ StepInv /\ EndpointIffPause
    BY DEF Inv
  <1>1. /\ running /\ running' = running /\ encoded_len' = encoded_len /\ t' = t
        /\ tokens_this_step < MAX_TOKENS_PER_STEP
        /\ tokens_this_step' = tokens_this_step + 1 /\ tokens' = Append(tokens, e)
        /\ prev_token' = prev_token + 1 /\ h' = NewH(DecoderOut)
        /\ consecutive_blanks' = 0 /\ endpoint_detected' = endpoint_detected
        /\ given' = DecoderOut /\ t < encoded_len
        /\ cached_decoder_output' = DecoderOut /\ in_blank_run' = FALSE
    BY DEF Emit, Commit, Joined
  <1>2. DecoderOut = <<prev_token, h>> /\ NewH(DecoderOut) = h + 1
    BY <1>0, OutIsPresent
  <1>3. t \in Nat /\ e \in Token /\ e.frame_index = t
    BY <1>0 DEF GreedyTypeOK, Token
  <1>4. /\ n \in Nat /\ DOMAIN tokens = 1..n
        /\ \A i \in 1..n : tokens[i].frame_index \in Nat
    BY <1>0, FramesNat DEF GreedyTypeOK
  <1>5. /\ tokens' \in Seq(Token) /\ Len(tokens') = n + 1 /\ DOMAIN tokens' = 1..(n + 1)
        /\ \A i \in 1..n : tokens'[i] = tokens[i]
        /\ tokens'[n + 1] = e
    BY <1>0, <1>1, <1>3, Appended DEF GreedyTypeOK
  <1> HIDE DEF e, n
  <1>6. GreedyTypeOK'
    <2>1. DecoderOut \in Outputs
      BY <1>0, <1>2, OutputsHas DEF GreedyTypeOK
    <2>2. tokens_this_step' \in 0..MAX_TOKENS_PER_STEP
      BY <1>0, <1>1 DEF GreedyTypeOK
    <2>3. prev_token' \in Nat /\ h' \in Nat /\ consecutive_blanks' \in Nat
      BY <1>0, <1>1, <1>2 DEF GreedyTypeOK
    <2>4. encoded_len' \in Nat /\ t' \in 0..encoded_len'
      BY <1>0, <1>1 DEF GreedyTypeOK
    <2> QED
      BY <1>0, <1>1, <1>5, <2>1, <2>2, <2>3, <2>4, Zenon DEF GreedyTypeOK
  <1>7. IdleInv' /\ CacheInv'
    BY <1>1 DEF IdleInv, CacheInv
  <1>8. FramesInv'
    <2>1. \A i \in 1..n : tokens[i].frame_index <= t
      BY <1>0, <1>4 DEF FramesInv
    <2>2. \A i, j \in 1..n : i <= j => tokens[i].frame_index <= tokens[j].frame_index
      BY <1>0, <1>4 DEF FramesInv
    <2>3. \A i \in 1..(n + 1) : tokens'[i].frame_index <= t
      BY <1>3, <1>4, <1>5, <2>1
    <2>4. ASSUME NEW i \in 1..(n + 1), NEW j \in 1..(n + 1), i <= j
          PROVE  tokens'[i].frame_index <= tokens'[j].frame_index
      BY <1>3, <1>4, <1>5, <2>1, <2>2, <2>4
    <2> QED
      BY <1>1, <1>5, <2>3, <2>4 DEF FramesInv
  <1>9. CountInv'
    BY <1>1, <1>3, <1>4, <1>5 DEF CountInv
  <1>10. StepInv'
    <2>1. /\ tokens_this_step \in Nat /\ tokens_this_step <= n
          /\ \A i \in 1..n : tokens[i].frame_index = t <=> i > n - tokens_this_step
      BY <1>0, <1>4 DEF StepInv, GreedyTypeOK, n
    <2>2. \A i \in 1..(n + 1) :
            tokens'[i].frame_index = t <=> i > (n + 1) - (tokens_this_step + 1)
      BY <1>3, <1>4, <1>5, <2>1
    <2> QED
      BY <1>1, <1>4, <1>5, <2>1, <2>2 DEF StepInv
  <1>11. EndpointIffPause'
    <2>1. Rnnt!Paused(tokens', t) <=> Rnnt!Paused(tokens, t)
      BY <1>0, <1>1, <1>3, PausedNewToken DEF GreedyTypeOK
    <2> QED
      BY <1>0, <1>1, <2>1 DEF EndpointIffPause, Rnnt!Paused, Rnnt!Gap
  <1> QED
    BY <1>6, <1>7, <1>8, <1>9, <1>10, <1>11 DEF Inv

\* However a call ends, the locals are gone and the state has its type.
LEMMA LeaveInv ==
  ASSUME Inv, Return \/ Fail \/ BadShape \/ Discard
  PROVE  Inv'
  <1>1. Leave /\ prev_token' \in Nat /\ h' \in Nat /\ consecutive_blanks' \in Nat
    BY DEF Inv, GreedyTypeOK, Return, Fail, BadShape, Discard, FreshState, state
  <1> USE DEF Leave
  <1>2. GreedyTypeOK'
    <2>1. encoded_len' \in Nat /\ t' \in 0..encoded_len'
          /\ tokens_this_step' \in 0..MAX_TOKENS_PER_STEP
      BY <1>1
    <2>2. tokens' \in Seq(Token)
      BY <1>1
    <2> QED
      BY <1>1, <2>1, <2>2, OutputsHas, Zenon DEF GreedyTypeOK
  <1>3. IdleInv' /\ CacheInv'
    BY <1>1 DEF IdleInv, Blank0, CacheInv
  <1>4. FramesInv' /\ CountInv' /\ StepInv'
    BY <1>1 DEF FramesInv, CountInv, StepInv
  <1>5. EndpointIffPause'
    BY <1>1 DEF EndpointIffPause, Rnnt!Paused
  <1> QED
    BY <1>2, <1>3, <1>4, <1>5 DEF Inv

LEMMA NextInv == Inv /\ [GreedyNext]_greedyVars => Inv'
  <1> SUFFICES ASSUME Inv, [GreedyNext]_greedyVars PROVE Inv'
    OBVIOUS
  <1>1. CASE encoded_len' \in Nat /\ Start(encoded_len')
    BY <1>1, StartInv
  <1>2. CASE Blank \/ Capped
    BY <1>2, FrameDoneInv
  <1>3. CASE \E kind \in Kinds : Emit(kind)
    BY <1>3, EmitInv
  <1>4. CASE Return \/ Fail \/ BadShape \/ Discard
    BY <1>4, LeaveInv
  <1>5. CASE UNCHANGED greedyVars
    BY <1>5 DEF greedyVars, state, locals, Inv, GreedyTypeOK, IdleInv, Blank0, CacheInv,
       FramesInv, CountInv, StepInv, EndpointIffPause, Rnnt!Paused, Rnnt!Gap
  <1> QED
    BY <1>1, <1>2, <1>3, <1>4, <1>5 DEF GreedyNext

\* Every call of greedy_decode, on whatever state the calls before it left, keeps
\* the cache, the count of blanks and the tokens of a frame in step with the state.
THEOREM GreedyInvariant == GreedySpec => []Inv
  BY InitInv, NextInv, PTL DEF GreedySpec

\* No frame yields more tokens than the cap and no call runs past its frames
\* (greedy_decode's loops).
THEOREM GreedyTypes == GreedySpec => []GreedyTypeOK
  BY GreedyInvariant, PTL DEF Inv

\* An endpoint is a pause of the threshold's length behind one of the chunk's own
\* tokens, for every threshold (the test of consecutive_blanks and tokens).
THEOREM EndpointMeansPause == GreedySpec => []EndpointIffPause
  BY GreedyInvariant, PTL DEF Inv

-----------------------------------------------------------------------------
\* The count of a frame's tokens tells when the frame is full.
LEMMA FullIffCounted ==
  ASSUME GreedyTypeOK, StepInv
  PROVE  Rnnt!FrameFull <=> tokens_this_step >= MAX_TOKENS_PER_STEP
  <1> DEFINE n == Len(tokens) - MAX_TOKENS_PER_STEP + 1
  <1>1. /\ Len(tokens) \in Nat /\ DOMAIN tokens = 1..Len(tokens)
        /\ tokens_this_step \in 0..MAX_TOKENS_PER_STEP /\ tokens_this_step <= Len(tokens)
        /\ \A i \in 1..Len(tokens) :
             tokens[i].frame_index = t <=> i > Len(tokens) - tokens_this_step
    BY FramesNat DEF GreedyTypeOK, StepInv
  <1>2. n \in Int /\ (n >= 1 => n \in 1..Len(tokens))
    BY <1>1
  <1>3. n >= 1 => (tokens[n].frame_index = t <=> n > Len(tokens) - tokens_this_step)
    BY <1>1, <1>2
  <1>4. tokens_this_step >= MAX_TOKENS_PER_STEP <=>
          n >= 1 /\ n > Len(tokens) - tokens_this_step
    BY <1>1
  <1> QED
    BY <1>3, <1>4 DEF Rnnt!FrameFull

LEMMA FrameDoneMapped ==
  ASSUME Inv, Inv', Blank \/ Capped
  PROVE  Rnnt!NextFrame
  <1>1. DecoderOut = <<prev_token, h>>
    BY OutIsPresent DEF Inv
  <1>2. endpoint_detected' <=> Rnnt!Paused(tokens', t')
    BY DEF Inv, EndpointIffPause, Rnnt!Paused, Rnnt!Gap
  <1>3. tokens' = tokens /\ endpoint_detected' \in BOOLEAN
    BY DEF Inv, GreedyTypeOK, Blank, Capped
  <1>4. endpoint_detected' = Rnnt!Paused(tokens, t')
    BY <1>2, <1>3 DEF Rnnt!Paused, Rnnt!Gap
  <1> QED
    BY <1>1, <1>3, <1>4 DEF Blank, Capped, Joined, NextFrame, Rnnt!NextFrame, Rnnt!Join

LEMMA EmitMapped ==
  ASSUME Inv, NEW kind \in Kinds, Emit(kind)
  PROVE  Rnnt!NewToken
  <1>1. DecoderOut = <<prev_token, h>> /\ NewH(DecoderOut) = h + 1
    BY OutIsPresent DEF Inv
  <1>2. ~Rnnt!FrameFull
    BY FullIffCounted DEF Inv, GreedyTypeOK, Emit
  <1>3. Rnnt!Join /\ prev_token' = prev_token + 1 /\ h' = h + 1
    BY <1>1 DEF Emit, Commit, Joined, Rnnt!Join
  <1>4. \E k \in Kinds : tokens' = Append(tokens, [kind |-> k, frame_index |-> t])
    BY DEF Emit, Commit
  <1> QED
    BY <1>2, <1>3, <1>4 DEF Emit, Commit, Rnnt!NewToken

LEMMA LeaveMapped ==
  ASSUME Return \/ Fail \/ BadShape \/ Discard
  PROVE  Rnnt!End
  <1>1. /\ running /\ running' = FALSE
        /\ Rnnt!Forget
    BY DEF Return, Fail, BadShape, Discard, Leave, NoOutput, Rnnt!Forget
  <1>2. <<prev_token', h'>> \in
          {<<prev_token, h>>, <<prev_token + 1, h>>, <<0, 0>>}
    BY DEF Return, Fail, BadShape, Discard, FreshState, state
  <1> QED
    BY <1>1, <1>2 DEF Rnnt!End

\* greedy_decode is greedy RNN-T decoding: neither the cached decoder output, nor
\* the count of blanks kept over chunks, nor the count of tokens in a frame changes
\* what is decoded or when an endpoint is reported.
THEOREM Refinement == GreedySpec => ImplementsRnnt
  <1>1. GreedyInit => Rnnt!RnntInit
    BY DEF GreedyInit, NoOutput, Rnnt!RnntInit
  <1>2. Inv /\ Inv' /\ [GreedyNext]_greedyVars => [Rnnt!RnntNext]_(Rnnt!rnntVars)
    <2> SUFFICES ASSUME Inv, Inv', [GreedyNext]_greedyVars
                 PROVE  Rnnt!RnntNext \/ UNCHANGED Rnnt!rnntVars
      OBVIOUS
    <2>1. CASE encoded_len' \in Nat /\ Start(encoded_len')
      BY <2>1 DEF Start, state, locals, Rnnt!RnntNext, Rnnt!Begin
    <2>2. CASE Blank \/ Capped
      BY <2>2, FrameDoneMapped DEF Rnnt!RnntNext
    <2>3. CASE \E kind \in Kinds : Emit(kind)
      BY <2>3, EmitMapped DEF Rnnt!RnntNext
    <2>4. CASE Return \/ Fail \/ BadShape \/ Discard
      BY <2>4, LeaveMapped DEF Rnnt!RnntNext
    <2>5. CASE UNCHANGED greedyVars
      BY <2>5 DEF greedyVars, state, locals, Rnnt!rnntVars
    <2> QED
      BY <2>1, <2>2, <2>3, <2>4, <2>5 DEF GreedyNext
  <1> QED
    BY <1>1, <1>2, GreedyInvariant, PTL DEF GreedySpec, ImplementsRnnt, Rnnt!RnntSpec

-----------------------------------------------------------------------------
\* A frame has at most the cap and one more turns left in it.
LEMMA TurnsArithmetic ==
  ASSUME NEW n \in Nat, NEW now \in Nat, now < n, NEW k \in 0..MAX_TOKENS_PER_STEP
  PROVE  /\ (n - now) * (MAX_TOKENS_PER_STEP + 1) \in Int
         /\ (n - (now + 1)) * (MAX_TOKENS_PER_STEP + 1) \in Nat
         /\ (n - (now + 1)) * (MAX_TOKENS_PER_STEP + 1)
              = (n - now) * (MAX_TOKENS_PER_STEP + 1) - (MAX_TOKENS_PER_STEP + 1)
  <1> DEFINE m == n - (now + 1)
             c == MAX_TOKENS_PER_STEP + 1
  <1>1. m \in Nat /\ c \in Nat /\ n - now = m + 1
    OBVIOUS
  <1> HIDE DEF m, c
  <1>2. m * c \in Nat /\ (m + 1) * c = m * c + c
    BY <1>1
  <1> QED
    BY <1>1, <1>2 DEF m, c

\* Every turn of the inner loop uses up one of the turns a chunk has, whatever the
\* joiner answers: for every cap the loop ends (greedy_decode).
THEOREM LoopEnds == GreedySpec => DecodeProgress
  <1> DEFINE Falls == running /\ running' => TurnsLeft' >= 0 /\ TurnsLeft' < TurnsLeft
  <1>1. Inv /\ [GreedyNext]_greedyVars => [Falls]_greedyVars
    <2> SUFFICES ASSUME Inv, GreedyNext, running, running'
                 PROVE  TurnsLeft' >= 0 /\ TurnsLeft' < TurnsLeft
      OBVIOUS
    <2>0. (Blank \/ Capped) \/ \E kind \in Kinds : Emit(kind)
      BY Zenon DEF GreedyNext, Start, Return, Fail, BadShape, Discard, Leave
    <2>1. /\ encoded_len \in Nat /\ t \in Nat /\ tokens_this_step \in 0..MAX_TOKENS_PER_STEP
          /\ t < encoded_len /\ encoded_len' = encoded_len
          /\ \/ t' = t + 1 /\ tokens_this_step' = 0
             \/ /\ t' = t /\ tokens_this_step' = tokens_this_step + 1
                /\ tokens_this_step' <= MAX_TOKENS_PER_STEP
      <3>1. /\ encoded_len \in Nat /\ t \in Nat
            /\ tokens_this_step \in 0..MAX_TOKENS_PER_STEP
        BY DEF Inv, GreedyTypeOK
      <3>2. CASE Blank \/ Capped
        BY <3>1, <3>2 DEF Blank, Capped, Joined, NextFrame
      <3>3. CASE \E kind \in Kinds : Emit(kind)
        BY <3>1, <3>3 DEF Emit, Commit, Joined
      <3> QED
        BY <2>0, <3>2, <3>3
    <2>2. CASE t' = t + 1 /\ tokens_this_step' = 0
      BY <2>1, <2>2, TurnsArithmetic DEF TurnsLeft
    <2>3. CASE /\ t' = t /\ tokens_this_step' = tokens_this_step + 1
               /\ tokens_this_step' <= MAX_TOKENS_PER_STEP
      BY <2>1, <2>3, TurnsArithmetic DEF TurnsLeft
    <2> QED
      BY <2>1, <2>2, <2>3
  <1> QED
    BY <1>1, GreedyInvariant, PTL DEF GreedySpec, DecodeProgress
=============================================================================
