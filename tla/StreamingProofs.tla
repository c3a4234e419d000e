-------------------------- MODULE StreamingProofs --------------------------
(***************************************************************************)
(* What a stream does with its samples, for chunks of any size and every   *)
(* window, hop and buffer length; that whatever its callers do, the        *)
(* decoder below runs as GreedyDecode says; and what becomes of the tokens *)
(* it finds, however many they are and however they make words.            *)
(***************************************************************************)
EXTENDS Streaming, GreedyProofs, SequenceTheorems, FiniteSetTheorems, WellFoundedInduction

USE StreamAssumption

-----------------------------------------------------------------------------
(* Arithmetic *)

LEMMA DivBounds ==
  ASSUME NEW n \in Nat, NEW d \in Nat \ {0}
  PROVE  /\ n \div d \in Nat
         /\ (n \div d) * d <= n
         /\ n < (n \div d) * d + d
  OBVIOUS

LEMMA MinOfTwo ==
  ASSUME NEW a \in Nat, NEW b \in Nat
  PROVE  /\ Min({a, b}) \in Nat
         /\ Min({a, b}) <= a /\ Min({a, b}) <= b
         /\ Min({a, b}) \in {a, b}
  <1>1. \E x \in {a, b} : \A y \in {a, b} : x <= y
    OBVIOUS
  <1>2. Min({a, b}) \in {a, b} /\ \A y \in {a, b} : Min({a, b}) <= y
    BY <1>1 DEF Min
  <1> QED
    BY <1>2

LEMMA MelFramesNat ==
  ASSUME NEW n \in Nat
  PROVE  MelFrames(n) \in Nat /\ EncodedLen(MelFrames(n)) \in Nat
  <1>1. MelFrames(n) \in Nat
    <2>1. CASE n < N_FFT
      BY <2>1 DEF MelFrames
    <2>2. CASE n >= N_FFT
      BY <2>2, DivBounds DEF MelFrames
    <2> QED
      BY <2>1, <2>2
  <1>2. MelFrames(n) + ENCODER_SUBSAMPLING - 1 \in Nat
    BY <1>1
  <1> QED
    BY <1>1, <1>2, DivBounds DEF EncodedLen

\* The whole windows of n samples: where they end, and what lies behind them.
LEMMA UsableBounds ==
  ASSUME NEW n \in Nat
  PROVE  /\ Usable(n) \in Nat /\ Usable(n) <= n
         /\ n - Usable(n) < N_FFT
         /\ Usable(n) # 0 =>
              /\ MelFrames(Usable(n)) \in Nat
              /\ Usable(n) = HOP_LENGTH * MelFrames(Usable(n)) + (N_FFT - HOP_LENGTH)
  <1>1. CASE n < N_FFT
    BY <1>1 DEF Usable
  <1>2. CASE n >= N_FFT
    <2> DEFINE q == (n - N_FFT) \div HOP_LENGTH
    <2>1. q \in Nat /\ q * HOP_LENGTH <= n - N_FFT /\ n - N_FFT < q * HOP_LENGTH + HOP_LENGTH
      BY <1>2, DivBounds
    <2>2. Usable(n) = q * HOP_LENGTH + N_FFT
      BY <1>2, <2>1 DEF Usable, MelFrames
    <2>3. MelFrames(Usable(n)) = q + 1
      <3> DEFINE r == (q * HOP_LENGTH) \div HOP_LENGTH
      <3>1. q * HOP_LENGTH \in Nat
        BY <2>1
      <3>2. r \in Nat /\ r * HOP_LENGTH <= q * HOP_LENGTH
            /\ q * HOP_LENGTH < r * HOP_LENGTH + HOP_LENGTH
        BY <3>1, DivBounds
      <3>3. r = q
        <4> HIDE DEF q, r
        <4>1. ~(r <= q - 1)
          <5> SUFFICES ASSUME r <= q - 1 PROVE FALSE
            OBVIOUS
          <5>1. r * HOP_LENGTH <= (q - 1) * HOP_LENGTH
            BY <2>1, <3>2
          <5> QED
            BY <2>1, <3>2, <5>1
        <4>2. ~(r >= q + 1)
          <5> SUFFICES ASSUME r >= q + 1 PROVE FALSE
            OBVIOUS
          <5>1. r * HOP_LENGTH >= (q + 1) * HOP_LENGTH
            BY <2>1, <3>2
          <5> QED
            BY <2>1, <3>2, <5>1
        <4> QED
          BY <2>1, <3>2, <4>1, <4>2
      <3>4. Usable(n) >= N_FFT /\ Usable(n) - N_FFT = q * HOP_LENGTH
        BY <2>2, <3>1
      <3> QED
        BY <3>3, <3>4, <3>1, <2>2 DEF MelFrames
    <2> HIDE DEF q
    <2> QED
      BY <2>1, <2>2, <2>3, <1>2
  <1> QED
    BY <1>1, <1>2

-----------------------------------------------------------------------------
(* Samples *)

Counts ==
  /\ samples \in Nat /\ audio_buffer \in Nat
  /\ num_frames \in Nat /\ total_frames \in Nat
  /\ received \in Nat /\ consumed \in Nat /\ dropped \in Nat
  /\ chunks \in Nat /\ uncounted \in Nat

SampleInv ==
  /\ Counts
  /\ phase # "decode" => num_frames = 0
  /\ caller = "file" => audio_buffer = 0 /\ dropped = 0
  /\ SamplesOnce

LEMMA PrepareBounds ==
  ASSUME NEW n \in Nat, audio_buffer \in Nat,
         NEW b, b = prepare_audio_buffer(n)
  PROVE  /\ b.usable \in Nat /\ b.left \in Nat /\ b.dropped \in Nat
         /\ audio_buffer + n = b.usable + b.left + b.dropped
         /\ b.left < N_FFT
         /\ audio_buffer + n <= MAX_BUFFER_SAMPLES => b.dropped = 0
         /\ b.usable # 0 =>
              /\ MelFrames(b.usable) \in Nat
              /\ b.usable = HOP_LENGTH * MelFrames(b.usable) + (N_FFT - HOP_LENGTH)
  <1> DEFINE kept == Min({audio_buffer + n, MAX_BUFFER_SAMPLES})
  <1>1. kept \in Nat /\ kept <= audio_buffer + n
        /\ kept \in {audio_buffer + n, MAX_BUFFER_SAMPLES}
        /\ (audio_buffer + n <= MAX_BUFFER_SAMPLES => kept = audio_buffer + n)
    <2>1. audio_buffer + n \in Nat
      OBVIOUS
    <2>2. /\ kept \in Nat /\ kept <= audio_buffer + n /\ kept <= MAX_BUFFER_SAMPLES
          /\ kept \in {audio_buffer + n, MAX_BUFFER_SAMPLES}
      BY <2>1, MinOfTwo
    <2> QED
      BY <2>1, <2>2
  <1>2. b.usable = Usable(kept) /\ b.left = kept - Usable(kept)
        /\ b.dropped = audio_buffer + n - kept
    BY DEF prepare_audio_buffer
  <1> HIDE DEF kept
  <1>3. /\ Usable(kept) \in Nat /\ Usable(kept) <= kept /\ kept - Usable(kept) < N_FFT
        /\ Usable(kept) # 0 =>
             /\ MelFrames(Usable(kept)) \in Nat
             /\ Usable(kept) = HOP_LENGTH * MelFrames(Usable(kept)) + (N_FFT - HOP_LENGTH)
    BY <1>1, UsableBounds
  <1>4. /\ b.usable \in Nat /\ b.left \in Nat /\ b.dropped \in Nat
        /\ audio_buffer + n = b.usable + b.left + b.dropped
        /\ b.left < N_FFT
        /\ audio_buffer + n <= MAX_BUFFER_SAMPLES => b.dropped = 0
    BY <1>1, <1>2, <1>3
  <1> QED
    BY <1>2, <1>3, <1>4

LEMMA ProcessChunkSamples ==
  ASSUME SampleInv, NEW n \in Nat, ProcessChunk(n), samples' \in Nat,
         caller = "sse" => audio_buffer + n <= MAX_BUFFER_SAMPLES, caller # "file"
  PROVE  SampleInv'
  <1> DEFINE b == prepare_audio_buffer(n)
  <1>1. /\ b.usable \in Nat /\ b.left \in Nat /\ b.dropped \in Nat
        /\ audio_buffer + n = b.usable + b.left + b.dropped
        /\ b.left < N_FFT
        /\ audio_buffer + n <= MAX_BUFFER_SAMPLES => b.dropped = 0
        /\ b.usable # 0 =>
             /\ MelFrames(b.usable) \in Nat
             /\ b.usable = HOP_LENGTH * MelFrames(b.usable) + (N_FFT - HOP_LENGTH)
    BY PrepareBounds DEF SampleInv, Counts
  <1>2. /\ audio_buffer' = b.left /\ received' = received + n
        /\ consumed' = consumed + b.usable /\ dropped' = dropped + b.dropped
        /\ total_frames' = total_frames /\ uncounted' = uncounted /\ caller' = caller
        /\ \/ /\ b.usable = 0
              /\ num_frames' = num_frames /\ chunks' = chunks /\ phase' = phase
           \/ /\ b.usable # 0
              /\ num_frames' = MelFrames(b.usable) /\ chunks' = chunks + 1
              /\ phase' = "decode"
        /\ phase = "ready"
    BY DEF ProcessChunk
  <1>3. Counts /\ num_frames = 0 /\ SamplesOnce
    BY <1>2 DEF SampleInv
  <1> HIDE DEF b
  <1>4. Counts' /\ (phase' # "decode" => num_frames' = 0)
    BY <1>1, <1>2, <1>3 DEF Counts
  <1>5. received' = consumed' + audio_buffer' + dropped' /\ audio_buffer' < N_FFT
        /\ (caller' = "sse" => dropped' = 0)
    BY <1>1, <1>2, <1>3 DEF Counts, SamplesOnce
  <1>6. consumed' = HOP_LENGTH * (total_frames' + num_frames' + uncounted')
                    + (N_FFT - HOP_LENGTH) * chunks'
    <2>1. consumed = HOP_LENGTH * (total_frames + uncounted) + (N_FFT - HOP_LENGTH) * chunks
      BY <1>3 DEF Counts, SamplesOnce
    <2>2. CASE b.usable = 0
      BY <1>2, <1>3, <2>1, <2>2 DEF Counts
    <2>3. CASE b.usable # 0
      <3> DEFINE f == MelFrames(b.usable)
                 k == N_FFT - HOP_LENGTH
                 m == total_frames + uncounted
      <3>1. /\ f \in Nat /\ k \in Nat /\ m \in Nat /\ chunks \in Nat
            /\ consumed' = HOP_LENGTH * m + k * chunks + HOP_LENGTH * f + k
            /\ total_frames' + num_frames' + uncounted' = m + f
            /\ chunks' = chunks + 1
        BY <1>1, <1>2, <1>3, <2>1, <2>3 DEF Counts
      <3> HIDE DEF f, k, m
      <3>2. HOP_LENGTH * (m + f) = HOP_LENGTH * m + HOP_LENGTH * f
        BY <3>1
      <3>3. k * (chunks + 1) = k * chunks + k
        BY <3>1
      <3>4. consumed' = HOP_LENGTH * (m + f) + k * (chunks + 1)
        BY <3>1, <3>2, <3>3
      <3> QED
        BY <3>1, <3>4 DEF k
    <2> QED
      BY <2>2, <2>3
  <1> QED
    BY <1>2, <1>4, <1>5, <1>6 DEF SampleInv, SamplesOnce

\* A chunk of the SSE closure fits beside what the buffer holds.
LEMMA CallersSamples ==
  ASSUME SampleInv, SseChunk \/ \E n \in Sizes : WsFrame(n) \/ gigastt_stream_process_chunk(n)
  PROVE  SampleInv'
  <1>1. samples \in Nat /\ audio_buffer \in Nat /\ audio_buffer < N_FFT
    BY DEF SampleInv, Counts, SamplesOnce
  <1>2. CASE SseChunk
    <2> DEFINE n == Min({chunk_size, samples})
    <2>1. n \in Nat /\ n <= chunk_size /\ n <= samples
      BY <1>1, MinOfTwo
    <2>2. ProcessChunk(n) /\ samples' = samples - n /\ caller = "sse"
      BY <1>2 DEF SseChunk
    <2> HIDE DEF n
    <2>3. samples' \in Nat /\ audio_buffer + n <= MAX_BUFFER_SAMPLES
      BY <1>1, <2>1, <2>2
    <2> QED
      BY <2>1, <2>2, <2>3, ProcessChunkSamples
  <1>3. ASSUME NEW n \in Sizes, WsFrame(n) PROVE SampleInv'
    BY <1>1, <1>3, ProcessChunkSamples DEF WsFrame
  <1>4. ASSUME NEW n \in Sizes, gigastt_stream_process_chunk(n) PROVE SampleInv'
    <2>1. n \div 2 \in Nat
      BY DivBounds
    <2> QED
      BY <1>1, <1>4, <2>1, ProcessChunkSamples DEF gigastt_stream_process_chunk
  <1> QED
    BY <1>2, <1>3, <1>4

\* Before a file is read nothing has come in, and after it has been transcribed
\* no frame is left in decoding.
LEMMA FileSamples ==
  ASSUME SampleInv, \/ \E n \in Sizes : Packet(n)
                    \/ FileFails \/ EndOfFile \/ transcribe_samples
                    \/ Transcribed
  PROVE  SampleInv'
  <1>1. ASSUME NEW n \in Sizes, Packet(n) PROVE SampleInv'
    BY <1>1 DEF Packet, SampleInv, Counts, SamplesOnce, stream, audio
  <1>2. CASE FileFails \/ EndOfFile
    BY <1>2 DEF FileFails, EndOfFile, SampleInv, Counts, SamplesOnce, stream, audio
  <1>3. CASE transcribe_samples
    BY <1>3, MelFramesNat DEF transcribe_samples, SampleInv, Counts, SamplesOnce, stream
  <1>4. CASE Transcribed
    BY <1>4 DEF Transcribed, SampleInv, Counts, SamplesOnce, audio
  <1> QED
    BY <1>1, <1>2, <1>3, <1>4

\* A chunk that is decoded, or fails, has its frames counted once.
LEMMA ChunkEndSamples ==
  ASSUME SampleInv, Decoded \/ InferenceFails \/ InferencePanics
  PROVE  SampleInv'
  <1>1. CASE Decoded
    BY <1>1 DEF Decoded, ChunkDone, SampleInv, Counts, SamplesOnce, audio
  <1>2. CASE InferenceFails
    BY <1>2 DEF InferenceFails, SampleInv, Counts, SamplesOnce, audio, stream
  <1>3. CASE InferencePanics
    BY <1>3 DEF InferencePanics, SampleInv, Counts, SamplesOnce
  <1> QED
    BY <1>1, <1>2, <1>3

LEMMA OtherSamples ==
  ASSUME SampleInv, Turn \/ FlushAndEnd \/ gigastt_stream_flush \/ Drop \/ UNCHANGED vars
  PROVE  SampleInv'
  <1>1. CASE Turn
    BY <1>1 DEF Turn, Decoding, SampleInv, Counts, SamplesOnce, audio, stream
  <1>2. CASE FlushAndEnd \/ gigastt_stream_flush \/ Drop
    BY <1>2 DEF FlushAndEnd, gigastt_stream_flush, Drop, SampleInv, Counts, SamplesOnce, audio
  <1>3. CASE UNCHANGED vars
    BY <1>3 DEF vars, SampleInv, Counts, SamplesOnce, audio, stream
  <1> QED
    BY <1>1, <1>2, <1>3

\* For chunks of every size, every window, hop, limit and interleaving of failures:
\* each sample goes to the encoder once, waits in the buffer or fell to its limit,
\* and time runs behind by the overlap for every chunk (prepare_audio_buffer).
THEOREM SamplesGoOnce == Spec => []SamplesOnce
  <1>1. Init => SampleInv
    BY DEF Init, SampleInv, Counts, SamplesOnce
  <1>2. SampleInv /\ [Next]_vars => SampleInv'
    BY CallersSamples, FileSamples, ChunkEndSamples, OtherSamples DEF Next
  <1>3. SampleInv => SamplesOnce
    BY DEF SampleInv
  <1> QED
    BY <1>1, <1>2, <1>3, PTL DEF Spec

-----------------------------------------------------------------------------
(* The decoder below *)

LEMMA StepIsGreedy ==
  ASSUME SampleInv, [Next]_vars
  PROVE  [GreedyNext]_greedyVars
  <1> DEFINE Begun == encoded_len' \in Nat /\ Start(encoded_len')
  <1>1. ASSUME NEW n \in Nat, ProcessChunk(n)
        PROVE  Begun \/ UNCHANGED greedyVars
    <2> DEFINE u == prepare_audio_buffer(n).usable
    <2>1. CASE u = 0
      BY <1>1, <2>1 DEF ProcessChunk
    <2>2. CASE u # 0
      <3>1. u \in Nat
        BY PrepareBounds DEF SampleInv, Counts
      <3>2. num_frames' = MelFrames(u) /\ Start(EncodedLen(num_frames'))
        BY <1>1, <2>2 DEF ProcessChunk
      <3>3. EncodedLen(num_frames') \in Nat
        BY <3>1, <3>2, MelFramesNat
      <3> QED
        BY <3>2, <3>3 DEF Start
    <2> QED
      BY <2>1, <2>2
  <1>2. ASSUME transcribe_samples PROVE Begun
    <2>1. num_frames' = MelFrames(samples) /\ Start(EncodedLen(num_frames'))
      BY <1>2 DEF transcribe_samples
    <2>2. EncodedLen(num_frames') \in Nat
      BY <2>1, MelFramesNat DEF SampleInv, Counts
    <2> QED
      BY <2>1, <2>2 DEF Start
  <1>3. ASSUME SseChunk PROVE Begun \/ UNCHANGED greedyVars
    <2>1. Min({chunk_size, samples}) \in Nat
      BY MinOfTwo DEF SampleInv, Counts
    <2> QED
      BY <1>1, <1>3, <2>1 DEF SseChunk
  <1>4. ASSUME NEW n \in Sizes, Packet(n) \/ WsFrame(n) \/ gigastt_stream_process_chunk(n)
        PROVE  Begun \/ UNCHANGED greedyVars
    <2>1. n \in Nat /\ n \div 2 \in Nat
      BY DivBounds
    <2> QED
      BY <1>1, <1>4, <2>1 DEF Packet, WsFrame, gigastt_stream_process_chunk
  <1>5. ASSUME Turn PROVE GreedyNext
    BY <1>5 DEF Turn, GreedyNext
  <1>6. ASSUME Decoded \/ Transcribed \/ InferenceFails \/ InferencePanics
        PROVE  GreedyNext
    BY <1>6 DEF Decoded, ChunkDone, Transcribed, InferenceFails, InferencePanics, GreedyNext
  <1>7. ASSUME FileFails \/ EndOfFile \/ FlushAndEnd \/ gigastt_stream_flush \/ Drop
               \/ UNCHANGED vars
        PROVE  UNCHANGED greedyVars
    BY <1>7 DEF FileFails, EndOfFile, FlushAndEnd, gigastt_stream_flush, Drop, vars
  <1>8. Begun => GreedyNext
    BY DEF GreedyNext
  <1> HIDE DEF Begun
  <1> QED
    BY <1>2, <1>3, <1>4, <1>5, <1>6, <1>7, <1>8 DEF Next

\* Whatever WebSocket sessions, C streams, uploads and files do with the engine, and
\* however their chunks fail, the decoder runs as GreedyDecode says.
THEOREM StreamRunsGreedy == Spec => GreedySpec
  <1>1. Init => GreedyInit
    BY DEF Init
  <1>2. Init => SampleInv
    BY DEF Init, SampleInv, Counts, SamplesOnce
  <1>3. SampleInv /\ [Next]_vars => SampleInv'
    BY CallersSamples, FileSamples, ChunkEndSamples, OtherSamples DEF Next
  <1> QED
    BY <1>1, <1>2, <1>3, StepIsGreedy, PTL DEF Spec, GreedySpec

\* So every stream decodes as Rnnt defines, its endpoints are pauses, and no chunk
\* is decoded for ever.
THEOREM StreamDecodes == Spec => ImplementsRnnt /\ []EndpointIffPause /\ DecodeProgress
  BY StreamRunsGreedy, Refinement, EndpointMeansPause, LoopEnds, PTL

-----------------------------------------------------------------------------
(* Induction *)

HIDE StreamAssumption

\* Induction over the naturals as a fact about sets: a number that is missing from T
\* would have a least one below it.
LEMMA NatSet ==
  ASSUME NEW T, T \subseteq Nat, 0 \in T, \A n \in T : n + 1 \in T
  PROVE  T = Nat
  <1> SUFFICES ASSUME Nat \ T # {} PROVE FALSE
    OBVIOUS
  <1> DEFINE Less == OpToRel(<, Nat)
  <1>1. IsWellFoundedOn(Less, Nat)
    BY NatLessThanWellFounded
  <1>2. \A m \in Nat, n \in Nat : m < n => <<m, n>> \in Less
    BY DEF OpToRel
  <1> HIDE DEF Less
  <1>3. \E x \in Nat \ T : \A y \in Nat \ T : ~(<<y, x>> \in Less)
    <2>1. Nat \ T \subseteq Nat
      OBVIOUS
    <2> QED
      BY <1>1, <2>1, WFMin
  <1>4. PICK x \in Nat \ T : \A y \in Nat \ T : ~(<<y, x>> \in Less)
    BY <1>3
  <1>5. x # 0 /\ x - 1 \in Nat /\ x - 1 < x /\ (x - 1) + 1 = x
    BY <1>4
  <1>6. x - 1 \in T
    BY <1>2, <1>4, <1>5
  <1> QED
    BY <1>4, <1>5, <1>6

\* The same up to a bound.
LEMMA UpTo ==
  ASSUME NEW n \in Nat, NEW T, 0 \in T, \A k \in 1..n : k - 1 \in T => k \in T
  PROVE  \A k \in 0..n : k \in T
  <1> DEFINE U == {m \in Nat : m <= n => m \in T}
  <1>1. 0 \in U
    OBVIOUS
  <1>2. ASSUME NEW m \in U PROVE m + 1 \in U
    <2> SUFFICES ASSUME m + 1 <= n PROVE m + 1 \in T
      OBVIOUS
    <2>1. m \in Nat /\ m \in T /\ m + 1 \in 1..n /\ (m + 1) - 1 = m
      OBVIOUS
    <2> QED
      BY <2>1
  <1>3. U = Nat
    <2>1. U \subseteq Nat
      OBVIOUS
    <2> HIDE DEF U
    <2> QED
      BY <1>1, <1>2, <2>1, NatSet
  <1> QED
    BY <1>3

-----------------------------------------------------------------------------
(* Folds *)

\* FoldLeft goes by sets of positions, and takes the greatest of a set last.
LEMMA HasMax ==
  ASSUME NEW n \in Nat, NEW S \in SUBSET (1..n), S # {}
  PROVE  Max(S) \in S /\ \A i \in S : Max(S) >= i
  <1> DEFINE Bounded(m) == \A U \in SUBSET (1..m) : U # {} => \E x \in U : \A y \in U : x >= y
             T == {m \in Nat : Bounded(m)}
  <1>1. 0 \in T
    <2>1. 1..0 = {}
      OBVIOUS
    <2> QED
      BY <2>1
  <1>2. ASSUME NEW m \in T PROVE m + 1 \in T
    <2> SUFFICES ASSUME NEW U \in SUBSET (1..m+1), U # {}
                 PROVE  \E x \in U : \A y \in U : x >= y
      OBVIOUS
    <2>1. CASE m + 1 \in U
      BY <2>1
    <2>2. CASE m + 1 \notin U
      <3>1. U \in SUBSET (1..m)
        BY <2>2
      <3> QED
        BY <3>1
    <2> QED
      BY <2>1, <2>2
  <1>3. T = Nat
    <2>1. T \subseteq Nat
      OBVIOUS
    <2> HIDE DEF T
    <2> QED
      BY <1>1, <1>2, <2>1, NatSet
  <1>4. \E x \in S : \A y \in S : x >= y
    BY <1>3
  <1> QED
    BY <1>4 DEF Max

LEMMA TopOfInterval ==
  ASSUME NEW k \in Nat \ {0}
  PROVE  1..k # {} /\ Max(1..k) = k /\ (1..k) \ {k} = 1..(k - 1)
  <1>1. k \in 1..k /\ 1..k \in SUBSET (1..k)
    OBVIOUS
  <1>2. Max(1..k) \in 1..k /\ Max(1..k) >= k
    BY <1>1, HasMax
  <1> QED
    BY <1>1, <1>2

\* The recursive equation of a fold, on the positions up to n.
IsFold(g, V, F, base, seq, n) ==
  /\ g = [s \in SUBSET (1..n) |->
            IF s = {} THEN base ELSE F[<<g[s \ {Max(s)}], seq[Max(s)]>>]]
  /\ \A s \in SUBSET (1..n) : g[s] \in V

\* It has a solution, whatever is folded.
LEMMA FoldExists ==
  ASSUME NEW V, NEW E, NEW F \in [V \X E -> V], NEW base \in V,
         NEW n \in Nat, NEW seq, \A i \in 1..n : seq[i] \in E
  PROVE  \E g : IsFold(g, V, F, base, seq, n)
  <1> USE DEF IsFold
  <1> DEFINE Solves(g, m) == IsFold(g, V, F, base, seq, m)
             T == {m \in 0..n : \E g : Solves(g, m)}
  <1>1. 0 \in T
    <2> DEFINE g == [s \in SUBSET (1..0) |-> base]
    <2>1. \A s \in SUBSET (1..0) : s = {}
      OBVIOUS
    <2>2. \A s \in SUBSET (1..0) : g[s] \in V
      OBVIOUS
    <2>3. g = [s \in SUBSET (1..0) |->
                 IF s = {} THEN base ELSE F[<<g[s \ {Max(s)}], seq[Max(s)]>>]]
      BY <2>1
    <2>4. 0 \in 0..n
      OBVIOUS
    <2> HIDE DEF g
    <2> QED
      BY <2>2, <2>3, <2>4
  <1>2. ASSUME NEW m \in 1..n, m - 1 \in T PROVE m \in T
    <2>1. PICK g : Solves(g, m - 1)
      BY <1>2
    <2>2. m \in Nat /\ seq[m] \in E /\ m \in 0..n
      OBVIOUS
    <2> DEFINE ext == [s \in SUBSET (1..m) |->
                         IF m \in s THEN F[<<g[s \ {m}], seq[m]>>] ELSE g[s]]
    <2>3. ASSUME NEW s \in SUBSET (1..m)
          PROVE  /\ ext[s] = IF s = {} THEN base ELSE F[<<ext[s \ {Max(s)}], seq[Max(s)]>>]
                 /\ ext[s] \in V
      <3>1. CASE m \in s
        <4>1. Max(s) = m
          <5>1. Max(s) \in s /\ Max(s) >= m
            BY <2>2, <3>1, HasMax
          <5>2. \A x \in 1..m : x >= m => x = m
            OBVIOUS
          <5> QED
            BY <5>1, <5>2
        <4>2. s \ {m} \in SUBSET (1..(m - 1)) /\ s \ {m} \in SUBSET (1..m) /\ m \notin s \ {m}
          OBVIOUS
        <4>3. ext[s \ {m}] = g[s \ {m}] /\ g[s \ {m}] \in V
          BY <2>1, <4>2
        <4> QED
          BY <2>2, <3>1, <4>1, <4>3
      <3>2. CASE m \notin s
        <4>1. s \in SUBSET (1..(m - 1))
          BY <3>2
        <4>2. /\ s \ {Max(s)} \in SUBSET (1..m) /\ m \notin s \ {Max(s)}
          BY <3>2
        <4>3. ext[s] = g[s] /\ ext[s \ {Max(s)}] = g[s \ {Max(s)}] /\ g[s] \in V
          BY <2>1, <3>2, <4>1, <4>2
        <4>4. g[s] = IF s = {} THEN base ELSE F[<<g[s \ {Max(s)}], seq[Max(s)]>>]
          BY <2>1, <4>1
        <4> QED
          BY <4>3, <4>4
      <3> QED
        BY <3>1, <3>2
    <2>4. ext = [s \in SUBSET (1..m) |-> ext[s]]
      OBVIOUS
    <2> HIDE DEF ext
    <2>5. Solves(ext, m)
      BY <2>3, <2>4
    <2> QED
      BY <2>2, <2>5
  <1>3. n \in T
    <2> HIDE DEF T
    <2> QED
      BY <1>1, <1>2, UpTo
  <1> QED
    BY <1>3

\* The prefixes of 1..n: each is the one before it with one more position.
LEMMA PrefixTop ==
  ASSUME NEW n \in Nat, NEW k \in 1..n
  PROVE  /\ k \in 0..n /\ k - 1 \in 0..n
         /\ 1..k \in SUBSET (1..n) /\ 1..k # {}
         /\ Max(1..k) = k /\ (1..k) \ {Max(1..k)} = 1..(k - 1)
  <1>1. k \in Nat \ {0} /\ k \in 0..n /\ k - 1 \in 0..n
    OBVIOUS
  <1>2. 1..k \in SUBSET (1..n)
    OBVIOUS
  <1>3. 1..k # {} /\ Max(1..k) = k /\ (1..k) \ {k} = 1..(k - 1)
    BY <1>1, TopOfInterval
  <1> QED
    BY <1>1, <1>2, <1>3

-----------------------------------------------------------------------------
(* Words *)

\* The sum that Parts is, word by word.
LEMMA PartsFold ==
  ASSUME NEW ws \in Seq(Word)
  PROVE  \E p : /\ p \in [0..Len(ws) -> Nat] /\ p[0] = 0
                /\ \A k \in 1..Len(ws) : p[k] = p[k - 1] + ws[k].parts
                /\ Parts(ws) = p[Len(ws)]
  <1> DEFINE n == Len(ws)
             Sums(g) == g = [s \in SUBSET (1..n) |->
                               IF s = {} THEN 0 ELSE g[s \ {Max(s)}] + ws[Max(s)].parts]
  <1>0. n \in Nat
    OBVIOUS
  <1>1. DOMAIN ws = 1..n /\ \A i \in 1..n : ws[i] \in Word /\ ws[i].parts \in Nat
    <2>1. DOMAIN ws = 1..n /\ \A i \in 1..n : ws[i] \in Word
      OBVIOUS
    <2>2. \A w \in Word : w.parts \in Nat
      BY DEF Word
    <2> QED
      BY <2>1, <2>2
  <1>2. Parts(ws) = (CHOOSE g : Sums(g))[1..n]
    BY <1>1 DEF Parts, FoldLeft, MapThenFoldSet
  <1>3. \E g : Sums(g)
    <2> DEFINE F == [x \in Nat \X Word |-> x[1] + x[2].parts]
    <2>1. F \in [Nat \X Word -> Nat]
      BY DEF Word
    <2>2. \A a \in Nat, w \in Word : F[<<a, w>>] = a + w.parts
      OBVIOUS
    <2> HIDE DEF F
    <2>3. PICK g : IsFold(g, Nat, F, 0, ws, n)
      <3>1. 0 \in Nat
        OBVIOUS
      <3> HIDE DEF n
      <3> QED
        BY <1>0, <1>1, <2>1, <3>1, FoldExists
    <2>4. ASSUME NEW s \in SUBSET (1..n), s # {}
          PROVE  F[<<g[s \ {Max(s)}], ws[Max(s)]>>] = g[s \ {Max(s)}] + ws[Max(s)].parts
      <3>1. Max(s) \in 1..n
        BY <1>0, <2>4, HasMax
      <3>2. s \ {Max(s)} \in SUBSET (1..n)
        OBVIOUS
      <3> QED
        BY <1>1, <2>2, <2>3, <3>1, <3>2 DEF IsFold
    <2>5. Sums(g)
      BY <2>3, <2>4 DEF IsFold
    <2> QED
      BY <2>5
  <1> DEFINE g == CHOOSE x : Sums(x)
  <1>4. Sums(g)
    BY <1>3
  <1> HIDE DEF g, n
  <1>5. Parts(ws) = g[1..n]
    BY <1>2 DEF g
  <1>6. g[1..0] = 0
    <2>1. 1..0 = {} /\ 1..0 \in SUBSET (1..n)
      OBVIOUS
    <2> QED
      BY <1>4, <2>1
  <1> DEFINE p == [k \in 0..n |-> g[1..k]]
  <1>7. ASSUME NEW k \in 1..n PROVE p[k] = p[k - 1] + ws[k].parts
    <2>1. /\ k \in 0..n /\ k - 1 \in 0..n
          /\ 1..k \in SUBSET (1..n) /\ 1..k # {}
          /\ Max(1..k) = k /\ (1..k) \ {Max(1..k)} = 1..(k - 1)
      BY <1>0, PrefixTop
    <2>2. g[1..k] = g[1..(k - 1)] + ws[k].parts
      BY <1>4, <2>1
    <2> QED
      BY <2>1, <2>2
  <1>8. DOMAIN p = 0..n /\ p[0] = 0 /\ p[n] = g[1..n] /\ p = [k \in 0..n |-> p[k]]
    BY <1>0, <1>6
  <1> HIDE DEF p
  <1>9. \A k \in 0..n : p[k] \in Nat
    <2> DEFINE T == {k \in 0..n : p[k] \in Nat}
    <2>1. 0 \in T
      BY <1>0, <1>8
    <2>2. ASSUME NEW k \in 1..n, k - 1 \in T PROVE k \in T
      BY <1>1, <1>7, <2>2
    <2>3. \A k \in 0..n : k \in T
      <3> HIDE DEF T
      <3> QED
        BY <1>0, <2>1, <2>2, UpTo
    <2> QED
      BY <2>3
  <1>10. p \in [0..n -> Nat]
    BY <1>8, <1>9
  <1> QED
    BY <1>5, <1>7, <1>8, <1>10 DEF n

LEMMA PartsEmpty == Parts(<<>>) = 0
  <1>1. <<>> \in Seq(Word) /\ Len(<<>>) = 0
    OBVIOUS
  <1>2. PICK p : p[0] = 0 /\ Parts(<<>>) = p[Len(<<>>)]
    BY <1>1, PartsFold
  <1> QED
    BY <1>1, <1>2

LEMMA PartsNat ==
  ASSUME NEW ws \in Seq(Word)
  PROVE  Parts(ws) \in Nat
  <1>1. PICK p : p \in [0..Len(ws) -> Nat] /\ Parts(ws) = p[Len(ws)]
    BY PartsFold
  <1>2. Len(ws) \in 0..Len(ws)
    OBVIOUS
  <1> QED
    BY <1>1, <1>2

LEMMA PartsOne ==
  ASSUME NEW w \in Word
  PROVE  Parts(<<w>>) = w.parts
  <1>1. <<w>> \in Seq(Word) /\ Len(<<w>>) = 1 /\ <<w>>[1] = w
    OBVIOUS
  <1>2. PICK p : /\ p[0] = 0 /\ Parts(<<w>>) = p[Len(<<w>>)]
                 /\ \A k \in 1..Len(<<w>>) : p[k] = p[k - 1] + <<w>>[k].parts
    BY <1>1, PartsFold
  <1>3. p[1] = p[1 - 1] + w.parts /\ 1 - 1 = 0
    BY <1>1, <1>2
  <1>4. w.parts \in Nat
    BY DEF Word
  <1> QED
    BY <1>1, <1>2, <1>3, <1>4

\* The words of two lists have the tokens of both.
LEMMA PartsConcat ==
  ASSUME NEW a \in Seq(Word), NEW b \in Seq(Word)
  PROVE  Parts(a \o b) = Parts(a) + Parts(b)
  <1> DEFINE c == a \o b
             m == Len(a)
             n == Len(b)
  <1>1. /\ m \in Nat /\ n \in Nat /\ c \in Seq(Word) /\ Len(c) = m + n
        /\ \A i \in 1..m : c[i] = a[i] /\ i \in 1..Len(c)
        /\ \A i \in 1..n : c[m + i] = b[i] /\ m + i \in 1..Len(c)
    BY ConcatProperties
  <1>2. PICK p : /\ p \in [0..m -> Nat] /\ p[0] = 0 /\ Parts(a) = p[m]
                 /\ \A k \in 1..m : p[k] = p[k - 1] + a[k].parts
    BY PartsFold
  <1>3. PICK q : /\ q \in [0..n -> Nat] /\ q[0] = 0 /\ Parts(b) = q[n]
                 /\ \A k \in 1..n : q[k] = q[k - 1] + b[k].parts
    BY PartsFold
  <1> HIDE DEF c, m, n
  <1>4. PICK r : /\ r[0] = 0 /\ Parts(c) = r[Len(c)]
                 /\ \A k \in 1..Len(c) : r[k] = r[k - 1] + c[k].parts
    <2>1. c \in Seq(Word)
      BY <1>1
    <2> QED
      BY <2>1, PartsFold
  <1>5. \A k \in 0..m : r[k] = p[k]
    <2> DEFINE T == {k \in 0..m : r[k] = p[k]}
    <2>1. 0 \in T
      BY <1>1, <1>2, <1>4
    <2>2. ASSUME NEW k \in 1..m, k - 1 \in T PROVE k \in T
      <3>1. r[k] = r[k - 1] + a[k].parts /\ p[k] = p[k - 1] + a[k].parts /\ k \in 0..m
        <4>1. c[k] = a[k] /\ k \in 1..Len(c)
          BY <1>1, Zenon
        <4>2. r[k] = r[k - 1] + c[k].parts
          BY <1>4, <4>1, Zenon
        <4>3. p[k] = p[k - 1] + a[k].parts
          BY <1>2, Zenon
        <4>4. k \in 0..m
          BY <1>1
        <4> QED
          BY <4>1, <4>2, <4>3, <4>4, Zenon
      <3>2. r[k - 1] = p[k - 1]
        BY <2>2
      <3>3. r[k] = p[k]
        BY <3>1, <3>2, Zenon
      <3> QED
        BY <3>1, <3>3
    <2>3. \A k \in 0..m : k \in T
      <3> HIDE DEF T
      <3> QED
        BY <1>1, <2>1, <2>2, UpTo
    <2> QED
      BY <2>3
  <1>6. \A k \in 0..n : r[m + k] = p[m] + q[k]
    <2> DEFINE T == {k \in 0..n : r[m + k] = p[m] + q[k]}
    <2>1. 0 \in T
      <3>1. p[m] \in Nat /\ r[m] = p[m] /\ 0 \in 0..n /\ m + 0 = m
        BY <1>1, <1>2, <1>5
      <3> QED
        BY <1>3, <3>1
    <2>2. ASSUME NEW k \in 1..n, k - 1 \in T PROVE k \in T
      <3>1. k - 1 \in 0..n /\ k \in 0..n /\ k \in Int /\ (m + k) - 1 = m + (k - 1)
        BY <1>1
      <3>2. r[m + k] = r[m + (k - 1)] + b[k].parts /\ q[k] = q[k - 1] + b[k].parts
        <4>1. c[m + k] = b[k] /\ m + k \in 1..Len(c)
          BY <1>1, Zenon
        <4>2. r[m + k] = r[(m + k) - 1] + c[m + k].parts
          BY <1>4, <4>1, Zenon
        <4>3. q[k] = q[k - 1] + b[k].parts
          BY <1>3, Zenon
        <4> QED
          BY <3>1, <4>1, <4>2, <4>3, Zenon
      <3>3. b[k].parts \in Nat
        <4>1. b[k] \in Word
          BY DEF n
        <4> QED
          BY <4>1 DEF Word
      <3>4. p[m] \in Nat /\ q[k - 1] \in Nat
        BY <1>1, <1>2, <1>3, <3>1
      <3>5. r[m + (k - 1)] = p[m] + q[k - 1]
        BY <2>2
      <3>6. r[m + k] = p[m] + q[k]
        BY <3>2, <3>3, <3>4, <3>5
      <3> QED
        BY <3>1, <3>6
    <2>3. \A k \in 0..n : k \in T
      <3> HIDE DEF T
      <3> QED
        BY <1>1, <2>1, <2>2, UpTo
    <2> QED
      BY <2>3
  <1>7. r[m + n] = p[m] + q[n]
    BY <1>1, <1>6
  <1> QED
    BY <1>1, <1>2, <1>3, <1>4, <1>7 DEF c

LEMMA PartsAppend ==
  ASSUME NEW ws \in Seq(Word), NEW w \in Word
  PROVE  Parts(Append(ws, w)) = Parts(ws) + w.parts
  <1>1. <<w>> \in Seq(Word) /\ Append(ws, w) = ws \o <<w>>
    BY AppendIsConcat
  <1> QED
    BY <1>1, PartsConcat, PartsOne

\* A change of the last word.
LEMMA PartsLast ==
  ASSUME NEW ws \in Seq(Word), ws # <<>>, NEW w \in Word, NEW vs,
         vs = [ws EXCEPT ![Len(ws)] = w]
  PROVE  Parts(vs) + ws[Len(ws)].parts = Parts(ws) + w.parts
  <1>1. PICK s \in Seq(Word), e \in Word : ws = Append(s, e)
    BY SequenceEmptyOrAppend
  <1>2. Len(ws) = Len(s) + 1 /\ ws[Len(ws)] = e /\ \A i \in 1..Len(s) : ws[i] = s[i]
    BY <1>1, AppendProperties
  <1>3. vs = Append(s, w)
    <2>1. Len(s) \in Nat /\ Len(ws) \in 1..Len(ws)
      BY <1>2
    <2>2. /\ vs \in Seq(Word) /\ Len(vs) = Len(ws)
          /\ \A j \in 1..Len(ws) : vs[j] = IF j = Len(ws) THEN w ELSE ws[j]
      BY <2>1, ExceptSeq
    <2>3. /\ Append(s, w) \in Seq(Word) /\ Len(Append(s, w)) = Len(s) + 1
          /\ \A j \in 1..Len(s) : Append(s, w)[j] = s[j]
          /\ Append(s, w)[Len(s) + 1] = w
      BY AppendProperties
    <2>4. ASSUME NEW j \in 1..Len(vs) PROVE vs[j] = Append(s, w)[j]
      BY <1>2, <2>1, <2>2, <2>3
    <2> QED
      BY <1>2, <2>2, <2>3, <2>4, SeqEqual
  <1>4. Parts(vs) = Parts(s) + w.parts /\ Parts(ws) = Parts(s) + e.parts
    BY <1>1, <1>3, PartsAppend
  <1>5. Parts(s) \in Nat /\ e.parts \in Nat /\ w.parts \in Nat
    BY PartsNat DEF Word
  <1> QED
    BY <1>2, <1>4, <1>5

-----------------------------------------------------------------------------
(* Tokens *)

LEMMA WithTextEmpty == WithText(<<>>) = 0
  <1>1. {i \in DOMAIN <<>> : <<>>[i].kind # "bare"} = {}
    OBVIOUS
  <1> QED
    BY <1>1, FS_EmptySet DEF WithText

\* The tokens with text among the first k.
TextUpTo(toks, k) == {i \in 1..k : toks[i].kind # "bare"}

LEMMA TextUpToStep ==
  ASSUME NEW toks, NEW k \in Nat
  PROVE  /\ IsFiniteSet(TextUpTo(toks, k))
         /\ Cardinality(TextUpTo(toks, k)) \in Nat
         /\ Cardinality(TextUpTo(toks, 0)) = 0
         /\ Cardinality(TextUpTo(toks, k + 1)) =
              Cardinality(TextUpTo(toks, k)) + (IF toks[k + 1].kind = "bare" THEN 0 ELSE 1)
  <1>1. IsFiniteSet(1..k) /\ TextUpTo(toks, k) \subseteq 1..k
    BY FS_Interval DEF TextUpTo
  <1>2. IsFiniteSet(TextUpTo(toks, k)) /\ Cardinality(TextUpTo(toks, k)) \in Nat
    BY <1>1, FS_Subset, FS_CardinalityType
  <1>3. TextUpTo(toks, 0) = {}
    BY DEF TextUpTo
  <1>4. Cardinality(TextUpTo(toks, 0)) = 0
    BY <1>3, FS_EmptySet
  <1>5. k + 1 \notin TextUpTo(toks, k)
    BY DEF TextUpTo
  <1>6. TextUpTo(toks, k + 1) =
          IF toks[k + 1].kind = "bare" THEN TextUpTo(toks, k)
                                       ELSE TextUpTo(toks, k) \cup {k + 1}
    BY DEF TextUpTo
  <1>7. Cardinality(TextUpTo(toks, k) \cup {k + 1}) = Cardinality(TextUpTo(toks, k)) + 1
    BY <1>2, <1>5, FS_AddElement
  <1> QED
    BY <1>2, <1>4, <1>6, <1>7

LEMMA WithTextAppend ==
  ASSUME NEW toks \in Seq(Token), NEW e \in Token
  PROVE  WithText(Append(toks, e)) = WithText(toks) + (IF e.kind = "bare" THEN 0 ELSE 1)
  <1> DEFINE r == Append(toks, e)
             n == Len(toks)
  <1>1. /\ n \in Nat /\ DOMAIN toks = 1..n /\ DOMAIN r = 1..(n + 1)
        /\ \A i \in 1..n : r[i] = toks[i]
        /\ r[n + 1] = e
    BY Appended
  <1> HIDE DEF r, n
  <1>2. WithText(toks) = Cardinality(TextUpTo(toks, n)) /\ WithText(r) = Cardinality(TextUpTo(r, n + 1))
    BY <1>1 DEF WithText, TextUpTo
  <1>3. TextUpTo(r, n) = TextUpTo(toks, n)
    BY <1>1 DEF TextUpTo
  <1>4. Cardinality(TextUpTo(r, n + 1)) =
          Cardinality(TextUpTo(r, n)) + (IF e.kind = "bare" THEN 0 ELSE 1)
    BY <1>1, TextUpToStep
  <1> QED
    BY <1>2, <1>3, <1>4 DEF r

-----------------------------------------------------------------------------
(* tokens_to_words *)

\* An open word is one of the words.
Accs == {acc \in [words : Seq(Word), open : BOOLEAN] : acc.open => acc.words # <<>>}

NewWord(at) == [start |-> at, end |-> at, parts |-> 1]
LEMMA LongerWord ==
  ASSUME NEW w \in Word, NEW at \in Nat
  PROVE  /\ Longer(w, at) \in Word
         /\ Longer(w, at).start = w.start /\ Longer(w, at).end = at
         /\ Longer(w, at).parts = w.parts + 1
  <1>1. \A a \in Nat : a + 1 \in Nat \ {0}
    OBVIOUS
  <1> QED
    BY <1>1 DEF Longer, Word

LEMMA NewIsWord ==
  ASSUME NEW at \in Nat
  PROVE  /\ NewWord(at) \in Word
         /\ NewWord(at).start = at /\ NewWord(at).end = at /\ NewWord(at).parts = 1
  BY DEF NewWord, Word

At(token, offset) == token.frame_index + offset

\* The three things a token does to the words.
LEMMA AddTokenCases ==
  ASSUME NEW acc \in Accs, NEW token \in Token, NEW offset \in Nat
  PROVE  \/ /\ token.kind = "bare"
            /\ AddToken(acc, token, offset) = [words |-> acc.words, open |-> FALSE]
         \/ /\ token.kind # "bare" /\ acc.words # <<>>
            /\ AddToken(acc, token, offset) =
                 [words |-> [acc.words EXCEPT ![Len(acc.words)] =
                               Longer(acc.words[Len(acc.words)], At(token, offset))],
                  open |-> TRUE]
         \/ /\ token.kind # "bare"
            /\ AddToken(acc, token, offset) =
                 [words |-> Append(acc.words, NewWord(At(token, offset))), open |-> TRUE]
  <1>1. /\ acc = [words |-> acc.words, open |-> acc.open]
        /\ acc.words \in Seq(Word) /\ acc.open \in BOOLEAN
        /\ acc.open => acc.words # <<>>
    BY DEF Accs
  <1>2. CASE token.kind = "bare"
    <2>1. AddToken(acc, token, offset) = [acc EXCEPT !.open = FALSE]
      BY <1>2 DEF AddToken
    <2> QED
      BY <1>1, <1>2, <2>1
  <1>3. CASE token.kind # "bare" /\ token.kind = "inner" /\ acc.open
    <2>1. AddToken(acc, token, offset) =
            [acc EXCEPT !.words[Len(acc.words)] =
                          Longer(acc.words[Len(acc.words)], At(token, offset))]
      BY ONLY <1>3 DEF AddToken, At
    <2>2. AddToken(acc, token, offset) =
            [words |-> [acc.words EXCEPT ![Len(acc.words)] =
                          Longer(acc.words[Len(acc.words)], At(token, offset))],
             open |-> acc.open]
      BY ONLY <1>1, <2>1
    <2> QED
      BY <1>1, <1>3, <2>2
  <1>4. CASE token.kind # "bare" /\ ~(token.kind = "inner" /\ acc.open)
    <2>1. AddToken(acc, token, offset) =
            [words |-> Append(acc.words, NewWord(At(token, offset))), open |-> TRUE]
      BY <1>4 DEF AddToken, NewWord, At
    <2> QED
      BY <1>4, <2>1
  <1> QED
    BY <1>2, <1>3, <1>4

\* Words in the order of time, none before from; and none beyond to.
InOrder(words, from) ==
  \A i \in DOMAIN words :
    /\ words[i].start <= words[i].end
    /\ words[i].start >= (IF i = 1 THEN from ELSE words[i - 1].end)
EndBy(words, to) == \A i \in DOMAIN words : words[i].end <= to

LEMMA WordNat ==
  ASSUME NEW w \in Word
  PROVE  w.start \in Nat /\ w.end \in Nat /\ w.parts \in Nat
  BY DEF Word

LEMMA WordsAre ==
  ASSUME NEW ws \in Seq(Word)
  PROVE  /\ Len(ws) \in Nat /\ DOMAIN ws = 1..Len(ws)
         /\ \A i \in 1..Len(ws) : ws[i] \in Word /\ ws[i].start \in Nat /\ ws[i].end \in Nat
  <1>1. Len(ws) \in Nat /\ DOMAIN ws = 1..Len(ws) /\ \A i \in 1..Len(ws) : ws[i] \in Word
    OBVIOUS
  <1> QED
    BY <1>1, WordNat

LEMMA OneBefore ==
  ASSUME NEW n \in Nat, NEW i \in 1..n
  PROVE  i # 1 => i - 1 \in 1..n
  OBVIOUS

LEMMA OrderAppend ==
  ASSUME NEW ws \in Seq(Word), NEW from \in Nat, NEW at \in Nat,
         InOrder(ws, from), EndBy(ws, at), from <= at
  PROVE  LET r == Append(ws, NewWord(at)) IN
         /\ r \in Seq(Word) /\ InOrder(r, from) /\ EndBy(r, at)
         /\ Parts(r) = Parts(ws) + 1
  <1> DEFINE w == NewWord(at)
             r == Append(ws, w)
             n == Len(ws)
  <1>1. w \in Word /\ w.start = at /\ w.end = at /\ w.parts = 1
    BY NewIsWord
  <1>2. n \in Nat /\ DOMAIN ws = 1..n /\ \A i \in 1..n : ws[i].start \in Nat /\ ws[i].end \in Nat
    BY WordsAre
  <1>3. /\ r \in Seq(Word) /\ Len(r) = n + 1 /\ DOMAIN r = 1..(n + 1)
        /\ \A i \in 1..n : r[i] = ws[i]
        /\ r[n + 1] = w
    BY <1>1, AppendProperties
  <1>4. Parts(r) = Parts(ws) + 1
    BY <1>1, PartsAppend
  <1> HIDE DEF w, r, n
  <1>5. ASSUME NEW i \in 1..(n + 1)
        PROVE  /\ r[i].start <= r[i].end /\ r[i].end <= at
               /\ r[i].start >= (IF i = 1 THEN from ELSE r[i - 1].end)
    <2>1. CASE i \in 1..n
      <3>1. r[i] = ws[i] /\ (i # 1 => i - 1 \in 1..n /\ r[i - 1] = ws[i - 1])
        <4>1. i # 1 => i - 1 \in 1..n
          BY <1>2, <2>1, OneBefore
        <4> QED
          BY <1>3, <2>1, <4>1, Zenon
      <3> QED
        BY <1>2, <2>1, <3>1 DEF InOrder, EndBy
    <2>2. CASE i = n + 1
      <3>1. r[i].start = at /\ r[i].end = at
        BY <1>1, <1>3, <2>2
      <3>2. i # 1 => r[i - 1].end \in Nat /\ r[i - 1].end <= at
        <4>1. i # 1 => i - 1 \in 1..n
          BY <1>2, <2>2
        <4>2. i # 1 => r[i - 1] = ws[i - 1]
          BY <1>3, <4>1, Zenon
        <4> QED
          BY <1>2, <4>1, <4>2 DEF EndBy
      <3> QED
        BY <3>1, <3>2
    <2> QED
      BY <1>2, <2>1, <2>2
  <1>6. InOrder(r, from) /\ EndBy(r, at)
    BY <1>3, <1>5 DEF InOrder, EndBy
  <1> QED
    BY <1>3, <1>4, <1>6 DEF r, w

LEMMA OrderLonger ==
  ASSUME NEW ws \in Seq(Word), ws # <<>>, NEW from \in Nat, NEW at \in Nat,
         InOrder(ws, from), EndBy(ws, at)
  PROVE  LET r == [ws EXCEPT ![Len(ws)] = Longer(ws[Len(ws)], at)] IN
         /\ r \in Seq(Word) /\ r # <<>> /\ InOrder(r, from) /\ EndBy(r, at)
         /\ Parts(r) = Parts(ws) + 1
  <1> DEFINE n == Len(ws)
             w == Longer(ws[n], at)
             r == [ws EXCEPT ![n] = w]
  <1>1. /\ n \in Nat /\ DOMAIN ws = 1..n
        /\ \A i \in 1..n : ws[i] \in Word /\ ws[i].start \in Nat /\ ws[i].end \in Nat
    BY WordsAre
  <1>2. n \in 1..n
    OBVIOUS
  <1>3. w \in Word /\ w.start = ws[n].start /\ w.end = at /\ w.parts = ws[n].parts + 1
    BY <1>1, <1>2, LongerWord
  <1>4. /\ r \in Seq(Word) /\ Len(r) = n /\ DOMAIN r = 1..n
        /\ \A i \in 1..n : r[i] = IF i = n THEN w ELSE ws[i]
    BY <1>2, <1>3, ExceptSeq
  <1>5. Parts(r) + ws[n].parts = Parts(ws) + w.parts
    BY <1>3, PartsLast
  <1>6. Parts(r) = Parts(ws) + 1
    <2>1. Parts(r) \in Nat /\ Parts(ws) \in Nat
      <3>1. r \in Seq(Word)
        BY <1>4
      <3> HIDE DEF r
      <3> QED
        BY <3>1, PartsNat
    <2>2. ws[n].parts \in Nat
      BY <1>1, <1>2, WordNat
    <2>3. w.parts = ws[n].parts + 1 /\ Parts(r) + ws[n].parts = Parts(ws) + w.parts
      BY <1>3, <1>5
    <2> HIDE DEF r, w, n
    <2>4. \A a, b, c \in Nat : a + c = b + (c + 1) => a = b + 1
      OBVIOUS
    <2> QED
      BY <2>1, <2>2, <2>3, <2>4
  <1> HIDE DEF r, w, n
  <1>7. r # <<>>
    BY <1>2, <1>4
  <1>8. ASSUME NEW i \in 1..n
        PROVE  /\ r[i].start <= r[i].end /\ r[i].end <= at
               /\ r[i].start >= (IF i = 1 THEN from ELSE r[i - 1].end)
    <2>1. i # 1 => i - 1 \in 1..n /\ i - 1 # n /\ r[i - 1] = ws[i - 1]
      BY <1>1, <1>4
    <2>2. /\ ws[i].start \in Nat /\ ws[i].end \in Nat /\ ws[i].start <= ws[i].end
          /\ ws[i].start >= (IF i = 1 THEN from ELSE ws[i - 1].end)
      BY <1>1 DEF InOrder
    <2>5. ws[i].end <= at
      BY <1>1 DEF EndBy
    <2>3. CASE i = n
      BY <1>3, <1>4, <2>1, <2>2, <2>3, <2>5
    <2>4. CASE i # n
      BY <1>4, <2>1, <2>2, <2>4, <2>5
    <2> QED
      BY <2>3, <2>4
  <1>9. InOrder(r, from) /\ EndBy(r, at)
    BY <1>4, <1>8 DEF InOrder, EndBy
  <1> QED
    BY <1>4, <1>6, <1>7, <1>9 DEF r, w, n

\* What a token leaves as it was: the words are in order, and it counts once, unless
\* it is the mark alone.
LEMMA AddTokenKeeps ==
  ASSUME NEW acc \in Accs, NEW token \in Token, NEW offset \in Nat,
         NEW from \in Nat, InOrder(acc.words, from), EndBy(acc.words, At(token, offset)),
         from <= At(token, offset), NEW r, r = AddToken(acc, token, offset)
  PROVE  /\ r \in Accs
         /\ InOrder(r.words, from) /\ EndBy(r.words, At(token, offset))
         /\ Parts(r.words) = Parts(acc.words) + (IF token.kind = "bare" THEN 0 ELSE 1)
  <1>1. acc.words \in Seq(Word) /\ At(token, offset) \in Nat
    BY DEF Accs, At, Token
  <1>2. CASE token.kind = "bare" /\ r = [words |-> acc.words, open |-> FALSE]
    <2>1. r.words = acc.words /\ r.open = FALSE
      BY <1>2
    <2>2. r \in Accs
      BY <1>1, <1>2 DEF Accs
    <2>3. Parts(acc.words) \in Nat
      BY <1>1, PartsNat
    <2> QED
      BY <1>2, <2>1, <2>2, <2>3
  <1>3. ASSUME NEW ws \in Seq(Word), ws # <<>>, r = [words |-> ws, open |-> TRUE]
        PROVE  r \in Accs /\ r.words = ws
    BY <1>3 DEF Accs
  <1>4. CASE /\ token.kind # "bare" /\ acc.words # <<>>
             /\ r = [words |-> [acc.words EXCEPT ![Len(acc.words)] =
                                  Longer(acc.words[Len(acc.words)], At(token, offset))],
                     open |-> TRUE]
    <2> DEFINE ws == [acc.words EXCEPT ![Len(acc.words)] =
                        Longer(acc.words[Len(acc.words)], At(token, offset))]
    <2>1. /\ ws \in Seq(Word) /\ ws # <<>>
          /\ InOrder(ws, from) /\ EndBy(ws, At(token, offset))
          /\ Parts(ws) = Parts(acc.words) + 1
      BY <1>1, <1>4, OrderLonger
    <2>2. r = [words |-> ws, open |-> TRUE]
      BY <1>4
    <2> HIDE DEF ws
    <2> QED
      BY <1>3, <1>4, <2>1, <2>2
  <1>5. CASE /\ token.kind # "bare"
             /\ r = [words |-> Append(acc.words, NewWord(At(token, offset))), open |-> TRUE]
    <2> DEFINE ws == Append(acc.words, NewWord(At(token, offset)))
    <2>1. /\ ws \in Seq(Word)
          /\ InOrder(ws, from) /\ EndBy(ws, At(token, offset))
          /\ Parts(ws) = Parts(acc.words) + 1
      BY <1>1, OrderAppend
    <2>2. ws # <<>>
      BY <1>1, <2>1
    <2>3. r = [words |-> ws, open |-> TRUE]
      BY <1>5
    <2> HIDE DEF ws
    <2> QED
      BY <1>3, <1>5, <2>1, <2>2, <2>3
  <1> QED
    BY <1>2, <1>4, <1>5, AddTokenCases

NoWords == [words |-> <<>>, open |-> FALSE]

LEMMA NoWordsYet ==
  /\ NoWords \in Accs /\ NoWords.words = <<>> /\ Parts(NoWords.words) = 0
  /\ \A from, to : InOrder(NoWords.words, from) /\ EndBy(NoWords.words, to)
  <1>1. <<>> \in Seq(Word) /\ NoWords.words = <<>> /\ NoWords.open = FALSE
    BY DEF NoWords
  <1>2. NoWords \in Accs
    BY <1>1 DEF Accs, NoWords
  <1>3. \A i \in DOMAIN <<>> : FALSE
    OBVIOUS
  <1>4. \A from, to : InOrder(<<>>, from) /\ EndBy(<<>>, to)
    BY <1>3 DEF InOrder, EndBy
  <1> QED
    BY <1>1, <1>2, <1>4, PartsEmpty

LEMMA AddTokenType ==
  ASSUME NEW acc \in Accs, NEW token \in Token, NEW offset \in Nat
  PROVE  AddToken(acc, token, offset) \in Accs
  <1> DEFINE r == AddToken(acc, token, offset)
             n == Len(acc.words)
  <1>1. acc.words \in Seq(Word) /\ At(token, offset) \in Nat
    BY DEF Accs, At, Token
  <1>2. ASSUME NEW ws \in Seq(Word), NEW b \in BOOLEAN, b => ws # <<>>, r = [words |-> ws, open |-> b]
        PROVE  r \in Accs
    BY <1>2 DEF Accs
  <1>3. CASE r = [words |-> acc.words, open |-> FALSE]
    BY <1>1, <1>2, <1>3
  <1>4. CASE /\ acc.words # <<>>
             /\ r = [words |-> [acc.words EXCEPT ![n] = Longer(acc.words[n], At(token, offset))],
                     open |-> TRUE]
    <2>1. n \in 1..n /\ acc.words[n] \in Word
      BY <1>1, <1>4
    <2>2. Longer(acc.words[n], At(token, offset)) \in Word
      BY <1>1, <2>1, LongerWord
    <2> DEFINE ws == [acc.words EXCEPT ![n] = Longer(acc.words[n], At(token, offset))]
    <2>3. ws \in Seq(Word) /\ Len(ws) = n
      BY <1>1, <2>1, <2>2, ExceptSeq
    <2>4. ws # <<>>
      BY <2>1, <2>3
    <2>5. r = [words |-> ws, open |-> TRUE]
      BY <1>4
    <2> HIDE DEF ws
    <2> QED
      BY <1>2, <2>3, <2>4, <2>5
  <1>5. CASE r = [words |-> Append(acc.words, NewWord(At(token, offset))), open |-> TRUE]
    <2> DEFINE ws == Append(acc.words, NewWord(At(token, offset)))
    <2>1. ws \in Seq(Word) /\ ws # <<>>
      BY <1>1, NewIsWord, AppendProperties
    <2>2. r = [words |-> ws, open |-> TRUE]
      BY <1>5
    <2> HIDE DEF ws
    <2> QED
      BY <1>2, <2>1, <2>2
  <1> QED
    BY <1>3, <1>4, <1>5, AddTokenCases

\* What tokens_to_words holds after each token.
LEMMA WordsFold ==
  ASSUME NEW toks \in Seq(Token), NEW offset \in Nat
  PROVE  \E p : /\ p \in [0..Len(toks) -> Accs] /\ p[0] = NoWords
                /\ \A k \in 1..Len(toks) : p[k] = AddToken(p[k - 1], toks[k], offset)
                /\ tokens_to_words(toks, offset) = p[Len(toks)].words
  <1> DEFINE n == Len(toks)
             Folds(g) == g = [s \in SUBSET (1..n) |->
                                IF s = {} THEN NoWords
                                ELSE AddToken(g[s \ {Max(s)}], toks[Max(s)], offset)]
  <1>0. n \in Nat
    OBVIOUS
  <1>1. DOMAIN toks = 1..n /\ \A i \in 1..n : toks[i] \in Token
    OBVIOUS
  <1>2. tokens_to_words(toks, offset) = (CHOOSE g : Folds(g))[1..n].words
    BY <1>1 DEF tokens_to_words, FoldLeft, MapThenFoldSet, NoWords
  <1>3. \E g : Folds(g)
    <2> DEFINE F == [x \in Accs \X Token |-> AddToken(x[1], x[2], offset)]
    <2>1. F \in [Accs \X Token -> Accs]
      BY AddTokenType
    <2>2. \A a \in Accs, e \in Token : F[<<a, e>>] = AddToken(a, e, offset)
      OBVIOUS
    <2> HIDE DEF F
    <2>3. PICK g : IsFold(g, Accs, F, NoWords, toks, n)
      <3>1. NoWords \in Accs
        BY NoWordsYet
      <3> HIDE DEF n
      <3> QED
        BY <1>0, <1>1, <2>1, <3>1, FoldExists
    <2>4. ASSUME NEW s \in SUBSET (1..n), s # {}
          PROVE  F[<<g[s \ {Max(s)}], toks[Max(s)]>>] =
                   AddToken(g[s \ {Max(s)}], toks[Max(s)], offset)
      <3>1. Max(s) \in 1..n
        BY <1>0, <2>4, HasMax
      <3>2. s \ {Max(s)} \in SUBSET (1..n)
        OBVIOUS
      <3> QED
        BY <1>1, <2>2, <2>3, <3>1, <3>2 DEF IsFold
    <2>5. Folds(g)
      BY <2>3, <2>4 DEF IsFold
    <2> QED
      BY <2>5
  <1> DEFINE g == CHOOSE x : Folds(x)
  <1>4. Folds(g)
    BY <1>3
  <1> HIDE DEF g, n
  <1>5. tokens_to_words(toks, offset) = g[1..n].words
    BY <1>2 DEF g
  <1>6. g[1..0] = NoWords
    <2>1. 1..0 = {} /\ 1..0 \in SUBSET (1..n)
      OBVIOUS
    <2> QED
      BY <1>4, <2>1
  <1> DEFINE p == [k \in 0..n |-> g[1..k]]
  <1>7. ASSUME NEW k \in 1..n PROVE p[k] = AddToken(p[k - 1], toks[k], offset)
    <2>1. /\ k \in 0..n /\ k - 1 \in 0..n
          /\ 1..k \in SUBSET (1..n) /\ 1..k # {}
          /\ Max(1..k) = k /\ (1..k) \ {Max(1..k)} = 1..(k - 1)
      BY <1>0, PrefixTop
    <2>2. g[1..k] = AddToken(g[1..(k - 1)], toks[k], offset)
      BY <1>4, <2>1
    <2> QED
      BY <2>1, <2>2
  <1>8. DOMAIN p = 0..n /\ p[0] = NoWords /\ p[n] = g[1..n] /\ p = [k \in 0..n |-> p[k]]
    BY <1>0, <1>6
  <1> HIDE DEF p
  <1>9. \A k \in 0..n : p[k] \in Accs
    <2> DEFINE T == {k \in 0..n : p[k] \in Accs}
    <2>1. 0 \in T
      BY <1>0, <1>8, NoWordsYet
    <2>2. ASSUME NEW k \in 1..n, k - 1 \in T PROVE k \in T
      <3>1. p[k] \in Accs
        BY <1>1, <1>7, <2>2, AddTokenType
      <3>2. k \in 0..n
        BY <1>0
      <3> QED
        BY <3>1, <3>2
    <2>3. \A k \in 0..n : k \in T
      <3> HIDE DEF T
      <3> QED
        BY <1>0, <2>1, <2>2, UpTo
    <2> QED
      BY <2>3
  <1>10. p \in [0..n -> Accs]
    BY <1>8, <1>9
  <1> QED
    BY <1>5, <1>7, <1>8, <1>10 DEF n

\* For tokens in the order of frames, none beyond last: tokens_to_words makes words in
\* order, behind the offset and not beyond the last frame, and every token with text
\* is in one of them.
LEMMA WordsOfTokens ==
  ASSUME NEW toks \in Seq(Token), NEW offset \in Nat, NEW last \in Nat,
         \A i \in DOMAIN toks : toks[i].frame_index <= last,
         \A i, j \in DOMAIN toks : i <= j => toks[i].frame_index <= toks[j].frame_index,
         NEW ws, ws = tokens_to_words(toks, offset)
  PROVE  /\ ws \in Seq(Word) /\ InOrder(ws, offset) /\ EndBy(ws, offset + last)
         /\ Parts(ws) = WithText(toks)
  <1> DEFINE n == Len(toks)
  <1>1. /\ n \in Nat /\ DOMAIN toks = 1..n
        /\ \A i \in 1..n : toks[i].frame_index \in Nat /\ toks[i] \in Token
    BY FramesNat
  <1>2. PICK p : /\ p \in [0..n -> Accs] /\ p[0] = NoWords /\ ws = p[n].words
                 /\ \A k \in 1..n : p[k] = AddToken(p[k - 1], toks[k], offset)
    BY WordsFold
  <1> DEFINE Upto(k) == IF k = n THEN offset + last ELSE At(toks[k + 1], offset)
             Good(k) == /\ InOrder(p[k].words, offset)
                        /\ EndBy(p[k].words, Upto(k))
                        /\ Parts(p[k].words) = Cardinality(TextUpTo(toks, k))
             T == {k \in 0..n : Good(k)}
  <1> HIDE DEF n
  <1>3. 0 \in T
    <2>1. Good(0)
      BY <1>1, <1>2, NoWordsYet, TextUpToStep
    <2> QED
      BY <1>1, <2>1
  <1>4. ASSUME NEW k \in 1..n, k - 1 \in T PROVE k \in T
    <2>1. k \in 0..n /\ k - 1 \in 0..n /\ k - 1 # n /\ (k - 1) + 1 = k
      BY <1>1
    <2> DEFINE at == At(toks[k], offset)
    <2>2. at \in Nat /\ offset <= at /\ at <= Upto(k) /\ Upto(k) \in Nat
      <3>1. toks[k].frame_index \in Nat /\ toks[k].frame_index <= last
        BY <1>1
      <3>2. CASE k = n
        BY <3>1, <3>2 DEF At
      <3>3. CASE k # n
        <4>1. k + 1 \in 1..n /\ k <= k + 1
          BY <1>1, <3>3
        <4>2. toks[k].frame_index <= toks[k + 1].frame_index /\ toks[k + 1].frame_index \in Nat
          BY <1>1, <4>1
        <4>3. Upto(k) = toks[k + 1].frame_index + offset /\ at = toks[k].frame_index + offset
          BY <3>3 DEF At
        <4> HIDE DEF Upto, at
        <4>4. ASSUME NEW a \in Nat, NEW b \in Nat, a <= b
              PROVE  /\ a + offset \in Nat /\ b + offset \in Nat
                     /\ offset <= a + offset /\ a + offset <= b + offset
          BY <4>4
        <4>5. LET a == toks[k].frame_index
                  b == toks[k + 1].frame_index
              IN /\ a + offset \in Nat /\ b + offset \in Nat
                 /\ offset <= a + offset /\ a + offset <= b + offset
          BY <3>1, <4>2, <4>4, Zenon
        <4> QED
          BY <4>3, <4>5, Zenon
      <3> QED
        BY <3>2, <3>3
    <2>3. /\ p[k - 1] \in Accs /\ InOrder(p[k - 1].words, offset) /\ EndBy(p[k - 1].words, at)
          /\ Parts(p[k - 1].words) = Cardinality(TextUpTo(toks, k - 1))
      BY <1>2, <1>4, <2>1
    <2>4. /\ p[k] \in Accs /\ InOrder(p[k].words, offset) /\ EndBy(p[k].words, at)
          /\ Parts(p[k].words) = Parts(p[k - 1].words) + (IF toks[k].kind = "bare" THEN 0 ELSE 1)
      BY <1>1, <1>2, <2>2, <2>3, AddTokenKeeps
    <2>5. EndBy(p[k].words, Upto(k))
      <3>1. p[k].words \in Seq(Word)
        BY <2>4 DEF Accs
      <3> HIDE DEF Upto, at
      <3>2. ASSUME NEW i \in DOMAIN p[k].words
            PROVE  p[k].words[i].end <= Upto(k)
        <4>1. p[k].words[i].end \in Nat /\ p[k].words[i].end <= at
          BY <2>4, <3>1, WordsAre DEF EndBy
        <4>2. \A a, b, c \in Nat : a <= b /\ b <= c => a <= c
          OBVIOUS
        <4> QED
          BY <2>2, <4>1, <4>2
      <3> QED
        BY <3>2 DEF EndBy
    <2>6. Parts(p[k].words) = Cardinality(TextUpTo(toks, k))
      <3>1. k - 1 \in Nat
        BY <2>1
      <3>2. Cardinality(TextUpTo(toks, (k - 1) + 1)) =
              Cardinality(TextUpTo(toks, k - 1)) + (IF toks[(k - 1) + 1].kind = "bare" THEN 0 ELSE 1)
        BY <3>1, TextUpToStep
      <3> QED
        BY <2>1, <2>3, <2>4, <3>2
    <2> QED
      BY <2>1, <2>4, <2>5, <2>6
  <1>5. \A k \in 0..n : k \in T
    <2> HIDE DEF T
    <2> QED
      BY <1>1, <1>3, <1>4, UpTo
  <1>6. Good(n) /\ n \in 0..n
    BY <1>1, <1>5
  <1>7. ws \in Seq(Word)
    BY <1>2, <1>6 DEF Accs
  <1>8. WithText(toks) = Cardinality(TextUpTo(toks, n))
    BY <1>1 DEF WithText, TextUpTo
  <1> QED
    BY <1>2, <1>6, <1>7, <1>8

\* Later words behind earlier ones.
LEMMA OrderConcat ==
  ASSUME NEW a \in Seq(Word), NEW b \in Seq(Word), NEW from \in Nat, NEW mid \in Nat, NEW to \in Nat,
         from <= mid, mid <= to,
         InOrder(a, from), EndBy(a, mid), InOrder(b, mid), EndBy(b, to)
  PROVE  a \o b \in Seq(Word) /\ InOrder(a \o b, from) /\ EndBy(a \o b, to)
  <1> DEFINE c == a \o b
             m == Len(a)
             n == Len(b)
  <1>1. /\ m \in Nat /\ DOMAIN a = 1..m
        /\ \A i \in 1..m : a[i].start \in Nat /\ a[i].end \in Nat
    BY WordsAre
  <1>2. /\ n \in Nat /\ DOMAIN b = 1..n
        /\ \A i \in 1..n : b[i].start \in Nat /\ b[i].end \in Nat
    BY WordsAre
  <1>3. /\ c \in Seq(Word) /\ Len(c) = m + n /\ DOMAIN c = 1..(m + n)
        /\ \A i \in 1..(m + n) : c[i] = IF i <= m THEN a[i] ELSE b[i - m]
    BY ConcatProperties
  <1> HIDE DEF c, m, n
  <1>4. ASSUME NEW i \in 1..m
        PROVE  /\ a[i].start <= a[i].end /\ a[i].end <= mid
               /\ a[i].start >= (IF i = 1 THEN from ELSE a[i - 1].end)
    BY <1>1 DEF InOrder, EndBy
  <1>5. ASSUME NEW i \in 1..n
        PROVE  /\ b[i].start <= b[i].end /\ b[i].end <= to
               /\ b[i].start >= (IF i = 1 THEN mid ELSE b[i - 1].end)
    BY <1>2 DEF InOrder, EndBy
  <1>6. ASSUME NEW i \in 1..(m + n)
        PROVE  /\ c[i].start <= c[i].end /\ c[i].end <= to
               /\ c[i].start >= (IF i = 1 THEN from ELSE c[i - 1].end)
    <2>1. CASE i <= m
      <3>1. i \in 1..m /\ c[i] = a[i]
        BY <1>1, <1>3, <2>1
      <3>2. i # 1 => c[i - 1] = a[i - 1]
        BY <1>1, <1>2, <1>3, <2>1
      <3>3. /\ a[i].start <= a[i].end /\ a[i].end <= mid /\ a[i].end \in Nat
            /\ a[i].start >= (IF i = 1 THEN from ELSE a[i - 1].end)
        BY <1>1, <1>4, <3>1
      <3>4. a[i].end <= to
        BY <3>3
      <3> QED
        BY <3>1, <3>2, <3>3, <3>4, Zenon
    <2>2. CASE i > m
      <3> DEFINE j == i - m
      <3>1. j \in 1..n /\ c[i] = b[j] /\ ~(i <= m)
        BY <1>1, <1>2, <1>3, <2>2
      <3>2. /\ b[j].start \in Nat /\ b[j].end \in Nat
            /\ b[j].start <= b[j].end /\ b[j].end <= to
            /\ b[j].start >= (IF j = 1 THEN mid ELSE b[j - 1].end)
        BY <1>2, <1>5, <3>1
      <3>3. CASE j # 1
        <4>1. i # 1 /\ i - 1 \in 1..(m + n) /\ ~(i - 1 <= m) /\ (i - 1) - m = j - 1
          BY <1>1, <1>2, <3>1, <3>3
        <4>2. c[i - 1] = b[j - 1]
          BY <1>3, <4>1
        <4> QED
          BY <3>1, <3>2, <3>3, <4>1, <4>2
      <3>4. CASE j = 1
        <4>1. b[j].start >= mid
          BY <3>2, <3>4
        <4>2. CASE i = 1
          BY <3>1, <3>2, <4>1, <4>2
        <4>3. CASE i # 1
          <5>1. i - 1 \in 1..m /\ i - 1 \in 1..(m + n) /\ i - 1 <= m
            BY <1>1, <1>2, <3>1, <3>4, <4>3
          <5>2. c[i - 1] = a[i - 1]
            BY <1>3, <5>1
          <5>3. a[i - 1].end \in Nat /\ a[i - 1].end <= mid
            BY <1>1, <1>4, <5>1
          <5> QED
            BY <3>1, <3>2, <4>1, <4>3, <5>2, <5>3
        <4> QED
          BY <4>2, <4>3
      <3> QED
        BY <3>3, <3>4
    <2> QED
      BY <1>1, <1>2, <2>1, <2>2
  <1>7. InOrder(c, from) /\ EndBy(c, to)
    BY <1>3, <1>6 DEF InOrder, EndBy
  <1> QED
    BY <1>3, <1>7 DEF c

LEMMA EmptyWords ==
  /\ <<>> \in Seq(Word) /\ Parts(<<>>) = 0
  /\ \A from, to : InOrder(<<>>, from) /\ EndBy(<<>>, to)
  <1>1. \A i \in DOMAIN <<>> : FALSE
    OBVIOUS
  <1> QED
    BY <1>1, PartsEmpty DEF InOrder, EndBy

LEMMA Finalized ==
  ASSUME NEW words \in Seq(Word), NEW to \in Nat, EndBy(words, to),
         latest \in Nat, latest <= to, finalised \in Nat, finalize(words)
  PROVE  /\ assembler' = <<>>
         /\ finalised' = finalised + Parts(words) /\ finalised' \in Nat
         /\ latest' \in Nat /\ latest' <= to
  <1>1. /\ assembler' = <<>> /\ finalised' = finalised + Parts(words)
        /\ latest' = IF words = <<>> THEN latest ELSE words[Len(words)].end
    BY DEF finalize, Last
  <1>2. Parts(words) \in Nat
    BY PartsNat
  <1>3. words # <<>> => words[Len(words)].end \in Nat /\ words[Len(words)].end <= to
    <2>1. words # <<>> => Len(words) \in DOMAIN words
      OBVIOUS
    <2> QED
      BY <2>1, WordsAre DEF EndBy
  <1> QED
    BY <1>1, <1>2, <1>3

\* The encoder makes no more frames than it is given.
LEMMA EncodedShrinks ==
  ASSUME NEW f \in Nat
  PROVE  EncodedLen(f) \in Nat /\ EncodedLen(f) <= f
  <1> DEFINE e == EncodedLen(f)
             s == ENCODER_SUBSAMPLING
  <1>1. s \in Nat \ {0} /\ f + s - 1 \in Nat
    <2>1. s \in Nat \ {0}
      BY StreamAssumption
    <2> HIDE DEF s
    <2> QED
      BY <2>1
  <1>2. e \in Nat /\ e * s <= f + s - 1
    BY <1>1, DivBounds DEF EncodedLen
  <1> HIDE DEF e, s
  <1>3. ~(e >= f + 1)
    <2> SUFFICES ASSUME e >= f + 1 PROVE FALSE
      OBVIOUS
    <2>1. e * s >= (f + 1) * s
      BY <1>1, <1>2
    <2>2. (f + 1) * s = f * s + s /\ f * s >= f
      BY <1>1
    <2>3. e * s \in Nat /\ f * s \in Nat /\ (f + 1) * s \in Nat
      BY <1>1, <1>2
    <2> QED
      BY <1>1, <1>2, <2>1, <2>2, <2>3
  <1>4. e <= f
    BY <1>2, <1>3
  <1> QED
    BY <1>2, <1>4 DEF e

-----------------------------------------------------------------------------
(* The text of a stream *)

USE StreamAssumption

TextTypes ==
  /\ phase \in {"opening", "ready", "decode", "over"}
  /\ running <=> phase = "decode"
  /\ assembler \in Seq(Word)
  /\ latest \in Nat /\ found \in Nat /\ finalised \in Nat /\ lost \in Nat

\* No word ends beyond the time that total_frames has reached, and a chunk's tokens
\* are of the chunk.
WithinTime ==
  /\ EndBy(assembler, total_frames)
  /\ caller # "file" => latest <= total_frames
  /\ phase = "decode" => encoded_len <= num_frames

\* The words of a file are never assembled.
FileWords == caller = "file" => assembler = <<>>

TextInv == TextTypes /\ TokensOnce /\ WordTimesGrow /\ WithinTime /\ FileWords

\* What is known of the decoder and the samples below.
Below == Inv /\ SampleInv

LEMMA BelowFacts ==
  ASSUME Below
  PROVE  /\ tokens \in Seq(Token) /\ WithText(tokens) \in Nat
         /\ ~running => tokens = <<>>
         /\ t \in Nat /\ encoded_len \in Nat /\ t <= encoded_len
         /\ \A i \in DOMAIN tokens : tokens[i].frame_index <= t
         /\ \A i, j \in DOMAIN tokens : i <= j => tokens[i].frame_index <= tokens[j].frame_index
         /\ total_frames \in Nat /\ num_frames \in Nat
  <1>1. /\ tokens \in Seq(Token) /\ encoded_len \in Nat /\ t \in 0..encoded_len
        /\ ~running => tokens = <<>>
        /\ \A i \in DOMAIN tokens : tokens[i].frame_index <= t
        /\ \A i, j \in DOMAIN tokens : i <= j => tokens[i].frame_index <= tokens[j].frame_index
    BY DEF Below, Inv, GreedyTypeOK, IdleInv, Blank0, FramesInv
  <1>2. total_frames \in Nat /\ num_frames \in Nat
    BY DEF Below, SampleInv, Counts
  <1>3. WithText(tokens) \in Nat
    <2>1. /\ Len(tokens) \in Nat /\ DOMAIN tokens = 1..Len(tokens)
      BY <1>1
    <2>2. WithText(tokens) = Cardinality(TextUpTo(tokens, Len(tokens)))
      BY <2>1 DEF WithText, TextUpTo
    <2> QED
      BY <2>1, <2>2, TextUpToStep
  <1> QED
    BY <1>1, <1>2, <1>3

\* Where nothing happens to words or tokens.
LEMMA TextSame ==
  ASSUME TextInv,
         UNCHANGED <<running, encoded_len, tokens, caller, num_frames, total_frames, assembler, text>>,
         phase' \in {"opening", "ready", "decode", "over"},
         phase' = "decode" <=> phase = "decode"
  PROVE  TextInv'
  BY DEF TextInv, TextTypes, TokensOnce, WordTimesGrow, WithinTime, FileWords, EndBy, text

\* A call of greedy_decode on n frames.
LEMMA TextStart ==
  ASSUME TextInv, NEW n \in Nat, num_frames' = n, Start(EncodedLen(n)), phase' = "decode",
         UNCHANGED <<caller, total_frames, assembler, text>>
  PROVE  TextInv'
  <1>1. encoded_len' <= num_frames' /\ running' = TRUE /\ tokens' = tokens
    BY EncodedShrinks DEF Start, locals
  <1> QED
    BY <1>1 DEF TextInv, TextTypes, TokensOnce, WordTimesGrow, WithinTime, FileWords, EndBy, text

LEMMA TextChunk ==
  ASSUME TextInv, Below, NEW n \in Nat, ProcessChunk(n)
  PROVE  TextInv'
  <1> DEFINE u == prepare_audio_buffer(n).usable
  <1>1. CASE u = 0
    <2>1. UNCHANGED <<greedyVars, phase, caller, num_frames, total_frames, assembler, text>>
      BY <1>1 DEF ProcessChunk
    <2>2. phase \in {"opening", "ready", "decode", "over"}
      BY DEF TextInv, TextTypes
    <2> QED
      BY <2>1, <2>2, TextSame DEF greedyVars, locals
  <1>2. CASE u # 0
    <2>1. u \in Nat
      BY PrepareBounds DEF Below, SampleInv, Counts
    <2>2. /\ num_frames' = MelFrames(u) /\ Start(EncodedLen(num_frames')) /\ phase' = "decode"
          /\ UNCHANGED <<caller, total_frames, assembler, text>>
      BY <1>2 DEF ProcessChunk
    <2>3. MelFrames(u) \in Nat
      BY <2>1, MelFramesNat
    <2> HIDE DEF u
    <2> QED
      BY <2>2, <2>3, TextStart
  <1> QED
    BY <1>1, <1>2

LEMMA TextBeforeDecoding ==
  ASSUME TextInv, Below,
         \/ \E n \in Sizes : Packet(n) \/ WsFrame(n) \/ gigastt_stream_process_chunk(n)
         \/ FileFails \/ EndOfFile \/ transcribe_samples \/ SseChunk
  PROVE  TextInv'
  <1>1. samples \in Nat
    BY DEF Below, SampleInv, Counts
  <1>2. ASSUME NEW n \in Sizes, Packet(n) PROVE TextInv'
    <2>1. /\ UNCHANGED <<greedyVars, caller, num_frames, stream, text>>
          /\ phase = "opening" /\ phase' \in {"opening", "over"}
      BY <1>2 DEF Packet
    <2> QED
      BY <2>1, TextSame DEF greedyVars, locals, stream
  <1>3. CASE FileFails \/ EndOfFile
    <2>1. /\ UNCHANGED <<greedyVars, caller, num_frames, stream, text>>
          /\ phase = "opening" /\ phase' \in {"ready", "over"}
      BY <1>3 DEF FileFails, EndOfFile
    <2> QED
      BY <2>1, TextSame DEF greedyVars, locals, stream
  <1>4. CASE transcribe_samples
    <2>1. /\ num_frames' = MelFrames(samples) /\ Start(EncodedLen(num_frames')) /\ phase' = "decode"
          /\ UNCHANGED <<caller, stream, text>>
      BY <1>4 DEF transcribe_samples
    <2>2. MelFrames(samples) \in Nat
      BY <1>1, MelFramesNat
    <2> QED
      BY <2>1, <2>2, TextStart DEF stream
  <1>5. CASE SseChunk
    <2>1. Min({chunk_size, samples}) \in Nat
      BY <1>1, MinOfTwo
    <2> QED
      BY <1>5, <2>1, TextChunk DEF SseChunk
  <1>6. ASSUME NEW n \in Sizes, WsFrame(n) \/ gigastt_stream_process_chunk(n) PROVE TextInv'
    <2>1. n \in Nat /\ n \div 2 \in Nat
      BY DivBounds
    <2> QED
      BY <1>6, <2>1, TextChunk DEF WsFrame, gigastt_stream_process_chunk
  <1> QED
    BY <1>2, <1>3, <1>4, <1>5, <1>6

\* A token with text is found as it goes among the tokens.
LEMMA TextTurn ==
  ASSUME TextInv, Below, Turn
  PROVE  TextInv'
  <1>1. tokens \in Seq(Token) /\ WithText(tokens) \in Nat /\ t \in Nat
    BY BelowFacts
  <1>2. UNCHANGED <<caller, phase, num_frames, total_frames, assembler, latest, finalised, lost>>
    BY DEF Turn, Decoding, stream
  <1>3. UNCHANGED <<running, encoded_len>>
    BY DEF Turn, Blank, Capped, Emit, Joined
  <1>4. \E d \in {0, 1} : found' = found + d /\ WithText(tokens') = WithText(tokens) + d
    <2>1. found \in Nat
      BY DEF TextInv, TextTypes
    <2>2. CASE (Blank \/ Capped) /\ UNCHANGED found
      <3>1. tokens' = tokens
        BY <2>2 DEF Blank, Capped
      <3> QED
        BY <1>1, <2>1, <2>2, <3>1
    <2>3. ASSUME NEW kind \in Kinds, Emit(kind),
                 found' = found + (IF kind = "bare" THEN 0 ELSE 1)
          PROVE  \E d \in {0, 1} : found' = found + d /\ WithText(tokens') = WithText(tokens) + d
      <3> DEFINE e == [kind |-> kind, frame_index |-> t]
      <3>1. tokens' = Append(tokens, e)
        BY <2>3 DEF Emit, Commit
      <3>2. e \in Token /\ e.kind = kind
        BY <1>1 DEF Token
      <3> HIDE DEF e
      <3>3. WithText(tokens') = WithText(tokens) + (IF kind = "bare" THEN 0 ELSE 1)
        BY <1>1, <3>1, <3>2, WithTextAppend
      <3> QED
        BY <2>3, <3>3
    <2> QED
      BY <2>2, <2>3 DEF Turn
  <1>5. PICK d \in {0, 1} : found' = found + d /\ WithText(tokens') = WithText(tokens) + d
    BY <1>4
  <1>6. TextTypes'
    BY <1>2, <1>3, <1>5 DEF TextInv, TextTypes
  <1>7. TokensOnce'
    <2>1. Parts(assembler) \in Nat /\ finalised \in Nat /\ lost \in Nat /\ found \in Nat
      BY PartsNat DEF TextInv, TextTypes
    <2>2. found = finalised + lost + Parts(assembler) + WithText(tokens)
      BY DEF TextInv, TokensOnce
    <2>3. \A x, w \in Nat : (x + w) + d = x + (w + d)
      OBVIOUS
    <2>4. finalised + lost + Parts(assembler) \in Nat
      BY <2>1
    <2>5. found' = finalised + lost + Parts(assembler) + WithText(tokens')
      BY <1>1, <1>5, <2>2, <2>3, <2>4
    <2> QED
      BY <1>2, <2>5 DEF TokensOnce
  <1>8. WordTimesGrow' /\ WithinTime' /\ FileWords'
    BY <1>2, <1>3 DEF TextInv, WordTimesGrow, WithinTime, FileWords, EndBy
  <1> QED
    BY <1>6, <1>7, <1>8 DEF TextInv

\* The words of a chunk, behind those of the chunks before.
LEMMA NewWords ==
  ASSUME Below, NEW offset \in Nat, NEW ws, ws = tokens_to_words(tokens, offset)
  PROVE  /\ ws \in Seq(Word) /\ InOrder(ws, offset) /\ EndBy(ws, offset + encoded_len)
         /\ Parts(ws) = WithText(tokens)
  <1>1. /\ tokens \in Seq(Token) /\ encoded_len \in Nat
        /\ \A i \in DOMAIN tokens : tokens[i].frame_index <= encoded_len
        /\ \A i, j \in DOMAIN tokens : i <= j => tokens[i].frame_index <= tokens[j].frame_index
    <2>1. /\ tokens \in Seq(Token) /\ encoded_len \in Nat /\ t \in Nat /\ t <= encoded_len
          /\ \A i \in DOMAIN tokens : tokens[i].frame_index <= t
          /\ \A i, j \in DOMAIN tokens : i <= j => tokens[i].frame_index <= tokens[j].frame_index
      BY BelowFacts
    <2>2. \A i \in DOMAIN tokens : tokens[i].frame_index \in Nat
      BY <2>1, FramesNat
    <2> QED
      BY <2>1, <2>2
  <1> QED
    BY <1>1, WordsOfTokens

\* The text of a chunk goes to the words, and they may go out.
LEMMA TextDecoded ==
  ASSUME TextInv, Below, Decoded
  PROVE  TextInv'
  <1> DEFINE ws == tokens_to_words(tokens, total_frames)
             all == assembler \o ws
             later == total_frames + num_frames
  <1>1. /\ caller # "file" /\ phase = "decode" /\ phase' = "ready" /\ caller' = caller
        /\ total_frames' = later /\ running' = FALSE /\ tokens' = <<>>
        /\ UNCHANGED <<found, lost>>
    BY DEF Decoded, ChunkDone, Return, Leave
  <1>2. \/ finalize(all)
        \/ assembler' = all /\ finalised' = finalised /\ latest' = latest
    BY DEF Decoded, ChunkDone
  <1>3. /\ total_frames \in Nat /\ num_frames \in Nat /\ encoded_len \in Nat
        /\ WithText(tokens) \in Nat
    BY BelowFacts
  <1>4. /\ assembler \in Seq(Word) /\ InOrder(assembler, latest) /\ EndBy(assembler, total_frames)
        /\ latest \in Nat /\ latest <= total_frames /\ encoded_len <= num_frames
    BY <1>1 DEF TextInv, TextTypes, WordTimesGrow, WithinTime, InOrder
  <1>counts. /\ finalised \in Nat /\ found \in Nat /\ lost \in Nat
             /\ found = finalised + lost + Parts(assembler) + WithText(tokens)
    BY DEF TextInv, TextTypes, TokensOnce
  <1>5. /\ ws \in Seq(Word) /\ InOrder(ws, total_frames)
        /\ EndBy(ws, total_frames + encoded_len) /\ Parts(ws) = WithText(tokens)
    BY <1>3, NewWords
  <1> HIDE DEF ws
  <1>6. /\ later \in Nat /\ total_frames <= later
        /\ total_frames + encoded_len \in Nat /\ total_frames <= total_frames + encoded_len
        /\ total_frames + encoded_len <= later
    BY <1>3, <1>4
  <1>7. all \in Seq(Word) /\ InOrder(all, latest) /\ EndBy(all, total_frames + encoded_len)
    BY <1>3, <1>4, <1>5, <1>6, OrderConcat
  <1>8. Parts(all) = Parts(assembler) + WithText(tokens) /\ Parts(assembler) \in Nat
    BY <1>4, <1>5, PartsConcat, PartsNat
  <1> HIDE DEF all, later
  <1>9. EndBy(all, later)
    <2>1. \A i \in DOMAIN all : all[i].end \in Nat
      BY <1>7, WordsAre
    <2>2. total_frames + encoded_len \in Nat /\ later \in Nat /\ total_frames + encoded_len <= later
      BY <1>6
    <2>3. \A i \in DOMAIN all : all[i].end <= total_frames + encoded_len
      BY <1>7 DEF EndBy
    <2> QED
      BY <2>1, <2>2, <2>3 DEF EndBy
  <1>10. found = finalised + lost + Parts(all)
    <2>1. WithText(tokens) \in Nat
      BY <1>3
    <2> QED
      BY <1>8, <1>counts, <2>1
  <1>11. /\ assembler' \in Seq(Word) /\ InOrder(assembler', latest') /\ EndBy(assembler', later)
         /\ latest' \in Nat /\ latest' <= later /\ finalised' \in Nat
         /\ found = finalised' + lost + Parts(assembler')
    <2>1. CASE finalize(all)
      <3>1. /\ assembler' = <<>> /\ finalised' = finalised + Parts(all) /\ finalised' \in Nat
            /\ latest' \in Nat /\ latest' <= later
        <4>1. /\ all \in Seq(Word) /\ later \in Nat /\ EndBy(all, later)
              /\ latest \in Nat /\ latest <= later /\ finalised \in Nat
          <5>1. latest <= total_frames /\ total_frames <= later
            BY <1>4, <1>6
          <5> QED
            BY <1>3, <1>4, <1>6, <1>7, <1>9, <1>counts, <5>1
        <4> QED
          BY <2>1, <4>1, Finalized
      <3>2. Parts(all) \in Nat
        BY <1>7, PartsNat
      <3>3. (finalised + Parts(all)) + lost + 0 = finalised + lost + Parts(all)
        BY <1>counts, <3>2
      <3>4. found = finalised' + lost + 0
        BY <1>10, <3>1, <3>3
      <3> QED
        BY <3>1, <3>4, EmptyWords
    <2>2. CASE assembler' = all /\ finalised' = finalised /\ latest' = latest
      <3>1. latest' \in Nat /\ latest' <= later
        BY <1>3, <1>4, <1>6, <2>2
      <3>2. found = finalised' + lost + Parts(assembler') /\ finalised' \in Nat
        BY <1>10, <1>counts, <2>2
      <3> QED
        BY <1>7, <1>9, <2>2, <3>1, <3>2
    <2> QED
      BY <1>2, <2>1, <2>2
  <1>12. TokensOnce'
    <2>1. Parts(assembler') \in Nat /\ WithText(tokens') = 0
      BY <1>1, <1>11, PartsNat, WithTextEmpty
    <2>2. found' = finalised' + lost' + Parts(assembler') + 0
      BY <1>1, <1>11, <1>counts, <2>1
    <2> QED
      BY <2>1, <2>2 DEF TokensOnce
  <1>13. TextTypes' /\ WithinTime' /\ FileWords'
    BY <1>1, <1>11, <1>counts DEF TextTypes, WithinTime, FileWords
  <1>14. WordTimesGrow'
    BY <1>11 DEF InOrder, WordTimesGrow
  <1> QED
    BY <1>12, <1>13, <1>14 DEF TextInv

LEMMA TextTranscribed ==
  ASSUME TextInv, Below, Transcribed
  PROVE  TextInv'
  <1> DEFINE ws == tokens_to_words(tokens, 0)
  <1>1. /\ caller = "file" /\ caller' = "file" /\ phase' = "over" /\ running' = FALSE
        /\ tokens' = <<>> /\ UNCHANGED <<found, lost>> /\ finalize(ws)
    BY DEF Transcribed, Return, Leave
  <1>2. ws \in Seq(Word) /\ Parts(ws) = WithText(tokens) /\ WithText(tokens) \in Nat
    BY NewWords, BelowFacts
  <1>3. /\ assembler = <<>> /\ Parts(assembler) = 0
        /\ latest \in Nat /\ finalised \in Nat /\ found \in Nat /\ lost \in Nat
        /\ found = finalised + lost + Parts(assembler) + WithText(tokens)
    BY <1>1, EmptyWords DEF TextInv, TextTypes, FileWords, TokensOnce
  <1> HIDE DEF ws
  <1>4. /\ assembler' = <<>> /\ finalised' = finalised + Parts(ws)
        /\ latest' = IF ws = <<>> THEN latest ELSE ws[Len(ws)].end
    BY <1>1 DEF finalize, Last
  <1>5. latest' \in Nat
    <2>1. ws # <<>> => Len(ws) \in 1..Len(ws)
      BY <1>2
    <2> QED
      BY <1>2, <1>3, <1>4, <2>1, WordsAre
  <1>6. TokensOnce' /\ finalised' \in Nat
    <2>1. found = finalised + lost + 0 + Parts(ws) /\ Parts(ws) \in Nat
      BY <1>2, <1>3
    <2> DEFINE taken == Parts(ws)
    <2>4. /\ taken \in Nat /\ finalised' = finalised + taken
          /\ found = finalised + lost + 0 + taken /\ found' = found /\ lost' = lost
      BY <1>1, <1>4, <2>1
    <2> HIDE DEF taken
    <2>5. finalised \in Nat /\ lost \in Nat
      BY <1>3
    <2>6. \A a, b, c \in Nat : a + b \in Nat /\ a + c + 0 + b = (a + b) + c + 0 + 0
      OBVIOUS
    <2>2. found' = finalised' + lost' + 0 + 0 /\ finalised' \in Nat
      BY <2>4, <2>5, <2>6
    <2>3. Parts(assembler') = 0 /\ WithText(tokens') = 0
      BY <1>1, <1>4, EmptyWords, WithTextEmpty
    <2> QED
      BY <2>2, <2>3 DEF TokensOnce
  <1>7. TextTypes' /\ WithinTime' /\ FileWords' /\ WordTimesGrow'
    <2>1. assembler' \in Seq(Word) /\ InOrder(assembler', latest') /\ EndBy(assembler', total_frames')
      BY <1>4, EmptyWords
    <2> QED
      BY <1>1, <1>3, <1>4, <1>5, <1>6, <2>1
         DEF TextTypes, WithinTime, FileWords, WordTimesGrow, InOrder
  <1> QED
    BY <1>6, <1>7 DEF TextInv

\* With a chunk that fails its tokens are lost, with a state that is thrown away its
\* words as well.
LEMMA TextFails ==
  ASSUME TextInv, Below, InferenceFails \/ InferencePanics
  PROVE  TextInv'
  <1>1. /\ Parts(assembler) \in Nat /\ WithText(tokens) \in Nat
        /\ finalised \in Nat /\ found \in Nat /\ lost \in Nat
        /\ found = finalised + lost + Parts(assembler) + WithText(tokens)
    BY BelowFacts, PartsNat DEF TextInv, TextTypes, TokensOnce
  <1>2. CASE InferenceFails
    <2>1. /\ phase' \in {"ready", "over"} /\ running' = FALSE /\ tokens' = <<>>
          /\ lost' = lost + WithText(tokens)
          /\ UNCHANGED <<caller, total_frames, assembler, latest, found, finalised>>
      BY <1>2 DEF InferenceFails, Fail, BadShape, Leave, stream
    <2>2. WithText(tokens') = 0
      BY <2>1, WithTextEmpty
    <2>5. /\ lost + WithText(tokens) \in Nat
          /\ found = finalised + (lost + WithText(tokens)) + Parts(assembler) + 0
      BY <1>1
    <2>3. found' = finalised' + lost' + Parts(assembler') + 0 /\ lost' \in Nat
      BY <2>1, <2>5
    <2>4. TokensOnce'
      BY <2>2, <2>3 DEF TokensOnce
    <2> QED
      BY <2>1, <2>3, <2>4 DEF TextInv, TextTypes, WithinTime, FileWords, WordTimesGrow, EndBy
  <1>3. CASE InferencePanics
    <2>1. /\ caller # "file" /\ phase' = "ready" /\ running' = FALSE /\ tokens' = <<>>
          /\ lost' = lost + WithText(tokens) + Parts(assembler)
          /\ assembler' = <<>> /\ latest' = 0 /\ total_frames' = 0
          /\ UNCHANGED <<caller, found, finalised>>
      BY <1>3 DEF InferencePanics, Discard, Leave
    <2>2. WithText(tokens') = 0 /\ Parts(assembler') = 0
      BY <2>1, WithTextEmpty, EmptyWords
    <2>6. /\ lost + WithText(tokens) + Parts(assembler) \in Nat
          /\ found = finalised + (lost + WithText(tokens) + Parts(assembler)) + 0 + 0
      BY <1>1
    <2>5. found' = finalised' + lost' + 0 + 0 /\ lost' \in Nat
      BY <2>1, <2>6
    <2>3. TokensOnce'
      BY <2>2, <2>5 DEF TokensOnce
    <2>4. assembler' \in Seq(Word) /\ InOrder(assembler', latest') /\ EndBy(assembler', total_frames')
      BY <2>1, EmptyWords
    <2> QED
      BY <1>1, <2>1, <2>3, <2>4, <2>5
         DEF TextInv, TextTypes, WithinTime, FileWords, WordTimesGrow, InOrder
  <1> QED
    BY <1>2, <1>3

\* At the end the words go out, or are lost.
LEMMA TextEnds ==
  ASSUME TextInv, Below, FlushAndEnd \/ gigastt_stream_flush \/ Drop
  PROVE  TextInv'
  <1>1. /\ Parts(assembler) \in Nat /\ WithText(tokens) \in Nat
        /\ finalised \in Nat /\ found \in Nat /\ lost \in Nat
        /\ found = finalised + lost + Parts(assembler) + WithText(tokens)
    BY BelowFacts, PartsNat DEF TextInv, TextTypes, TokensOnce
  <1>words. /\ assembler \in Seq(Word) /\ EndBy(assembler, total_frames)
            /\ latest \in Nat /\ total_frames \in Nat
            /\ caller # "file" => latest <= total_frames
            /\ running <=> phase = "decode"
    BY BelowFacts DEF TextInv, TextTypes, WithinTime
  <1>2. /\ caller # "file" /\ caller' = caller
        /\ phase = "ready" /\ phase' \in {"ready", "over"}
        /\ UNCHANGED <<running, tokens, total_frames, found>>
    BY DEF FlushAndEnd, gigastt_stream_flush, Drop, greedyVars, locals
  <1>3. /\ assembler' = <<>>
        /\ latest' \in Nat /\ latest' <= total_frames
        /\ finalised' \in Nat /\ lost' \in Nat
        /\ finalised' + lost' = finalised + lost + Parts(assembler)
    <2>1. CASE FlushAndEnd \/ gigastt_stream_flush
      <3>1. finalize(assembler) /\ lost' = lost
        BY <2>1 DEF FlushAndEnd, gigastt_stream_flush, flush_state
      <3>2. /\ assembler' = <<>> /\ finalised' = finalised + Parts(assembler) /\ finalised' \in Nat
            /\ latest' \in Nat /\ latest' <= total_frames
        <4>1. latest <= total_frames /\ finalised \in Nat
          BY <1>1, <1>2, <1>words
        <4> QED
          BY <1>words, <3>1, <4>1, Finalized
      <3>3. (finalised + Parts(assembler)) + lost = finalised + lost + Parts(assembler)
        BY <1>1
      <3>4. lost' \in Nat
        BY <1>1, <3>1
      <3> QED
        BY <3>1, <3>2, <3>3, <3>4
    <2>2. CASE Drop
      <3>1. /\ assembler' = <<>> /\ lost' = lost + Parts(assembler)
            /\ latest' = latest /\ finalised' = finalised
        BY <2>2 DEF Drop
      <3>2. latest \in Nat /\ latest <= total_frames
        BY <1>2, <1>words
      <3>3. /\ lost + Parts(assembler) \in Nat
            /\ finalised + (lost + Parts(assembler)) = finalised + lost + Parts(assembler)
        BY <1>1
      <3>4. finalised \in Nat
        BY <1>1
      <3> QED
        BY <3>1, <3>2, <3>3, <3>4
    <2> QED
      BY <2>1, <2>2
  <1>4. found = finalised' + lost' + 0 + WithText(tokens)
    BY <1>1, <1>3
  <1>5. TokensOnce'
    BY <1>2, <1>3, <1>4, EmptyWords DEF TokensOnce
  <1>6. assembler' \in Seq(Word) /\ InOrder(assembler', latest') /\ EndBy(assembler', total_frames')
    BY <1>3, EmptyWords
  <1> QED
    BY <1>1, <1>2, <1>3, <1>5, <1>6, <1>words
       DEF TextInv, TextTypes, WithinTime, FileWords, WordTimesGrow, InOrder

LEMMA TextStep ==
  ASSUME TextInv, Below, [Next]_vars
  PROVE  TextInv'
  <1>1. CASE UNCHANGED vars
    <2>1. phase \in {"opening", "ready", "decode", "over"}
      BY DEF TextInv, TextTypes
    <2> QED
      BY <1>1, <2>1, TextSame DEF vars, greedyVars, locals, stream
  <1> QED
    BY <1>1, TextBeforeDecoding, TextTurn, TextDecoded, TextTranscribed, TextFails, TextEnds
       DEF Next

LEMMA TextInit == Init => TextInv
  <1> SUFFICES ASSUME Init PROVE TextInv
    OBVIOUS
  <1>1. /\ assembler = <<>> /\ tokens = <<>> /\ running = FALSE
        /\ latest = 0 /\ found = 0 /\ finalised = 0 /\ lost = 0 /\ total_frames = 0
        /\ phase \in {"opening", "ready"}
    BY DEF Init, GreedyInit
  <1>2. assembler \in Seq(Word) /\ InOrder(assembler, latest) /\ EndBy(assembler, total_frames)
        /\ Parts(assembler) = 0 /\ WithText(tokens) = 0
    BY <1>1, EmptyWords, WithTextEmpty
  <1> QED
    BY <1>1, <1>2
       DEF TextInv, TextTypes, TokensOnce, WithinTime, FileWords, WordTimesGrow, InOrder

LEMMA StreamInvariant == Spec => []TextInv /\ []SampleInv
  <1>1. Init => SampleInv
    BY DEF Init, SampleInv, Counts, SamplesOnce
  <1>2. SampleInv /\ [Next]_vars => SampleInv'
    BY CallersSamples, FileSamples, ChunkEndSamples, OtherSamples DEF Next
  <1>3. Inv /\ SampleInv /\ TextInv /\ [Next]_vars => TextInv'
    BY TextStep DEF Below
  <1>4. Spec => []Inv
    BY StreamRunsGreedy, GreedyInvariant, PTL
  <1> QED
    BY <1>1, <1>2, <1>3, <1>4, TextInit, PTL DEF Spec

\* Every variable of a stream keeps its type, whatever is streamed: a word has tokens,
\* and the decoder runs in a chunk and at no other time.
THEOREM StreamTypes == Spec => []StreamTypeOK
  <1>1. TextInv /\ SampleInv => StreamTypeOK
    BY DEF TextInv, TextTypes, SampleInv, Counts, StreamTypeOK
  <1> QED
    BY <1>1, StreamInvariant, PTL

\* For chunks with any number of tokens, of any kinds, and any words made of them: each
\* token with text goes out in one Final, waits in the assembler, or is lost with a chunk
\* that failed or a state that was dropped (tokens_to_words, append, finalize).
THEOREM TokensGoOnce == Spec => []TokensOnce
  <1>1. TextInv => TokensOnce
    BY DEF TextInv
  <1> QED
    BY <1>1, StreamInvariant, PTL

\* Over any number of chunks, endpoints, failures and flushes the words of a stream come
\* in the order of time, each behind the one before (total_frames as frame_offset).
THEOREM WordsInOrder == Spec => []WordTimesGrow
  <1>1. TextInv => WordTimesGrow
    BY DEF TextInv
  <1> QED
    BY <1>1, StreamInvariant, PTL

\* A word's times are in encoder frames, ENCODER_SUBSAMPLING hops each, though the
\* offset counts hops; TimeShown is where the word is said to end, in samples.
TimeShown(word) == ENCODER_SUBSAMPLING * (HOP_LENGTH * word.end)

\* The words of a stream, and the last of a Final, are said to end within
\* ENCODER_SUBSAMPLING times the audio received.
LateAtMost ==
  caller # "file" =>
    /\ \A i \in DOMAIN assembler :
         TimeShown(assembler[i]) <= ENCODER_SUBSAMPLING * received
    /\ TimeShown([end |-> latest]) <= ENCODER_SUBSAMPLING * received

LEMMA HopsReceived ==
  ASSUME SampleInv, caller # "file"
  PROVE  HOP_LENGTH * total_frames <= received
  <1>1. /\ received = consumed + audio_buffer + dropped
        /\ consumed = HOP_LENGTH * (total_frames + num_frames + uncounted)
                      + (N_FFT - HOP_LENGTH) * chunks
        /\ audio_buffer \in Nat /\ dropped \in Nat /\ consumed \in Nat /\ chunks \in Nat
        /\ total_frames \in Nat /\ num_frames \in Nat /\ uncounted \in Nat
    BY DEF SampleInv, SamplesOnce, Counts
  <1>2. HOP_LENGTH \in Nat /\ N_FFT - HOP_LENGTH \in Nat
    BY StreamAssumption
  <1>3. (N_FFT - HOP_LENGTH) * chunks \in Nat
    <2> DEFINE d == N_FFT - HOP_LENGTH
    <2>1. d \in Nat
      BY <1>2
    <2> HIDE DEF d
    <2>2. d * chunks \in Nat
      BY <1>1, <2>1
    <2> QED
      BY <2>2 DEF d
  <1>4. /\ HOP_LENGTH * (total_frames + num_frames + uncounted)
            = HOP_LENGTH * total_frames + HOP_LENGTH * (num_frames + uncounted)
        /\ HOP_LENGTH * (num_frames + uncounted) \in Nat
        /\ HOP_LENGTH * total_frames \in Nat
    BY <1>1, <1>2
  <1> QED
    BY <1>1, <1>3, <1>4

\* The times of words run ahead of the audio: by how much is bounded.  Through any
\* chunks, failures and panics no word of a stream is said to end later than
\* ENCODER_SUBSAMPLING times what was received (total_frames + frame_index, times
\* SECONDS_PER_FRAME, in tokens_to_words).
THEOREM LatenessBounded == Spec => []LateAtMost
  <1>1. TextInv /\ SampleInv => LateAtMost
    <2> SUFFICES ASSUME TextInv, SampleInv, caller # "file"
                 PROVE  /\ \A i \in DOMAIN assembler :
                             TimeShown(assembler[i]) <= ENCODER_SUBSAMPLING * received
                        /\ TimeShown([end |-> latest]) <= ENCODER_SUBSAMPLING * received
      BY DEF LateAtMost
    <2>1. HOP_LENGTH * total_frames <= received
      BY HopsReceived
    <2>2. total_frames \in Nat /\ received \in Nat /\ latest \in Nat /\ latest <= total_frames
      BY DEF SampleInv, Counts, TextInv, TextTypes, WithinTime
    <2>3. ASSUME NEW e \in Nat, e <= total_frames
          PROVE  ENCODER_SUBSAMPLING * (HOP_LENGTH * e) <= ENCODER_SUBSAMPLING * received
      <3>1. HOP_LENGTH \in Nat /\ ENCODER_SUBSAMPLING \in Nat
        BY StreamAssumption
      <3>2. /\ HOP_LENGTH * e <= HOP_LENGTH * total_frames
            /\ HOP_LENGTH * e \in Nat /\ HOP_LENGTH * total_frames \in Nat
        BY <2>2, <2>3, <3>1
      <3>3. HOP_LENGTH * e <= received
        BY <2>1, <2>2, <3>2
      <3> DEFINE hops == HOP_LENGTH * e
      <3>4. hops \in Nat /\ hops <= received
        BY <3>2, <3>3
      <3> HIDE DEF hops
      <3>5. ENCODER_SUBSAMPLING * hops <= ENCODER_SUBSAMPLING * received
        BY <2>2, <3>1, <3>4
      <3> QED
        BY <3>5 DEF hops
    <2>4. ASSUME NEW i \in DOMAIN assembler
          PROVE  assembler[i].end \in Nat /\ assembler[i].end <= total_frames
      <3>1. assembler \in Seq(Word) /\ EndBy(assembler, total_frames)
        BY DEF TextInv, TextTypes, WithinTime
      <3>2. assembler[i] \in Word
        BY <3>1
      <3> QED
        BY <3>1, <3>2, WordNat DEF EndBy
    <2> QED
      BY <2>2, <2>3, <2>4 DEF TimeShown
  <1> QED
    BY <1>1, StreamInvariant, PTL
=============================================================================
