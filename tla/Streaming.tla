---------------------------- MODULE Streaming ----------------------------
(***************************************************************************)
(* One StreamingState and what is done with it: process_chunk and          *)
(* flush_state of src/inference/mod.rs, with the sample buffer of audio.rs *)
(* below them and their callers above: a WebSocket session, a stream of    *)
(* the C interface, the SSE closure; and the transcription of a whole      *)
(* file, which shares the decoder.                                         *)
(*                                                                         *)
(* Audio is counted in samples at 16 kHz.  Words are made of tokens, and   *)
(* known by their frames and the number of tokens with text.               *)
(***************************************************************************)
EXTENDS GreedyDecode, SequencesExt

CONSTANTS HOP_LENGTH, N_FFT, MAX_BUFFER_SAMPLES, ENCODER_SUBSAMPLING,
          chunk_size,        \* samples the SSE closure processes at a time
          MaxFileSamples,    \* MAX_DURATION_S, in samples
          Sizes,             \* bound: lengths of a chunk, or of a file's packet
          MaxSamples,        \* bound: samples a live stream receives
          MaxTokens          \* bound: tokens the joiner finds

ASSUME StreamAssumption ==
  /\ {HOP_LENGTH, ENCODER_SUBSAMPLING, chunk_size} \subseteq Nat \ {0}
  /\ {MAX_BUFFER_SAMPLES, MaxFileSamples, MaxSamples, MaxTokens} \subseteq Nat
  /\ N_FFT \in HOP_LENGTH..MAX_BUFFER_SAMPLES
  /\ chunk_size + N_FFT <= MAX_BUFFER_SAMPLES
  /\ Sizes \subseteq Nat \ {0}

VARIABLES caller,          \* "ws", "ffi", "sse" or "file"
          phase,           \* "opening" a file, "ready", "decode", "over"
          samples,         \* samples of the file not processed yet
          audio_buffer,    \* how many samples it holds
          num_frames,      \* mel frames of the chunk in decoding
          total_frames,
          assembler        \* its words

\* History: samples that came in, went through the encoder, were dropped; the
\* chunks that went through it; mel frames total_frames does not count; where the
\* last word of a Final ended; tokens with text, and where they went.
VARIABLES received, consumed, dropped, chunks, uncounted, latest,
          found, finalised, lost

stream == <<audio_buffer, total_frames, assembler>>
audio == <<received, consumed, dropped, chunks>>
text == <<latest, found, finalised, lost>>
vars == <<greedyVars, caller, phase, samples, num_frames, stream, audio, uncounted, text>>

Init ==
  /\ GreedyInit
  /\ caller \in {"ws", "ffi", "sse", "file"}
  /\ phase = IF caller \in {"sse", "file"} THEN "opening" ELSE "ready"
  /\ samples = 0 /\ num_frames = 0
  /\ audio_buffer = 0 /\ total_frames = 0 /\ assembler = <<>>
  /\ received = 0 /\ consumed = 0 /\ dropped = 0 /\ chunks = 0 /\ uncounted = 0
  /\ latest = 0 /\ found = 0 /\ finalised = 0 /\ lost = 0

Live == caller \in {"ws", "ffi"}

-----------------------------------------------------------------------------
(* Words *)

Longer(word, at) == [word EXCEPT !.end = at, !.parts = @ + 1]

\* The current word is the last one while it is open.
AddToken(acc, token, offset) ==
  LET at == token.frame_index + offset
      n == Len(acc.words)
  IN CASE token.kind = "bare" -> [acc EXCEPT !.open = FALSE]
       [] token.kind = "inner" /\ acc.open ->
            [acc EXCEPT !.words[n] = Longer(acc.words[n], at)]
       [] OTHER ->
            [words |-> Append(acc.words, [start |-> at, end |-> at, parts |-> 1]),
             open |-> TRUE]

\* Mutant of tokens_to_words: a word ends at a mark, the last one is not pushed.
MarkedWords(toks, offset) ==
  LET acc == FoldLeft(LAMBDA a, token : AddToken(a, token, offset),
                      [words |-> <<>>, open |-> FALSE], toks)
  IN IF acc.open THEN Front(acc.words) ELSE acc.words

tokens_to_words(toks, offset) ==
  FoldLeft(LAMBDA acc, token : AddToken(acc, token, offset),
           [words |-> <<>>, open |-> FALSE], toks).words

Parts(words) == FoldLeft(LAMBDA n, word : n + word.parts, 0, words)
WithText(toks) == Cardinality({i \in DOMAIN toks : toks[i].kind # "bare"})

-----------------------------------------------------------------------------
(* Samples and frames *)

\* Mutant of MelFrames: a last window that is not full counts.
MelFramesPadded(n) ==
  IF n < N_FFT THEN 1 ELSE (n - N_FFT + HOP_LENGTH - 1) \div HOP_LENGTH + 1

\* Windows of N_FFT samples, HOP_LENGTH apart; a short file makes one, of zeros.
MelFrames(n) == IF n < N_FFT THEN 1 ELSE (n - N_FFT) \div HOP_LENGTH + 1

\* What the encoder says of the length of its output.
EncodedLen(frames) == (frames + ENCODER_SUBSAMPLING - 1) \div ENCODER_SUBSAMPLING

\* The samples that fill whole windows, overlap included.
Usable(n) == IF n < N_FFT THEN 0 ELSE (MelFrames(n) - 1) * HOP_LENGTH + N_FFT

\* Mutant of prepare_audio_buffer: the overlap of the last window is kept for the
\* next chunk.
prepare_with_overlap(n) ==
  LET kept == Min({audio_buffer + n, MAX_BUFFER_SAMPLES})
  IN [usable |-> Usable(kept),
      left |-> kept - (IF Usable(kept) = 0 THEN 0 ELSE MelFrames(kept) * HOP_LENGTH),
      dropped |-> audio_buffer + n - kept]

prepare_audio_buffer(n) ==
  LET kept == Min({audio_buffer + n, MAX_BUFFER_SAMPLES})
  IN [usable |-> Usable(kept), left |-> kept - Usable(kept),
      dropped |-> audio_buffer + n - kept]

\* process_chunk up to the encoder's answer, on n samples.
ProcessChunk(n) ==
  LET buffer == prepare_audio_buffer(n)
  IN /\ phase = "ready"
     /\ audio_buffer' = buffer.left
     /\ received' = received + n
     /\ consumed' = consumed + buffer.usable
     /\ dropped' = dropped + buffer.dropped
     /\ IF buffer.usable = 0
        THEN UNCHANGED <<greedyVars, phase, num_frames, chunks>>
        ELSE /\ num_frames' = MelFrames(buffer.usable)
             /\ chunks' = chunks + 1
             /\ phase' = "decode"
             /\ Start(EncodedLen(num_frames'))
     /\ UNCHANGED <<caller, total_frames, assembler, uncounted, text>>

-----------------------------------------------------------------------------
(* The callers *)

\* handle_binary_frame, with its samples decoded and resampled.
WsFrame(n) ==
  caller = "ws" /\ received + n <= MaxSamples /\ ProcessChunk(n) /\ UNCHANGED samples

\* Pairs of the bytes given, at 16 kHz; an odd last byte is left out.
gigastt_stream_process_chunk(bytes) ==
  /\ caller = "ffi" /\ bytes >= 2
  /\ received + bytes \div 2 <= MaxSamples
  /\ ProcessChunk(bytes \div 2)
  /\ UNCHANGED samples

SseChunk ==
  /\ caller = "sse" /\ samples > 0
  /\ LET n == Min({chunk_size, samples})
     IN ProcessChunk(n) /\ samples' = samples - n

\* decode_audio_inner: a packet of n samples, and the limit on all of them.
Packet(n) ==
  /\ phase = "opening"
  /\ samples' = samples + n
  /\ phase' = IF samples' > MaxFileSamples THEN "over" ELSE "opening"
  /\ UNCHANGED <<greedyVars, caller, num_frames, stream, audio, uncounted, text>>

\* The file cannot be read or decoded.
FileFails ==
  /\ phase = "opening"
  /\ phase' = "over"
  /\ UNCHANGED <<greedyVars, caller, samples, num_frames, stream, audio, uncounted, text>>

EndOfFile ==
  /\ phase = "opening"
  /\ phase' = "ready"
  /\ UNCHANGED <<greedyVars, caller, samples, num_frames, stream, audio, uncounted, text>>

\* The whole file at once, on a DecoderState of its own.
transcribe_samples ==
  /\ caller = "file" /\ phase = "ready"
  /\ phase' = "decode"
  /\ num_frames' = MelFrames(samples)
  /\ Start(EncodedLen(num_frames'))
  /\ samples' = 0
  /\ received' = samples /\ consumed' = samples /\ chunks' = 1
  /\ UNCHANGED <<caller, stream, dropped, uncounted, text>>

-----------------------------------------------------------------------------
(* Decoding *)

Decoding ==
  UNCHANGED <<caller, phase, samples, num_frames, stream, audio, uncounted,
              latest, finalised, lost>>

Turn ==
  /\ Decoding
  /\ \/ (Blank \/ Capped) /\ UNCHANGED found
     \/ \E kind \in Kinds :
          /\ prev_token < MaxTokens
          /\ Emit(kind)
          /\ found' = found + (IF kind = "bare" THEN 0 ELSE 1)

\* TranscriptAssembler::finalize: the words go out and are taken.
finalize(words) ==
  /\ assembler' = <<>>
  /\ finalised' = finalised + Parts(words)
  /\ latest' = IF words = <<>> THEN latest ELSE Last(words).end

\* Mutant of ChunkDone: the offset of the next chunk is this chunk's length.
ChunkDoneRebased ==
  LET new_words == tokens_to_words(tokens, total_frames)
  IN /\ total_frames' = num_frames
     /\ IF endpoint_detected
        THEN consecutive_blanks' = 0 /\ finalize(assembler \o new_words)
        ELSE /\ UNCHANGED <<consecutive_blanks, finalised, latest>>
             /\ assembler' = assembler \o new_words
     /\ Return

\* The rest of process_chunk: a Final on an endpoint, a partial if there is news.
ChunkDone ==
  LET new_words == tokens_to_words(tokens, total_frames)
  IN /\ total_frames' = total_frames + num_frames
     /\ IF endpoint_detected
        THEN consecutive_blanks' = 0 /\ finalize(assembler \o new_words)
        ELSE /\ UNCHANGED <<consecutive_blanks, finalised, latest>>
             /\ assembler' = assembler \o new_words
     /\ Return

Decoded ==
  /\ caller # "file" /\ phase = "decode"
  /\ ChunkDone
  /\ phase' = "ready" /\ num_frames' = 0
  /\ UNCHANGED <<caller, samples, audio_buffer, audio, uncounted, found, lost>>

\* The endpoint of a file is ignored: its words go out together.
Transcribed ==
  /\ caller = "file" /\ phase = "decode"
  /\ UNCHANGED consecutive_blanks
  /\ Return
  /\ finalize(tokens_to_words(tokens, 0))
  /\ phase' = "over" /\ num_frames' = 0
  /\ UNCHANGED <<caller, samples, audio_buffer, total_frames, audio, uncounted, found, lost>>

\* The error of process_chunk: the samples are used up, the tokens are gone and
\* the decoder keeps what it learned from them.  A live stream goes on, as the C
\* interface does after a panic as well; the other callers give up.
InferenceFails ==
  /\ phase = "decode"
  /\ Fail \/ BadShape
  /\ phase' = IF Live THEN "ready" ELSE "over"
  /\ num_frames' = 0
  /\ uncounted' = uncounted + num_frames
  /\ lost' = lost + WithText(tokens)
  /\ UNCHANGED <<caller, samples, stream, audio, latest, found, finalised>>

\* A WebSocket session goes on with a new StreamingState.
InferencePanics ==
  /\ caller = "ws" /\ phase = "decode"
  /\ Discard
  /\ phase' = "ready"
  /\ audio_buffer' = 0 /\ total_frames' = 0 /\ assembler' = <<>>
  /\ num_frames' = 0
  /\ uncounted' = uncounted + total_frames + num_frames
  /\ dropped' = dropped + audio_buffer
  /\ lost' = lost + WithText(tokens) + Parts(assembler)
  /\ latest' = 0
  /\ UNCHANGED <<caller, samples, received, consumed, chunks, found, finalised>>

-----------------------------------------------------------------------------
(* The end of a stream *)

flush_state == finalize(assembler)

\* stop, shutdown or the cap of a session; the last chunk of an upload.
FlushAndEnd ==
  /\ phase = "ready"
  /\ caller = "ws" \/ (caller = "sse" /\ samples = 0)
  /\ flush_state
  /\ phase' = "over"
  /\ UNCHANGED <<greedyVars, caller, samples, num_frames, audio_buffer, total_frames,
                 audio, uncounted, found, lost>>

\* The stream stays usable.
gigastt_stream_flush ==
  /\ caller = "ffi" /\ phase = "ready"
  /\ flush_state
  /\ UNCHANGED <<greedyVars, caller, phase, samples, num_frames, audio_buffer,
                 total_frames, audio, uncounted, found, lost>>

\* The state is dropped as it is: gigastt_stream_free, a session that ends without
\* a flush, an upload cut off by its client or the shutdown.
Drop ==
  /\ phase = "ready" /\ caller # "file"
  /\ phase' = "over"
  /\ assembler' = <<>>
  /\ lost' = lost + Parts(assembler)
  /\ UNCHANGED <<greedyVars, caller, samples, num_frames, audio_buffer, total_frames,
                 audio, uncounted, latest, found, finalised>>

-----------------------------------------------------------------------------
Next ==
  \/ \E n \in Sizes : Packet(n) \/ WsFrame(n) \/ gigastt_stream_process_chunk(n)
  \/ FileFails \/ EndOfFile \/ transcribe_samples \/ SseChunk
  \/ Turn \/ Decoded \/ Transcribed \/ InferenceFails \/ InferencePanics
  \/ FlushAndEnd \/ gigastt_stream_flush \/ Drop

Spec == Init /\ [][Next]_vars

-----------------------------------------------------------------------------
Word == [start : Nat, end : Nat, parts : Nat \ {0}]

StreamTypeOK ==
  /\ phase \in {"opening", "ready", "decode", "over"}
  /\ running <=> phase = "decode"
  /\ {samples, audio_buffer, num_frames, total_frames} \subseteq Nat
  /\ assembler \in Seq(Word)
  /\ {received, consumed, dropped, chunks, uncounted} \subseteq Nat
  /\ {latest, found, finalised, lost} \subseteq Nat

\* Every token with text is in exactly one Final or still on its way there, or it
\* was lost with a chunk that failed or a state that was dropped (tokens_to_words,
\* append, finalize, flush_state).
TokensOnce ==
  found = finalised + lost + Parts(assembler) + WithText(tokens)

\* No sample is lost between chunks of any size, and none is used twice: what came
\* in went to the encoder, waits in the buffer, or fell to the buffer's limit, which
\* a chunk of the SSE closure never reaches.  Each chunk falls short of the frames
\* of uncut audio by the windows that would lie across its end: time, as counted by
\* total_frames, runs behind by the overlap for every chunk (prepare_audio_buffer).
SamplesOnce ==
  /\ received = consumed + audio_buffer + dropped
  /\ audio_buffer < N_FFT
  /\ caller = "sse" => dropped = 0
  /\ caller # "file" =>
       consumed = HOP_LENGTH * (total_frames + num_frames + uncounted)
                  + (N_FFT - HOP_LENGTH) * chunks

\* Through chunks, endpoints and failures the words of a stream come in the order
\* of time: each ends before the next begins (total_frames as frame_offset).
WordTimesGrow ==
  \A i \in DOMAIN assembler :
    /\ assembler[i].start <= assembler[i].end
    /\ assembler[i].start >= (IF i = 1 THEN latest ELSE assembler[i - 1].end)
=============================================================================
