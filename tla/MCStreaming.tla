--------------------------- MODULE MCStreaming ---------------------------
(* Instances of Streaming for TLC, and what the code says of word times. *)
EXTENDS Streaming

\* SECONDS_PER_FRAME, in samples: the times of a word are its frames by this.
SamplesPerFrame == HOP_LENGTH * ENCODER_SUBSAMPLING

\* inference/mod.rs 371-374: a word's times are "in seconds from the beginning of
\* the audio stream".  A word cannot start later than the audio received.
WordsWithinAudio ==
  \A i \in DOMAIN assembler : assembler[i].start * SamplesPerFrame <= received
=============================================================================
