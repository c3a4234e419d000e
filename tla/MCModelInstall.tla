-------------------------- MODULE MCModelInstall --------------------------
(* An instance of ModelInstall for TLC. *)
EXTENDS ModelInstall

CONSTANTS encoder, vocab, speaker, int8

TwoModelFiles == <<encoder, vocab>>

Plain(name) == [name |-> name, skip_quantize |-> FALSE, skip_diarization |-> FALSE,
                force |-> FALSE]

SomeCommands ==
  {[Plain("serve") EXCEPT !.skip_quantize = TRUE],
   Plain("download"),
   [Plain("ffi") EXCEPT !.force = TRUE]}
=============================================================================
