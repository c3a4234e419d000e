--------------------------- MODULE ModelInstall ---------------------------
(***************************************************************************)
(* How the model gets into its directory: the downloads of model/mod.rs,   *)
(* the INT8 encoder that quantize.rs makes from one of them, and the       *)
(* commands of main.rs and ffi.rs that ask for both, run by processes that *)
(* share the directory, can be killed at any step and started again.       *)
(*                                                                         *)
(* A file is known by its parts.  An open file follows its inode: renaming *)
(* a file moves whoever is writing it, removing it or renaming another in  *)
(* its place leaves the writer with a file nobody sees.                    *)
(***************************************************************************)
EXTENDS Integers, SequencesExt

CONSTANTS Processes,
          MODEL_FILES,           \* in the order of download
          ENCODER, INT8,         \* v3_e2e_rnnt_encoder.onnx and _int8.onnx
          SPEAKER_MODEL_FILE,
          Commands,
          pool_size,             \* triplets of a server's engine
          Parts,                 \* bound: parts of a file
          None,
          MaxFaults              \* bound: crashes, failed calls, corrupt parts

ModelFiles == {MODEL_FILES[i] : i \in DOMAIN MODEL_FILES}
Names == ModelFiles \cup {INT8, SPEAKER_MODEL_FILE}
Paths == Names \X {"final", "partial"}

Command == [name : {"serve", "download", "quantize", "transcribe", "ffi"},
            skip_quantize : BOOLEAN, skip_diarization : BOOLEAN, force : BOOLEAN]

ASSUME InstallAssumption ==
  /\ MODEL_FILES \in Seq(ModelFiles) /\ MODEL_FILES # <<>>
  /\ ENCODER \in ModelFiles
  /\ INT8 \notin ModelFiles /\ SPEAKER_MODEL_FILE \notin ModelFiles \cup {INT8}
  /\ Commands \subseteq Command
  /\ {pool_size, Parts} \subseteq Nat \ {0} /\ MaxFaults \in Nat

VARIABLES files,    \* path -> what its file holds, None if there is none
          proc      \* process -> where it is in its command

\* History: the faults so far; whether two processes ever staged one name at a
\* time; the process that started last, if it found no file damaged and has been
\* undisturbed since.
VARIABLES faults, shared, alone

vars == <<files, proc, faults, shared, alone>>

Empty == [i \in 1..Parts |-> "none"]
Good == [i \in 1..Parts |-> "good"]

final(name) == files[<<name, "final">>]
partial(name) == files[<<name, "partial">>]
exists(name) == final(name) # None

Idle == [pc |-> "idle", command |-> None, todo |-> <<>>, fd |-> None, at |-> 0,
         data |-> "good", is_int8 |-> FALSE, encoders |-> <<>>]

Running(p) == proc[p].pc # "idle"
Staged(r) == IF r.pc \in {"get", "write", "verify", "corrupt", "rename"}
             THEN Head(r.todo) ELSE None

Init ==
  /\ files = [path \in Paths |-> None]
  /\ proc = [p \in Processes |-> Idle]
  /\ faults = 0 /\ shared = FALSE /\ alone = None

\* Every step: the histories follow.
History ==
  /\ shared' = (shared \/ \E p, q \in Processes :
       p # q /\ Staged(proc'[p]) # None /\ Staged(proc'[p]) = Staged(proc'[q]))

Undisturbed == History /\ UNCHANGED <<faults, alone>>

At(p, pc) == proc[p].pc = pc
Move(p, r) == proc' = [proc EXCEPT ![p] = r]
Goto(p, pc) == Move(p, [proc[p] EXCEPT !.pc = pc])
Exit(p) == Move(p, Idle)
Failed(p) == Move(p, [Idle EXCEPT !.pc = "failed", !.command = proc[p].command])

-----------------------------------------------------------------------------
(* The commands *)

Undamaged == \A name \in Names : final(name) \in {None, Good}

Start(p, command) ==
  /\ At(p, "idle")
  /\ Move(p, [Idle EXCEPT !.command = command,
                          !.pc = IF command.name = "ffi" THEN "int8" ELSE "check"])
  /\ alone' = IF /\ Undamaged /\ command.name # "ffi"
                 /\ \A q \in Processes : proc[q].pc \in {"idle", "serving"}
              THEN p ELSE None
  /\ History /\ UNCHANGED <<files, faults>>

\* r, when the model files are there.
AfterModel(r) ==
  [r EXCEPT !.pc = CASE r.command.name = "transcribe" -> "load"
                     [] r.command.name = "download" /\ ~r.command.skip_diarization -> "speaker"
                     [] OTHER -> "int8",
            !.todo = <<>>]

AfterInt8(r) == [r EXCEPT !.pc = IF r.command.name = "serve" THEN "load" ELSE "done",
                          !.todo = <<>>]

\* r, when the file it staged is in its place.
AfterFile(r) ==
  CASE Head(r.todo) = INT8 -> AfterInt8(r)
    [] Head(r.todo) = SPEAKER_MODEL_FILE -> [r EXCEPT !.pc = "int8", !.todo = <<>>]
    [] Len(r.todo) > 1 -> [r EXCEPT !.pc = "stale", !.todo = Tail(@)]
    [] OTHER -> AfterModel(r)

\* Mutant of model_files_exist: one of them is enough.
some_model_file_exists == \E name \in ModelFiles : exists(name)

model_files_exist == \A name \in ModelFiles : exists(name)

\* All files are fetched if one is missing.
ensure_model(p) ==
  /\ At(p, "check")
  /\ Move(p, IF model_files_exist THEN AfterModel(proc[p])
             ELSE [proc[p] EXCEPT !.pc = "stale", !.todo = MODEL_FILES])
  /\ Undisturbed /\ UNCHANGED files

ensure_speaker_model(p) ==
  /\ At(p, "speaker")
  /\ Move(p, IF exists(SPEAKER_MODEL_FILE) THEN [proc[p] EXCEPT !.pc = "int8"]
             ELSE [proc[p] EXCEPT !.pc = "stale", !.todo = <<SPEAKER_MODEL_FILE>>])
  /\ Undisturbed /\ UNCHANGED files

ensure_int8_encoder(p) ==
  /\ At(p, "int8") /\ proc[p].command.name \in {"serve", "download"}
  /\ IF exists(INT8) \/ proc[p].command.skip_quantize
     THEN Move(p, AfterInt8(proc[p]))
     ELSE Goto(p, "read")
  /\ Undisturbed /\ UNCHANGED files

\* What the command Quantize does as well.
gigastt_quantize_model(p) ==
  /\ At(p, "int8") /\ proc[p].command.name \in {"quantize", "ffi"}
  /\ IF exists(INT8) /\ ~proc[p].command.force
     THEN Move(p, AfterInt8(proc[p]))
     ELSE Goto(p, "read")
  /\ Undisturbed /\ UNCHANGED files

\* load_with_pool_size, and what load_inner will tell of the encoder.
load_inner(p) ==
  /\ At(p, "load")
  /\ IF exists(ENCODER)
     THEN Move(p, [proc[p] EXCEPT !.pc = "sessions", !.is_int8 = exists(INT8)])
     ELSE Failed(p)
  /\ Undisturbed /\ UNCHANGED files

Triplets(command) == IF command.name = "serve" THEN pool_size ELSE 1

chosen_encoder == IF exists(INT8) THEN INT8 ELSE ENCODER

\* One of the loading threads: it looks for the INT8 encoder by itself.
load_sessions(p) ==
  /\ At(p, "sessions") /\ Len(proc[p].encoders) < Triplets(proc[p].command)
  /\ IF final(chosen_encoder) = Good
     THEN Move(p, [proc[p] EXCEPT !.encoders = Append(@, chosen_encoder)])
     ELSE Failed(p)
  /\ Undisturbed /\ UNCHANGED files

\* The other files of the model; a damaged one fails the load.
loaded(p) ==
  /\ At(p, "sessions") /\ Len(proc[p].encoders) = Triplets(proc[p].command)
  /\ IF \A name \in ModelFiles \ {ENCODER} : final(name) = Good
     THEN Goto(p, IF proc[p].command.name = "serve" THEN "serving" ELSE "done")
     ELSE Failed(p)
  /\ Undisturbed /\ UNCHANGED files

\* The command returns, with success or without.
Ends(p) ==
  /\ proc[p].pc \in {"done", "failed"}
  /\ alone' = IF alone = p /\ At(p, "done") THEN None ELSE alone
  /\ Exit(p)
  /\ History /\ UNCHANGED <<files, faults>>

-----------------------------------------------------------------------------
(* stream_to_partial_then_finalize *)

Target(p) == <<Head(proc[p].todo), "partial">>

\* Whoever was writing the file at a path writes on, unseen.
Unlinked(path) == [q \in Processes |->
  IF proc[q].fd = path THEN [proc[q] EXCEPT !.fd = None] ELSE proc[q]]

DropStale(p) ==
  /\ At(p, "stale")
  /\ files' = [files EXCEPT ![Target(p)] = None]
  /\ proc' = [Unlinked(Target(p)) EXCEPT ![p].pc = "get"]
  /\ Undisturbed

\* File::create, after a good answer to the GET; and fs::write of the INT8 encoder.
Create(p) ==
  /\ At(p, "get")
  /\ files' = [files EXCEPT ![Target(p)] = Empty]
  /\ Move(p, [proc[p] EXCEPT !.pc = "write", !.fd = Target(p), !.at = 0])
  /\ Undisturbed

\* Mutant of Write: the stream has one chunk too many.
WriteOn(p) ==
  /\ At(p, "write")
  /\ LET i == proc[p].at + 1
         fd == proc[p].fd
     IN \E got \in {proc[p].data, "bad"} :
          /\ IF got = proc[p].data
             THEN UNCHANGED <<faults, alone>>
             ELSE /\ Head(proc[p].todo) # INT8
                  /\ faults < MaxFaults /\ faults' = faults + 1
                  /\ alone' = None
          /\ files' = IF fd = None THEN files ELSE [files EXCEPT ![fd][i] = got]
          /\ Move(p, [proc[p] EXCEPT !.at = i])
  /\ History

Write(p) ==
  /\ At(p, "write") /\ proc[p].at < Parts
  /\ LET i == proc[p].at + 1
         fd == proc[p].fd
     IN \E got \in {proc[p].data, "bad"} :
          /\ IF got = proc[p].data
             THEN UNCHANGED <<faults, alone>>
             ELSE /\ Head(proc[p].todo) # INT8
                  /\ faults < MaxFaults /\ faults' = faults + 1
                  /\ alone' = None
          /\ files' = IF fd = None THEN files ELSE [files EXCEPT ![fd][i] = got]
          /\ Move(p, [proc[p] EXCEPT !.at = i])
  /\ History

\* Mutant of Close: what is written last may be missing.
CloseUnflushed(p) ==
  /\ At(p, "write")
  /\ Move(p, [proc[p] EXCEPT !.pc = IF Head(proc[p].todo) = INT8 THEN "rename"
                                    ELSE "verify",
                             !.fd = None, !.at = 0, !.data = "good"])
  /\ Undisturbed /\ UNCHANGED files

\* The file is complete and closed.  There is no checksum of an INT8 encoder.
Close(p) ==
  /\ At(p, "write") /\ proc[p].at = Parts
  /\ Move(p, [proc[p] EXCEPT !.pc = IF Head(proc[p].todo) = INT8 THEN "rename"
                                    ELSE "verify",
                             !.fd = None, !.at = 0, !.data = "good"])
  /\ Undisturbed /\ UNCHANGED files

\* Mutant of sha256_matches: the checksum is not compared.
sha256_exists(p) == files[Target(p)] # None

sha256_matches(p) == files[Target(p)] = Good

\* finalize_download reads what is at the path now.
Verify(p) ==
  /\ At(p, "verify")
  /\ CASE sha256_matches(p) -> Goto(p, "rename")
       [] files[Target(p)] = None -> Failed(p)
       [] OTHER -> Goto(p, "corrupt")
  /\ Undisturbed /\ UNCHANGED files

RemoveCorrupt(p) ==
  /\ At(p, "corrupt")
  /\ files' = [files EXCEPT ![Target(p)] = None]
  /\ proc' = [Unlinked(Target(p)) EXCEPT
       ![p] = [Idle EXCEPT !.pc = "failed", !.command = proc[p].command]]
  /\ Undisturbed

\* A writer that has the partial open goes with it.
Rename(p) ==
  /\ At(p, "rename")
  /\ LET path == <<Head(proc[p].todo), "final">>
         Follow(q) == CASE proc[q].fd = Target(p) -> [proc[q] EXCEPT !.fd = path]
                        [] proc[q].fd = path -> [proc[q] EXCEPT !.fd = None]
                        [] OTHER -> proc[q]
     IN IF files[Target(p)] = None
        THEN Failed(p) /\ UNCHANGED files
        ELSE /\ files' = [files EXCEPT ![path] = files[Target(p)], ![Target(p)] = None]
             /\ proc' = [q \in Processes |-> IF q = p THEN AfterFile(proc[p]) ELSE Follow(q)]
  /\ Undisturbed

\* quantize_model up to its write: a damaged file seldom decodes, a missing one never.
ReadEncoder(p) ==
  /\ At(p, "read")
  /\ \/ final(ENCODER) # None
        /\ Move(p, [proc[p] EXCEPT !.pc = "get", !.todo = <<INT8>>,
                                   !.data = IF final(ENCODER) = Good THEN "good" ELSE "bad"])
     \/ final(ENCODER) # Good /\ Failed(p)
  /\ Undisturbed /\ UNCHANGED files

-----------------------------------------------------------------------------
(* Faults *)

Fault == faults < MaxFaults /\ faults' = faults + 1 /\ alone' = None

\* The GET fails or is answered with an error, the stream breaks off, the disk is
\* full: the command ends, the partial stays.
CallFails(p) ==
  /\ proc[p].pc \in {"get", "write", "verify", "rename", "read"}
  /\ Failed(p)
  /\ Fault /\ History /\ UNCHANGED files

Killed(p) ==
  /\ Running(p) /\ ~At(p, "serving")
  /\ Exit(p)
  /\ Fault /\ History /\ UNCHANGED files

\* A server does not touch the files any more.
ServerStops(p) ==
  /\ At(p, "serving")
  /\ Exit(p)
  /\ alone' = IF alone = p THEN None ELSE alone
  /\ History /\ UNCHANGED <<files, faults>>

-----------------------------------------------------------------------------
Step(p) ==
  \/ ensure_model(p) \/ ensure_speaker_model(p)
  \/ ensure_int8_encoder(p) \/ gigastt_quantize_model(p)
  \/ load_inner(p) \/ load_sessions(p) \/ loaded(p)
  \/ DropStale(p) \/ Create(p) \/ Write(p) \/ Close(p)
  \/ Verify(p) \/ RemoveCorrupt(p) \/ Rename(p) \/ ReadEncoder(p) \/ Ends(p)

Next ==
  \E p \in Processes :
    \/ Step(p)
    \/ \E command \in Commands : Start(p, command)
    \/ CallFails(p) \/ Killed(p) \/ ServerStops(p)

Spec == Init /\ [][Next]_vars /\ \A p \in Processes : WF_vars(Step(p))

-----------------------------------------------------------------------------
Content == [1..Parts -> {"none", "good", "bad"}]
Stages == {"idle", "check", "speaker", "int8", "load", "sessions", "done", "failed", "serving",
           "stale", "get", "write", "verify", "corrupt", "rename", "read"}

Proc == [pc : Stages, command : Commands \cup {None},
         todo : Seq(Names), fd : Paths \cup {None}, at : 0..Parts, data : {"good", "bad"},
         is_int8 : BOOLEAN, encoders : Seq({ENCODER, INT8})]

ASSUME NoneAssumption == None \notin Names \cup Paths \cup Content \cup Commands

InstallTypeOK ==
  /\ files \in [Paths -> Content \cup {None}]
  /\ proc \in [Processes -> Proc]
  /\ faults \in 0..MaxFaults
  /\ shared \in BOOLEAN
  /\ alone \in Processes \cup {None}

\* Whatever crashed or failed at whatever step, and whatever it left behind, a file
\* under its final name is complete and verified, or the INT8 encoder made of one
\* that is; unless two processes staged one name at the same time
\* (stream_to_partial_then_finalize, finalize_download, quantize_model).
VerifiedUnlessShared == shared \/ Undamaged

\* Two processes share a .partial: one can rename what the other has just emptied.
\* As long as nothing fails a downloaded file is damaged only while a process is
\* writing it where it stands now (the rename takes the open file along).
DamagedHasWriter ==
  \A name \in Names \ {INT8} :
    final(name) \in {None, Good} \/ faults > 0
      \/ \E p \in Processes : proc[p].fd = <<name, "final">>

\* A command that reports success, or loads the engine, finds every file it is for:
\* a crash between two files is not taken for an installed model, and no other
\* process takes a file away.  So an engine that says it runs on INT8 does, in every
\* triplet, although each of these looks for itself (ensure_model,
\* ensure_speaker_model, ensure_int8_encoder, load_sessions).
SuccessIsInstalled ==
  \A p \in Processes :
    LET command == proc[p].command IN
    proc[p].pc \in {"load", "sessions", "done", "serving"} =>
      /\ proc[p].is_int8 => ENCODER \notin ToSet(proc[p].encoders)
      /\ command.name # "ffi" => \A name \in ModelFiles : exists(name)
      /\ command.name = "download" /\ ~command.skip_diarization => exists(SPEAKER_MODEL_FILE)
      /\ command.name \in {"quantize", "ffi"} => exists(INT8)
      /\ command.name \in {"serve", "download"} /\ ~command.skip_quantize => exists(INT8)

\* Whatever earlier runs left behind, a command that runs undisturbed succeeds:
\* stale partials and a half installed model need no repair by hand.  That the server
\* answers is assumed: a download has no timeout (stream_to_partial_then_finalize).
RecoversAlone ==
  \A p \in Processes :
    alone = p ~> alone # p \/ proc[p].pc \in {"done", "serving"}
=============================================================================
