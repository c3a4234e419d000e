--------------------------- MODULE InstallProofs ---------------------------
(***************************************************************************)
(* What the model directory shows, for any files, processes, commands and  *)
(* faults.  The inductive invariant has two parts: what a process has      *)
(* achieved so far, which no other process undoes, since a file under its  *)
(* final name is never removed; and, as long as no two processes stage one *)
(* name, that a process finds its .partial as it left it.                  *)
(***************************************************************************)
EXTENDS ModelInstall, TLAPS

Staging == {"get", "write", "verify", "corrupt", "rename"}
Loading == {"sessions", "done", "serving"}

There(f, name) == f[<<name, "final">>] # None
Listed(r, name) == \E i \in 1..Len(r.todo) : r.todo[i] = name

\* What is to be fetched: model files, or one of the two others.
TodoInv(r) ==
  /\ r.pc \in Staging \cup {"stale"} => r.todo # <<>>
  /\ r.todo \in Seq(ModelFiles) \/ r.todo = <<SPEAKER_MODEL_FILE>> \/ r.todo = <<INT8>>
  /\ r.pc \in Loading \cup {"speaker", "int8", "load", "read"} => r.todo = <<>>
  /\ r.pc = "stale" => r.todo # <<INT8>>

\* What a command needs before it can succeed.
HasModel(r, f) ==
  r.command.name # "ffi" => \A name \in ModelFiles : There(f, name)
HasSpeaker(r, f) ==
  r.command.name = "download" /\ ~r.command.skip_diarization => There(f, SPEAKER_MODEL_FILE)
HasInt8(r, f) ==
  \/ r.command.name \in {"quantize", "ffi"}
  \/ r.command.name \in {"serve", "download"} /\ ~r.command.skip_quantize
  => There(f, INT8)

\* What is there by now, where r is: each model file or its place in the list,
\* then the speaker model, then the INT8 encoder.
ModelInv(r, f) ==
  r.pc \notin {"idle", "check", "failed"} /\ r.command.name # "ffi" =>
    \A name \in ModelFiles : There(f, name) \/ Listed(r, name)

SpeakerInv(r, f) ==
  /\ r.pc \in Loading \cup {"int8", "load", "read"} \/ r.todo = <<INT8>>
  /\ r.pc \notin {"idle", "failed"}
  => HasSpeaker(r, f)

Int8Inv(r, f) == r.pc \in Loading \cup {"load"} => HasInt8(r, f)

\* The engine a process has loaded, or is loading.
NoEngine(r) == ~r.is_int8 /\ r.encoders = <<>>
EngineInv(r, f) ==
  /\ r.pc \notin Loading => NoEngine(r)
  /\ r.is_int8 => There(f, INT8) /\ \A i \in 1..Len(r.encoders) : r.encoders[i] = INT8

Achieved(r, f) ==
  TodoInv(r) /\ ModelInv(r, f) /\ SpeakerInv(r, f) /\ Int8Inv(r, f) /\ EngineInv(r, f)

\* Only a writer has a file open, and one that is still somewhere.
Linked(r, f) ==
  /\ r.pc # "write" => r.fd = None
  /\ r.fd # None => f[r.fd] # None

\* A process finds its own partial as it left it: writing, it has the file at the
\* path open, and what it renames is good.
StagePath(r) == <<Head(r.todo), "partial">>

Sound(r, f) ==
  /\ r.pc = "write" => r.fd = StagePath(r) /\ f[StagePath(r)] # None
  /\ r.pc \in {"get", "write"} /\ Head(r.todo) = INT8 => r.data = "good"
  /\ r.pc = "write" /\ Head(r.todo) = INT8 =>
       \A i \in 1..r.at : f[StagePath(r)][i] = "good"
  /\ r.pc = "rename" => f[StagePath(r)] = Good

Apart ==
  \A p, q \in Processes :
    p # q => Staged(proc[p]) = None \/ Staged(proc[p]) # Staged(proc[q])

Unshared == Apart /\ Undamaged /\ \A p \in Processes : Sound(proc[p], files)

Inv ==
  /\ InstallTypeOK
  /\ \A p \in Processes : Achieved(proc[p], files) /\ Linked(proc[p], files)
  /\ ~shared => Unshared

-----------------------------------------------------------------------------
(* The pieces *)

LEMMA Constants ==
  /\ ModelFiles \subseteq Names /\ INT8 \in Names /\ SPEAKER_MODEL_FILE \in Names
  /\ INT8 \notin ModelFiles /\ SPEAKER_MODEL_FILE \notin ModelFiles /\ SPEAKER_MODEL_FILE # INT8
  /\ \A name \in Names : name # None /\ <<name, "final">> \in Paths /\ <<name, "partial">> \in Paths
  /\ \A path \in Paths : path # None
  /\ Empty \in Content /\ Good \in Content
  /\ \A content \in Content : content # None
  /\ Parts \in Nat \ {0} /\ MaxFaults \in Nat
  /\ <<>> \in Seq(ModelFiles) /\ <<>> \in Seq(Names)
  BY InstallAssumption, NoneAssumption DEF Names, Paths, Content, Empty, Good

\* A list of one name.
LEMMA Singles ==
  /\ \A name \in Names : /\ <<name>> \in Seq(Names) /\ <<name>> # <<>>
                          /\ Head(<<name>>) = name /\ Len(<<name>>) = 1 /\ <<name>>[1] = name
  /\ <<SPEAKER_MODEL_FILE>> # <<INT8>>
  <1>1. <<SPEAKER_MODEL_FILE>>[1] # <<INT8>>[1]
    BY Constants
  <1> QED
    BY <1>1

\* What a staged process has in hand.
LEMMA HeadIn ==
  ASSUME NEW r \in Proc, TodoInv(r), r.pc \in Staging \cup {"stale"}
  PROVE  /\ Head(r.todo) \in Names
         /\ Len(r.todo) \in Nat \ {0} /\ Head(r.todo) = r.todo[1]
  <1>1. r.todo \in Seq(Names) /\ r.todo # <<>>
    BY DEF Proc, TodoInv
  <1> QED
    BY <1>1

\* A process that is idle or has failed is owed nothing.
LEMMA IdleFits ==
  ASSUME NEW f
  PROVE  Idle \in Proc /\ Idle.fd = None /\ Achieved(Idle, f) /\ Sound(Idle, f)
  <1>1. Idle \in Proc
    <2>1. <<>> \in Seq(Names) /\ <<>> \in Seq({ENCODER, INT8})
      OBVIOUS
    <2>2. 0 \in 0..Parts
      BY Constants
    <2> QED
      BY <2>1, <2>2 DEF Idle, Proc, Stages
  <1>2. TodoInv(Idle)
    BY Constants DEF TodoInv, Idle, Staging, Loading
  <1>3. Achieved(Idle, f) /\ Sound(Idle, f)
    BY <1>2 DEF Achieved, ModelInv, SpeakerInv, Int8Inv, EngineInv, NoEngine, Sound, Idle, Loading
  <1> QED
    BY <1>1, <1>3 DEF Idle

FailedAt(p) == [Idle EXCEPT !.pc = "failed", !.command = proc[p].command]

LEMMA FailedFits ==
  ASSUME NEW f, NEW p \in Processes, proc[p] \in Proc
  PROVE  /\ FailedAt(p) \in Proc /\ FailedAt(p).fd = None
         /\ Achieved(FailedAt(p), f) /\ Sound(FailedAt(p), f)
  <1> DEFINE r == FailedAt(p)
  <1>1. /\ r.pc = "failed" /\ r.todo = <<>> /\ r.fd = None /\ ~r.is_int8 /\ r.encoders = <<>>
        /\ r \in Proc
    <2>1. Idle \in Proc /\ proc[p].command \in Commands \cup {None}
      BY IdleFits DEF Proc
    <2> QED
      BY <2>1 DEF FailedAt, Idle, Proc, Stages
  <1> HIDE DEF r
  <1>2. TodoInv(r)
    BY <1>1, Constants DEF TodoInv, Staging, Loading
  <1>3. Achieved(r, f) /\ Sound(r, f)
    BY <1>1, <1>2 DEF Achieved, ModelInv, SpeakerInv, Int8Inv, EngineInv, NoEngine, Sound, Loading
  <1> QED
    BY <1>1, <1>3 DEF r

\* What was achieved stays so while no file is taken away, open files or not.
LEMMA AchievedStays ==
  ASSUME NEW r, NEW f, NEW g, NEW s, Achieved(r, f),
         /\ s.pc = r.pc /\ s.todo = r.todo /\ s.command = r.command
         /\ s.is_int8 = r.is_int8 /\ s.encoders = r.encoders,
         \A name \in Names : There(f, name) => There(g, name)
  PROVE  Achieved(s, g)
  <1>1. TodoInv(s)
    BY DEF Achieved, TodoInv
  <1>2. ModelInv(s, g)
    BY Constants DEF Achieved, ModelInv, Listed
  <1>3. SpeakerInv(s, g) /\ Int8Inv(s, g) /\ EngineInv(s, g)
    BY Constants DEF Achieved, SpeakerInv, HasSpeaker, Int8Inv, HasInt8, EngineInv, NoEngine
  <1> QED
    BY <1>1, <1>2, <1>3 DEF Achieved

LEMMA SoundStays ==
  ASSUME NEW r, NEW f, NEW g, Sound(r, f), g[StagePath(r)] = f[StagePath(r)]
  PROVE  Sound(r, g)
  BY DEF Sound

\* The history tells of any two processes that stage one name.
LEMMA ApartNow ==
  ASSUME History
  PROVE  /\ ~shared' => Apart'
         /\ ~shared' => ~shared
  BY DEF History, Apart

-----------------------------------------------------------------------------
(* Steps that leave the files alone *)

Histories ==
  /\ faults \in 0..MaxFaults
  /\ shared \in BOOLEAN
  /\ alone \in Processes \cup {None}

LEMMA TypeParts ==
  InstallTypeOK <=> /\ files \in [Paths -> Content \cup {None}]
                    /\ proc \in [Processes -> Proc]
                    /\ Histories
  BY DEF InstallTypeOK, Histories

LEMMA LocalStep ==
  ASSUME Inv, History, UNCHANGED files, faults' \in 0..MaxFaults,
         alone' \in Processes \cup {None},
         NEW p \in Processes, NEW r \in Proc, Move(p, r),
         r.fd = None, Achieved(r, files), ~shared => Sound(r, files)
  PROVE  Inv'
  <1>1. /\ proc \in [Processes -> Proc] /\ files \in [Paths -> Content \cup {None}]
        /\ \A q \in Processes : Achieved(proc[q], files) /\ Linked(proc[q], files)
        /\ ~shared => Unshared
    BY TypeParts DEF Inv
  <1>2. /\ proc' \in [Processes -> Proc]
        /\ proc'[p] = r /\ \A q \in Processes \ {p} : proc'[q] = proc[q]
    BY <1>1 DEF Move
  <1>3. InstallTypeOK'
    <2>1. Histories'
      BY DEF History, Histories
    <2> QED
      BY <1>1, <1>2, <2>1 DEF InstallTypeOK, Histories
  <1>4. ASSUME NEW q \in Processes
        PROVE  (Achieved(proc[q], files) /\ Linked(proc[q], files))'
    <2>1. Achieved(proc'[q], files) /\ Linked(proc'[q], files)
      BY <1>1, <1>2 DEF Linked
    <2> QED
      BY <2>1
  <1>5. ASSUME ~shared'
        PROVE  Unshared'
    <2>1. ~shared /\ Apart'
      BY <1>5, ApartNow
    <2>2. Undamaged'
      BY <1>1, <2>1 DEF Unshared, Undamaged, final
    <2>3. \A q \in Processes : Sound(proc'[q], files')
      BY <1>1, <1>2, <2>1 DEF Unshared
    <2> QED
      BY <2>1, <2>2, <2>3 DEF Unshared
  <1> QED
    BY <1>3, <1>4, <1>5 DEF Inv

LEMMA QuietHistory ==
  ASSUME Inv, Undisturbed
  PROVE  History /\ faults' \in 0..MaxFaults /\ alone' \in Processes \cup {None}
  BY TypeParts DEF Inv, Undisturbed, Histories

\* What holds of one process.
LEMMA OfProcess ==
  ASSUME Inv, NEW p \in Processes
  PROVE  /\ proc[p] \in Proc /\ Achieved(proc[p], files) /\ Linked(proc[p], files)
         /\ proc[p].pc # "write" => proc[p].fd = None
         /\ ~shared => Sound(proc[p], files)
         /\ alone \in Processes \cup {None}
         /\ faults \in 0..MaxFaults
  BY TypeParts DEF Inv, Unshared, Histories, Linked

LEMMA ResetInv ==
  ASSUME Inv, History, UNCHANGED files, faults' \in 0..MaxFaults,
         alone' \in Processes \cup {None},
         NEW p \in Processes, Exit(p) \/ Failed(p)
  PROVE  Inv'
  <1>1. CASE Exit(p)
    BY <1>1, IdleFits, LocalStep DEF Exit
  <1>2. CASE Failed(p)
    BY <1>2, OfProcess, FailedFits, LocalStep DEF Failed, FailedAt
  <1> QED
    BY <1>1, <1>2

\* The way on from a point of the command.
LEMMA AfterModelFits ==
  ASSUME NEW r \in Proc, NEW f, HasModel(r, f), NoEngine(r)
  PROVE  /\ AfterModel(r) \in Proc /\ AfterModel(r).fd = r.fd
         /\ Achieved(AfterModel(r), f) /\ Sound(AfterModel(r), f)
  <1> DEFINE s == AfterModel(r)
  <1>1. /\ s.pc \in {"load", "speaker", "int8"}
        /\ s.pc = "load" <=> r.command.name = "transcribe"
        /\ s.pc = "speaker" <=> r.command.name = "download" /\ ~r.command.skip_diarization
        /\ s.command = r.command /\ s.todo = <<>> /\ s.fd = r.fd
        /\ s.is_int8 = r.is_int8 /\ s.encoders = r.encoders
    BY DEF AfterModel, Proc
  <1>2. s \in Proc
    <2>1. <<>> \in Seq(Names)
      OBVIOUS
    <2> QED
      BY <2>1 DEF AfterModel, Proc, Stages
  <1> HIDE DEF s
  <1>3. TodoInv(s)
    BY <1>1, Constants DEF TodoInv, Staging, Loading
  <1>4. ModelInv(s, f) /\ SpeakerInv(s, f) /\ Int8Inv(s, f) /\ EngineInv(s, f)
    BY <1>1 DEF ModelInv, HasModel, SpeakerInv, HasSpeaker, Int8Inv, HasInt8, EngineInv,
                NoEngine, Loading
  <1>5. Sound(s, f) /\ s.fd = r.fd
    BY <1>1 DEF Sound
  <1> QED
    BY <1>2, <1>3, <1>4, <1>5 DEF Achieved, s

LEMMA AfterInt8Fits ==
  ASSUME NEW r \in Proc, NEW f, HasModel(r, f), HasSpeaker(r, f), HasInt8(r, f), NoEngine(r)
  PROVE  /\ AfterInt8(r) \in Proc /\ AfterInt8(r).fd = r.fd
         /\ Achieved(AfterInt8(r), f) /\ Sound(AfterInt8(r), f)
  <1> DEFINE s == AfterInt8(r)
  <1>1. /\ s.pc \in {"load", "done"}
        /\ s.command = r.command /\ s.todo = <<>> /\ s.fd = r.fd
        /\ s.is_int8 = r.is_int8 /\ s.encoders = r.encoders
    BY DEF AfterInt8, Proc
  <1>2. s \in Proc
    <2>1. <<>> \in Seq(Names)
      OBVIOUS
    <2> QED
      BY <2>1 DEF AfterInt8, Proc, Stages
  <1> HIDE DEF s
  <1>3. TodoInv(s)
    BY <1>1, Constants DEF TodoInv, Staging, Loading
  <1>4. ModelInv(s, f) /\ SpeakerInv(s, f) /\ Int8Inv(s, f) /\ EngineInv(s, f)
    BY <1>1 DEF ModelInv, HasModel, SpeakerInv, HasSpeaker, Int8Inv, HasInt8, EngineInv,
                NoEngine, Loading
  <1>5. Sound(s, f) /\ s.fd = r.fd
    BY <1>1 DEF Sound
  <1> QED
    BY <1>2, <1>3, <1>4, <1>5 DEF Achieved, s

\* A process between two files, or past them, has what it lists no more.
LEMMA ListDone ==
  ASSUME NEW r \in Proc, NEW f, Achieved(r, f)
  PROVE  /\ r.pc \in Loading \cup {"speaker", "int8", "load", "read"} =>
              r.todo = <<>> /\ HasModel(r, f)
         /\ r.pc \in {"int8", "read"} => HasSpeaker(r, f)
         /\ r.pc \notin Loading => NoEngine(r)
  <1>1. r.pc \in Loading \cup {"speaker", "int8", "load", "read"} => r.todo = <<>>
    BY DEF Achieved, TodoInv
  <1>2. r.todo = <<>> => \A name : ~Listed(r, name)
    BY DEF Listed
  <1> QED
    BY <1>1, <1>2 DEF Achieved, ModelInv, HasModel, SpeakerInv, EngineInv, Loading

-----------------------------------------------------------------------------
(* The commands *)

LEMMA StartInv ==
  ASSUME Inv, NEW p \in Processes, NEW command \in Commands, Start(p, command)
  PROVE  Inv'
  <1> DEFINE r == [Idle EXCEPT !.command = command,
                               !.pc = IF command.name = "ffi" THEN "int8" ELSE "check"]
  <1>1. Move(p, r) /\ History /\ files' = files /\ faults' = faults
        /\ alone' \in Processes \cup {None}
    BY DEF Start
  <1>2. /\ r.pc \in {"int8", "check"}
        /\ r.pc = "int8" <=> command.name = "ffi"
        /\ r.command = command /\ r.todo = <<>> /\ r.fd = None /\ NoEngine(r)
    BY DEF Idle, NoEngine
  <1>3. r \in Proc
    BY IdleFits DEF Idle, Proc, Stages
  <1> HIDE DEF r
  <1>4. TodoInv(r)
    BY <1>2, Constants DEF TodoInv, Staging, Loading
  <1>5. Achieved(r, files) /\ Sound(r, files)
    BY <1>2, <1>4 DEF Achieved, ModelInv, SpeakerInv, HasSpeaker, Int8Inv, EngineInv, NoEngine,
                      Sound, Loading
  <1> QED
    BY <1>1, <1>2, <1>3, <1>5, OfProcess, LocalStep

LEMMA ModelListed ==
  /\ MODEL_FILES \in Seq(Names) /\ MODEL_FILES # <<>> /\ MODEL_FILES # <<INT8>>
  /\ \A name \in ModelFiles : \E i \in 1..Len(MODEL_FILES) : MODEL_FILES[i] = name
  <1>1. /\ MODEL_FILES \in Seq(ModelFiles) /\ MODEL_FILES # <<>>
        /\ DOMAIN MODEL_FILES = 1..Len(MODEL_FILES)
    BY InstallAssumption
  <1>2. MODEL_FILES \in Seq(Names)
    BY <1>1, Constants
  <1>3. \A name \in ModelFiles : \E i \in 1..Len(MODEL_FILES) : MODEL_FILES[i] = name
    BY <1>1 DEF ModelFiles
  <1>4. MODEL_FILES # <<INT8>>
    BY <1>1, Constants
  <1> QED
    BY <1>1, <1>2, <1>3, <1>4

LEMMA EnsureModelInv ==
  ASSUME Inv, NEW p \in Processes, ensure_model(p)
  PROVE  Inv'
  <1>1. At(p, "check") /\ History /\ files' = files
        /\ faults' \in 0..MaxFaults /\ alone' \in Processes \cup {None}
    BY QuietHistory DEF ensure_model, Undisturbed
  <1>2. /\ proc[p] \in Proc /\ Achieved(proc[p], files) /\ NoEngine(proc[p])
        /\ proc[p].fd = None
    BY <1>1, OfProcess, ListDone DEF At, Loading
  <1>3. CASE model_files_exist
    <2>1. HasModel(proc[p], files)
      BY <1>3 DEF model_files_exist, exists, final, HasModel, There
    <2>2. Move(p, AfterModel(proc[p]))
      BY <1>3 DEF ensure_model
    <2> QED
      BY <1>1, <1>2, <2>1, <2>2, AfterModelFits, LocalStep
  <1>4. CASE ~model_files_exist
    <2> DEFINE r == [proc[p] EXCEPT !.pc = "stale", !.todo = MODEL_FILES]
    <2>1. Move(p, r)
      BY <1>4 DEF ensure_model
    <2>2. /\ r.pc = "stale" /\ r.todo = MODEL_FILES /\ r.fd = proc[p].fd
          /\ r.is_int8 = proc[p].is_int8 /\ r.encoders = proc[p].encoders
      BY <1>2 DEF Proc
    <2>3. r \in Proc
      BY <1>2, ModelListed DEF Proc, Stages
    <2> HIDE DEF r
    <2>4. TodoInv(r)
      BY <2>2, InstallAssumption, ModelListed DEF TodoInv, Loading
    <2>5. ModelInv(r, files)
      BY <2>2, ModelListed DEF ModelInv, Listed
    <2>6. SpeakerInv(r, files) /\ Int8Inv(r, files) /\ EngineInv(r, files)
      BY <1>2, <2>2, ModelListed DEF SpeakerInv, Int8Inv, EngineInv, NoEngine, Loading
    <2>7. Sound(r, files) /\ r.fd = None
      BY <1>2, <2>2 DEF Sound
    <2> QED
      BY <1>1, <2>1, <2>3, <2>4, <2>5, <2>6, <2>7, LocalStep DEF Achieved
  <1> QED
    BY <1>3, <1>4

LEMMA EnsureSpeakerInv ==
  ASSUME Inv, NEW p \in Processes, ensure_speaker_model(p)
  PROVE  Inv'
  <1>1. At(p, "speaker") /\ History /\ files' = files
        /\ faults' \in 0..MaxFaults /\ alone' \in Processes \cup {None}
    BY QuietHistory DEF ensure_speaker_model, Undisturbed
  <1>2. /\ proc[p] \in Proc /\ NoEngine(proc[p])
        /\ proc[p].todo = <<>> /\ HasModel(proc[p], files)
        /\ proc[p].fd = None
    BY <1>1, OfProcess, ListDone DEF At, Loading
  <1>3. PICK pc \in {"int8", "stale"}, todo \in {<<>>, <<SPEAKER_MODEL_FILE>>} :
          /\ Move(p, [proc[p] EXCEPT !.pc = pc, !.todo = todo])
          /\ pc = "int8" => todo = <<>> /\ There(files, SPEAKER_MODEL_FILE)
          /\ pc = "stale" => todo = <<SPEAKER_MODEL_FILE>>
    <2>1. CASE exists(SPEAKER_MODEL_FILE)
      <3>1. [proc[p] EXCEPT !.pc = "int8"] = [proc[p] EXCEPT !.pc = "int8", !.todo = <<>>]
        BY <1>2 DEF Proc
      <3> QED
        BY <2>1, <3>1 DEF ensure_speaker_model, exists, final, There
    <2>2. CASE ~exists(SPEAKER_MODEL_FILE)
      BY <2>2 DEF ensure_speaker_model
    <2> QED
      BY <2>1, <2>2
  <1> DEFINE r == [proc[p] EXCEPT !.pc = pc, !.todo = todo]
  <1>4. /\ r.pc = pc /\ r.todo = todo /\ r.fd = proc[p].fd /\ r.command = proc[p].command
        /\ r.is_int8 = proc[p].is_int8 /\ r.encoders = proc[p].encoders
    BY <1>2 DEF Proc
  <1>5. r \in Proc
    <2>1. todo \in Seq(Names)
      BY <1>3, Constants, Singles
    <2> QED
      BY <1>2, <2>1 DEF Proc, Stages
  <1> HIDE DEF r
  <1>6. TodoInv(r) /\ todo # <<INT8>>
    <2>1. CASE pc = "int8"
      BY <1>3, <1>4, <2>1, Constants, Singles DEF TodoInv, Staging, Loading
    <2>2. CASE pc = "stale"
      BY <1>3, <1>4, <2>2, Constants, Singles DEF TodoInv, Staging, Loading
    <2> QED
      BY <1>3, <2>1, <2>2
  <1>7. ModelInv(r, files)
    BY <1>2, <1>4 DEF ModelInv, HasModel
  <1>8. SpeakerInv(r, files) /\ Int8Inv(r, files) /\ EngineInv(r, files)
    BY <1>2, <1>3, <1>4, <1>6 DEF SpeakerInv, HasSpeaker, Int8Inv, EngineInv, NoEngine, Loading
  <1>9. Sound(r, files) /\ r.fd = None
    BY <1>2, <1>3, <1>4 DEF Sound
  <1> QED
    BY <1>1, <1>3, <1>5, <1>6, <1>7, <1>8, <1>9, LocalStep DEF Achieved, r

\* The INT8 encoder is to be made: on to the reading of the other one.
LEMMA ToRead ==
  ASSUME Inv, History, UNCHANGED files, faults' \in 0..MaxFaults,
         alone' \in Processes \cup {None},
         NEW p \in Processes, At(p, "int8"), Goto(p, "read")
  PROVE  Inv'
  <1> DEFINE r == [proc[p] EXCEPT !.pc = "read"]
  <1>1. /\ proc[p] \in Proc /\ NoEngine(proc[p]) /\ proc[p].todo = <<>>
        /\ HasModel(proc[p], files) /\ HasSpeaker(proc[p], files)
        /\ proc[p].fd = None
    BY OfProcess, ListDone DEF At, Loading
  <1>2. /\ r.pc = "read" /\ r.todo = <<>> /\ r.fd = proc[p].fd /\ r.command = proc[p].command
        /\ r.is_int8 = proc[p].is_int8 /\ r.encoders = proc[p].encoders
        /\ r \in Proc
    BY <1>1 DEF Proc, Stages
  <1>3. Move(p, r)
    BY DEF Goto
  <1> HIDE DEF r
  <1>4. TodoInv(r)
    BY <1>2, Constants DEF TodoInv, Staging, Loading
  <1>5. Achieved(r, files)
    BY <1>1, <1>2, <1>4 DEF Achieved, ModelInv, HasModel, SpeakerInv, HasSpeaker, Int8Inv,
                            EngineInv, NoEngine, Loading
  <1>6. Sound(r, files)
    BY <1>2 DEF Sound
  <1> QED
    BY <1>1, <1>2, <1>3, <1>5, <1>6, LocalStep

LEMMA EnsureInt8Inv ==
  ASSUME Inv, NEW p \in Processes, ensure_int8_encoder(p) \/ gigastt_quantize_model(p)
  PROVE  Inv'
  <1>1. At(p, "int8") /\ Undisturbed /\ files' = files
    BY DEF ensure_int8_encoder, gigastt_quantize_model
  <1>2. History /\ faults' \in 0..MaxFaults /\ alone' \in Processes \cup {None}
    BY <1>1, QuietHistory
  <1>3. CASE Goto(p, "read")
    BY <1>1, <1>2, <1>3, ToRead
  <1>4. CASE Move(p, AfterInt8(proc[p])) /\ HasInt8(proc[p], files)
    <2>1. /\ proc[p] \in Proc /\ NoEngine(proc[p])
          /\ HasModel(proc[p], files) /\ HasSpeaker(proc[p], files)
          /\ proc[p].fd = None
      BY <1>1, OfProcess, ListDone DEF At, Loading
    <2> QED
      BY <1>1, <1>2, <1>4, <2>1, AfterInt8Fits, LocalStep
  <1>5. Goto(p, "read") \/ (Move(p, AfterInt8(proc[p])) /\ HasInt8(proc[p], files))
    BY DEF ensure_int8_encoder, gigastt_quantize_model, exists, final, HasInt8, There
  <1> QED
    BY <1>3, <1>4, <1>5

\* From the load on: only the engine is news.
LEMMA EngineFits ==
  ASSUME NEW r, NEW s, NEW f, Achieved(r, f),
         r.pc \in {"load", "sessions"}, s.pc \in Loading,
         s.command = r.command, s.todo = r.todo, s.fd = r.fd,
         s.is_int8 => There(f, INT8) /\ \A i \in 1..Len(s.encoders) : s.encoders[i] = INT8
  PROVE  Achieved(s, f) /\ Sound(s, f)
  <1>1. TodoInv(s)
    BY DEF Achieved, TodoInv, Staging, Loading
  <1>2. ModelInv(s, f) /\ SpeakerInv(s, f) /\ Int8Inv(s, f) /\ EngineInv(s, f)
    BY DEF Achieved, ModelInv, Listed, SpeakerInv, HasSpeaker, Int8Inv, HasInt8, EngineInv,
           Loading
  <1>3. Sound(s, f)
    BY DEF Sound, Loading
  <1> QED
    BY <1>1, <1>2, <1>3 DEF Achieved

LEMMA LoadInv ==
  ASSUME Inv, NEW p \in Processes, load_inner(p) \/ load_sessions(p) \/ loaded(p)
  PROVE  Inv'
  <1>1. History /\ files' = files /\ faults' \in 0..MaxFaults /\ alone' \in Processes \cup {None}
    BY QuietHistory DEF load_inner, load_sessions, loaded, Undisturbed
  <1>2. /\ proc[p] \in Proc /\ Achieved(proc[p], files) /\ EngineInv(proc[p], files)
        /\ proc[p].pc # "write" => proc[p].fd = None
    BY OfProcess DEF Achieved
  <1>3. ASSUME Failed(p)
        PROVE  Inv'
    BY <1>1, <1>3, ResetInv
  <1>4. CASE load_inner(p) /\ ~Failed(p)
    <2> DEFINE s == [proc[p] EXCEPT !.pc = "sessions", !.is_int8 = exists(INT8)]
    <2>1. At(p, "load") /\ Move(p, s)
      BY <1>4 DEF load_inner
    <2>2. /\ s.pc = "sessions" /\ s.is_int8 = exists(INT8) /\ s.encoders = proc[p].encoders
          /\ s.command = proc[p].command /\ s.todo = proc[p].todo /\ s.fd = proc[p].fd
      BY <1>2 DEF Proc
    <2>3. s \in Proc
      BY <1>2 DEF Proc, Stages, exists
    <2>4. proc[p].encoders = <<>>
      BY <1>2, <2>1 DEF EngineInv, NoEngine, Loading, At
    <2> HIDE DEF s
    <2>5. s.is_int8 => There(files, INT8) /\ \A i \in 1..Len(s.encoders) : s.encoders[i] = INT8
      <3>1. s.is_int8 => There(files, INT8)
        BY <2>2, Zenon DEF exists, final, There
      <3>2. \A i \in 1..Len(s.encoders) : s.encoders[i] = INT8
        BY <2>2, <2>4
      <3> QED
        BY <3>1, <3>2
    <2>6. Achieved(s, files) /\ Sound(s, files)
      BY <1>2, <2>1, <2>2, <2>5, EngineFits DEF At, Loading
    <2> QED
      BY <1>1, <1>2, <2>1, <2>2, <2>3, <2>6, LocalStep DEF At
  <1>5. CASE load_sessions(p) /\ ~Failed(p)
    <2> DEFINE s == [proc[p] EXCEPT !.encoders = Append(@, chosen_encoder)]
    <2>1. At(p, "sessions") /\ Move(p, s)
      BY <1>5 DEF load_sessions
    <2>2. proc[p].encoders \in Seq({ENCODER, INT8}) /\ chosen_encoder \in {ENCODER, INT8}
      BY <1>2 DEF Proc, chosen_encoder
    <2>3. /\ s.pc = proc[p].pc /\ s.is_int8 = proc[p].is_int8
          /\ s.encoders = Append(proc[p].encoders, chosen_encoder)
          /\ s.command = proc[p].command /\ s.todo = proc[p].todo /\ s.fd = proc[p].fd
      BY <1>2 DEF Proc
    <2>4. s \in Proc
      <3>1. Append(proc[p].encoders, chosen_encoder) \in Seq({ENCODER, INT8})
        BY <2>2
      <3> QED
        BY <1>2, <3>1 DEF Proc
    <2> HIDE DEF s
    <2>5. s.is_int8 => There(files, INT8) /\ \A i \in 1..Len(s.encoders) : s.encoders[i] = INT8
      <3> SUFFICES ASSUME s.is_int8
                   PROVE  There(files, INT8) /\ \A i \in 1..Len(s.encoders) : s.encoders[i] = INT8
        OBVIOUS
      <3>1. /\ There(files, INT8)
            /\ \A i \in 1..Len(proc[p].encoders) : proc[p].encoders[i] = INT8
        BY <1>2, <2>3 DEF EngineInv
      <3>2. chosen_encoder = INT8
        BY <3>1 DEF chosen_encoder, exists, final, There
      <3> QED
        BY <2>2, <2>3, <3>1, <3>2
    <2>6. Achieved(s, files) /\ Sound(s, files)
      BY <1>2, <2>1, <2>3, <2>5, EngineFits DEF At, Loading
    <2> QED
      BY <1>1, <1>2, <2>1, <2>3, <2>4, <2>6, LocalStep DEF At
  <1>6. CASE loaded(p) /\ ~Failed(p)
    <2>1. PICK pc \in {"serving", "done"} : Move(p, [proc[p] EXCEPT !.pc = pc])
      BY <1>6 DEF loaded, Goto
    <2> DEFINE s == [proc[p] EXCEPT !.pc = pc]
    <2>2. At(p, "sessions")
      BY <1>6 DEF loaded
    <2>3. /\ s.pc = pc /\ s.is_int8 = proc[p].is_int8 /\ s.encoders = proc[p].encoders
          /\ s.command = proc[p].command /\ s.todo = proc[p].todo /\ s.fd = proc[p].fd
          /\ s \in Proc
      BY <1>2, <2>1 DEF Proc, Stages
    <2> HIDE DEF s
    <2>4. Achieved(s, files) /\ Sound(s, files)
      BY <1>2, <2>1, <2>2, <2>3, EngineFits DEF At, EngineInv, Loading
    <2> QED
      BY <1>1, <1>2, <2>1, <2>2, <2>3, <2>4, LocalStep DEF At, s
  <1> QED
    BY <1>3, <1>4, <1>5, <1>6

LEMMA EndInv ==
  ASSUME Inv, NEW p \in Processes, Ends(p) \/ ServerStops(p) \/ CallFails(p) \/ Killed(p)
  PROVE  Inv'
  <1>1. /\ History /\ files' = files /\ alone' \in Processes \cup {None}
        /\ Exit(p) \/ Failed(p)
    BY OfProcess DEF Ends, ServerStops, CallFails, Killed, Fault
  <1>2. faults' = faults \/ (faults < MaxFaults /\ faults' = faults + 1)
    BY DEF Ends, ServerStops, CallFails, Killed, Fault
  <1>3. faults' \in 0..MaxFaults
    BY <1>2, OfProcess, Constants
  <1> QED
    BY <1>1, <1>3, ResetInv

-----------------------------------------------------------------------------
(* Staging a file *)

\* Within the staging of a file nothing is achieved, nor undone.
LEMMA StageFits ==
  ASSUME NEW r, NEW s, NEW f, Achieved(r, f), r.pc \in Staging \cup {"stale"},
         s.pc \in Staging,
         s.command = r.command, s.todo = r.todo,
         s.is_int8 = r.is_int8, s.encoders = r.encoders
  PROVE  Achieved(s, f)
  <1>1. TodoInv(s)
    BY DEF Achieved, TodoInv, Staging, Loading
  <1>2. ModelInv(s, f)
    BY DEF Achieved, ModelInv, Listed, Staging
  <1>3. SpeakerInv(s, f)
    BY DEF Achieved, SpeakerInv, HasSpeaker, Staging, Loading
  <1>4. Int8Inv(s, f) /\ EngineInv(s, f)
    BY DEF Achieved, Int8Inv, EngineInv, NoEngine, Staging, Loading
  <1> QED
    BY <1>1, <1>2, <1>3, <1>4 DEF Achieved

LEMMA CloseInv ==
  ASSUME Inv, NEW p \in Processes, Close(p)
  PROVE  Inv'
  <1> DEFINE r == proc[p]
             s == [r EXCEPT !.pc = IF Head(r.todo) = INT8 THEN "rename" ELSE "verify",
                            !.fd = None, !.at = 0, !.data = "good"]
  <1>1. History /\ files' = files /\ faults' \in 0..MaxFaults /\ alone' \in Processes \cup {None}
    BY QuietHistory DEF Close, Undisturbed
  <1>2. r.pc = "write" /\ r.at = Parts /\ Move(p, s)
    BY DEF Close, At
  <1>3. r \in Proc /\ Achieved(r, files)
    BY OfProcess
  <1>4. /\ s.pc \in {"rename", "verify"}
        /\ s.pc = "rename" => Head(r.todo) = INT8
        /\ s.command = r.command /\ s.todo = r.todo /\ s.fd = None
        /\ s.is_int8 = r.is_int8 /\ s.encoders = r.encoders
    BY <1>3 DEF Proc
  <1>5. s \in Proc
    <2>1. 0 \in 0..Parts
      BY Constants
    <2> QED
      BY <1>3, <2>1 DEF Proc, Stages
  <1>6. ASSUME ~shared
        PROVE  Sound(s, files)
    <2>1. Sound(r, files)
      BY <1>6, OfProcess
    <2>2. ASSUME s.pc = "rename"
          PROVE  files[StagePath(r)] = Good
      <3> DEFINE content == files[StagePath(r)]
      <3>1. StagePath(r) \in Paths
        BY <1>2, <1>3, HeadIn, Constants DEF Achieved, StagePath, Staging
      <3>2. content \in Content
        BY <1>2, <2>1, <3>1, TypeParts DEF Inv, Sound
      <3>3. \A i \in 1..Parts : content[i] = "good"
        BY <1>2, <1>4, <2>1, <2>2 DEF Sound
      <3> HIDE DEF content
      <3>4. content = Good
        BY <3>2, <3>3 DEF Content, Good
      <3> QED
        BY <3>4 DEF content
    <2>3. StagePath(s) = StagePath(r)
      BY <1>4 DEF StagePath
    <2> HIDE DEF s
    <2> QED
      BY <1>4, <2>2, <2>3 DEF Sound
  <1> HIDE DEF s
  <1>7. Achieved(s, files)
    BY <1>2, <1>3, <1>4, StageFits DEF Staging
  <1> QED
    BY <1>1, <1>2, <1>4, <1>5, <1>6, <1>7, LocalStep

LEMMA VerifyInv ==
  ASSUME Inv, NEW p \in Processes, Verify(p)
  PROVE  Inv'
  <1>1. History /\ files' = files /\ faults' \in 0..MaxFaults /\ alone' \in Processes \cup {None}
    BY QuietHistory DEF Verify, Undisturbed
  <1>2. /\ proc[p] \in Proc /\ Achieved(proc[p], files)
        /\ proc[p].pc = "verify" /\ proc[p].fd = None
    BY OfProcess DEF Verify, At
  <1>3. CASE Failed(p)
    BY <1>1, <1>3, ResetInv
  <1>4. CASE ~Failed(p)
    <2>1. PICK pc \in {"rename", "corrupt"} :
            /\ Move(p, [proc[p] EXCEPT !.pc = pc])
            /\ pc = "rename" => files[Target(p)] = Good
      BY <1>4 DEF Verify, Goto, sha256_matches
    <2> DEFINE s == [proc[p] EXCEPT !.pc = pc]
    <2>2. /\ s.pc = pc /\ s.is_int8 = proc[p].is_int8 /\ s.encoders = proc[p].encoders
          /\ s.command = proc[p].command /\ s.todo = proc[p].todo /\ s.fd = proc[p].fd
          /\ s \in Proc
      BY <1>2, <2>1 DEF Proc, Stages
    <2> HIDE DEF s
    <2>3. Achieved(s, files)
      BY <1>2, <2>1, <2>2, StageFits DEF Staging
    <2>4. ~shared => Sound(s, files)
      BY <1>2, <2>1, <2>2, OfProcess DEF Sound, StagePath, Target
    <2> QED
      BY <1>1, <1>2, <2>1, <2>2, <2>3, <2>4, LocalStep DEF s
  <1> QED
    BY <1>3, <1>4

LEMMA ReadEncoderInv ==
  ASSUME Inv, NEW p \in Processes, ReadEncoder(p)
  PROVE  Inv'
  <1> DEFINE r == proc[p]
             s == [r EXCEPT !.pc = "get", !.todo = <<INT8>>,
                            !.data = IF final(ENCODER) = Good THEN "good" ELSE "bad"]
  <1>1. History /\ files' = files /\ faults' \in 0..MaxFaults /\ alone' \in Processes \cup {None}
    BY QuietHistory DEF ReadEncoder, Undisturbed
  <1>2. r \in Proc /\ Achieved(r, files) /\ r.pc = "read" /\ r.fd = None
    BY OfProcess DEF ReadEncoder, At
  <1>3. CASE Failed(p)
    BY <1>1, <1>3, ResetInv
  <1>4. CASE final(ENCODER) # None /\ Move(p, s)
    <2>1. NoEngine(r) /\ HasModel(r, files) /\ HasSpeaker(r, files)
      BY <1>2, ListDone DEF Loading
    <2>2. /\ s.pc = "get" /\ s.todo = <<INT8>> /\ s.fd = r.fd /\ s.command = r.command
          /\ s.is_int8 = r.is_int8 /\ s.encoders = r.encoders
          /\ final(ENCODER) = Good => s.data = "good"
      BY <1>2 DEF Proc
    <2>3. s \in Proc
      BY <1>2, Constants, Singles DEF Proc, Stages
    <2> HIDE DEF s
    <2>4. TodoInv(s)
      BY <2>2, Constants, Singles DEF TodoInv, Loading
    <2>5. Achieved(s, files)
      BY <2>1, <2>2, <2>4 DEF Achieved, ModelInv, HasModel, SpeakerInv, HasSpeaker, Int8Inv,
                              EngineInv, NoEngine, Loading
    <2>6. ASSUME ~shared
          PROVE  Sound(s, files)
      <3>1. final(ENCODER) = Good
        BY <1>4, <2>6, InstallAssumption, Constants DEF Inv, Unshared, Undamaged
      <3> QED
        BY <2>2, <3>1 DEF Sound
    <2> QED
      BY <1>1, <1>2, <1>4, <2>2, <2>3, <2>5, <2>6, LocalStep
  <1> QED
    BY <1>3, <1>4 DEF ReadEncoder

-----------------------------------------------------------------------------
(* Steps that change a file *)

LEMMA FileStep ==
  ASSUME Inv, Undisturbed \/ Histories',
         files' \in [Paths -> Content \cup {None}], proc' \in [Processes -> Proc],
         \A q \in Processes : Achieved(proc'[q], files') /\ Linked(proc'[q], files'),
         History,
         ~shared' => Undamaged' /\ \A q \in Processes : Sound(proc'[q], files')
  PROVE  Inv'
  <1>1. Histories'
    BY TypeParts DEF Inv, Undisturbed, History, Histories
  <1>2. InstallTypeOK'
    BY <1>1 DEF InstallTypeOK, Histories
  <1>3. ~shared' => Unshared'
    BY ApartNow DEF Unshared
  <1> QED
    BY <1>2, <1>3 DEF Inv

\* What is staged is not what another process stages, so long as nothing is shared.
LEMMA OwnPath ==
  ASSUME Inv, ~shared, NEW p \in Processes, NEW q \in Processes \ {p},
         proc[p].pc \in Staging, proc[q].pc \in Staging
  PROVE  StagePath(proc[q]) # StagePath(proc[p])
  <1>1. Staged(proc[p]) = Head(proc[p].todo) /\ Staged(proc[q]) = Head(proc[q].todo)
    BY DEF Staged, Staging
  <1>2. Head(proc[p].todo) # None
    BY OfProcess, HeadIn, Constants DEF Achieved
  <1>3. Head(proc[p].todo) # Head(proc[q].todo)
    BY <1>1, <1>2 DEF Inv, Unshared, Apart
  <1> QED
    BY <1>3 DEF StagePath

\* Where a process stages, as the step names it.
LEMMA TargetIn ==
  ASSUME Inv, NEW p \in Processes, proc[p].pc \in Staging \cup {"stale"}
  PROVE  /\ Target(p) \in Paths /\ Target(p) = StagePath(proc[p])
         /\ \A name : Target(p) # <<name, "final">>
         /\ Head(proc[p].todo) \in Names
  <1>1. Head(proc[p].todo) \in Names
    BY OfProcess, HeadIn DEF Achieved
  <1> QED
    BY <1>1, Constants DEF Target, StagePath

\* A process that loses sight of its file has lost nothing else.
LEMMA UnlinkedFits ==
  ASSUME Inv, NEW path, NEW q \in Processes
  PROVE  LET r == Unlinked(path)[q] IN
         /\ r \in Proc
         /\ r.pc = proc[q].pc /\ r.todo = proc[q].todo /\ r.command = proc[q].command
         /\ r.is_int8 = proc[q].is_int8 /\ r.encoders = proc[q].encoders
         /\ r.data = proc[q].data /\ r.at = proc[q].at
         /\ r.fd = IF proc[q].fd = path THEN None ELSE proc[q].fd
         /\ proc[q].fd # path => r = proc[q]
  <1>1. proc[q] \in Proc
    BY OfProcess
  <1>2. CASE proc[q].fd = path
    BY <1>1, <1>2 DEF Unlinked, Proc
  <1>3. CASE proc[q].fd # path
    BY <1>1, <1>3 DEF Unlinked
  <1> QED
    BY <1>2, <1>3

\* Under a final name no file disappears by a change elsewhere.
LEMMA PartialGoes ==
  ASSUME Inv, NEW p \in Processes, proc[p].pc \in Staging \cup {"stale"},
         NEW content \in Content \cup {None},
         files' = [files EXCEPT ![Target(p)] = content]
  PROVE  /\ files' \in [Paths -> Content \cup {None}]
         /\ files'[Target(p)] = content
         /\ \A path \in Paths : path # Target(p) => files'[path] = files[path]
         /\ \A name \in Names : There(files, name) => There(files', name)
         /\ Undamaged => Undamaged'
  <1>1. files \in [Paths -> Content \cup {None}]
    BY TypeParts DEF Inv
  <1>2. /\ files' \in [Paths -> Content \cup {None}]
        /\ files'[Target(p)] = content
        /\ \A path \in Paths : path # Target(p) => files'[path] = files[path]
    BY <1>1, TargetIn
  <1>3. \A name \in Names : files'[<<name, "final">>] = files[<<name, "final">>]
    BY <1>2, TargetIn, Constants
  <1> QED
    BY <1>2, <1>3 DEF There, Undamaged, final

\* The others keep their places when the file p stages changes, if it is not theirs.
LEMMA OthersSound ==
  ASSUME Inv, ~shared, NEW p \in Processes, proc[p].pc \in Staging \cup {"stale"},
         NEW f, \A path \in Paths \ {Target(p)} : f[path] = files[path],
         NEW q \in Processes \ {p},
         proc[q].pc \in Staging => StagePath(proc[q]) # StagePath(proc[p])
  PROVE  Sound(proc[q], f) /\ proc[q].fd # Target(p)
  <1>1. Sound(proc[q], files) /\ (proc[q].pc # "write" => proc[q].fd = None)
    BY OfProcess
  <1>2. Target(p) \in Paths /\ Target(p) = StagePath(proc[p]) /\ Target(p) # None
    BY TargetIn, Constants
  <1>3. CASE proc[q].pc \in Staging
    <2>1. StagePath(proc[q]) \in Paths \ {Target(p)}
      BY <1>2, <1>3, TargetIn
    <2>2. Sound(proc[q], f)
      BY <1>1, <2>1, SoundStays
    <2>3. proc[q].fd # Target(p)
      BY <1>1, <1>2, <2>1 DEF Sound
    <2> QED
      BY <2>2, <2>3
  <1>4. CASE proc[q].pc \notin Staging
    BY <1>1, <1>2, <1>4 DEF Sound, Staging
  <1> QED
    BY <1>3, <1>4

\* A process and the others when p's partial is removed.
LEMMA UnlinkedStays ==
  ASSUME Inv, NEW p \in Processes, proc[p].pc \in Staging \cup {"stale"},
         files' = [files EXCEPT ![Target(p)] = None], NEW q \in Processes
  PROVE  Achieved(Unlinked(Target(p))[q], files') /\ Linked(Unlinked(Target(p))[q], files')
  <1> DEFINE r == Unlinked(Target(p))[q]
  <1>1. /\ Achieved(proc[q], files) /\ Linked(proc[q], files) /\ proc[q] \in Proc
        /\ \A name \in Names : There(files, name) => There(files', name)
        /\ \A path \in Paths : path # Target(p) => files'[path] = files[path]
    BY OfProcess, PartialGoes
  <1>2. /\ r.pc = proc[q].pc /\ r.todo = proc[q].todo /\ r.command = proc[q].command
        /\ r.is_int8 = proc[q].is_int8 /\ r.encoders = proc[q].encoders
        /\ r.fd = IF proc[q].fd = Target(p) THEN None ELSE proc[q].fd
    BY UnlinkedFits
  <1> HIDE DEF r
  <1>3. Achieved(r, files')
    BY <1>1, <1>2, AchievedStays
  <1>4. proc[q].fd \in Paths \cup {None}
    BY <1>1 DEF Proc
  <1>5. Linked(r, files')
    BY <1>1, <1>2, <1>4 DEF Linked
  <1> QED
    BY <1>3, <1>5 DEF r

LEMMA DropStaleInv ==
  ASSUME Inv, NEW p \in Processes, DropStale(p)
  PROVE  Inv'
  <1> DEFINE u == Unlinked(Target(p))
             s == [u[p] EXCEPT !.pc = "get"]
  <1>1. /\ Undisturbed /\ History /\ proc[p].pc = "stale"
        /\ files' = [files EXCEPT ![Target(p)] = None]
        /\ proc' = [u EXCEPT ![p].pc = "get"]
    BY DEF DropStale, Undisturbed, At
  <1>2. /\ files' \in [Paths -> Content \cup {None}]
        /\ \A path \in Paths \ {Target(p)} : files'[path] = files[path]
        /\ Undamaged => Undamaged'
    BY <1>1, PartialGoes
  <1>3. proc'[p] = s /\ (\A q \in Processes \ {p} : proc'[q] = u[q])
        /\ DOMAIN proc' = Processes /\ proc' = [q \in Processes |-> proc'[q]]
    BY <1>1 DEF Unlinked
  <1>4. /\ u[p] \in Proc /\ u[p].pc = "stale" /\ u[p].fd = None /\ u[p].todo = proc[p].todo
        /\ Achieved(u[p], files')
    <2>1. proc[p].fd = None
      BY <1>1, OfProcess
    <2>2. /\ u[p] \in Proc /\ u[p].pc = proc[p].pc /\ u[p].todo = proc[p].todo
          /\ u[p].fd = IF proc[p].fd = Target(p) THEN None ELSE proc[p].fd
      BY UnlinkedFits
    <2>3. Achieved(u[p], files')
      BY <1>1, UnlinkedStays
    <2> QED
      BY <1>1, <2>1, <2>2, <2>3
  <1>5. /\ s \in Proc /\ s.pc = "get" /\ s.fd = None /\ s.todo = u[p].todo
        /\ s.command = u[p].command /\ s.is_int8 = u[p].is_int8 /\ s.encoders = u[p].encoders
    BY <1>4 DEF Proc, Stages
  <1>6. \A q \in Processes \ {p} : u[q] \in Proc /\ Achieved(u[q], files') /\ Linked(u[q], files')
    BY <1>1, UnlinkedFits, UnlinkedStays
  <1> HIDE DEF s, u
  <1>7. Achieved(s, files') /\ Linked(s, files')
    BY <1>4, <1>5, StageFits DEF Linked, Staging
  <1>8. Head(s.todo) # INT8 /\ Head(s.todo) # None
    <2>1. /\ s.todo \in Seq(ModelFiles) \/ s.todo = <<SPEAKER_MODEL_FILE>>
          /\ s.todo # <<>>
      BY <1>4, <1>5 DEF Achieved, TodoInv
    <2>2. Head(s.todo) \in ModelFiles \cup {SPEAKER_MODEL_FILE}
      BY <2>1, Constants, Singles
    <2> QED
      BY <2>2, Constants
  <1>9. ASSUME ~shared'
        PROVE  Undamaged' /\ \A q \in Processes : Sound(proc'[q], files')
    <2>1. ~shared /\ Apart'
      BY <1>1, <1>9, ApartNow
    <2>2. Sound(s, files')
      BY <1>5, <1>8 DEF Sound
    <2>3. ASSUME NEW q \in Processes \ {p}
          PROVE  Sound(proc'[q], files')
      <3>1. u[q].pc = proc[q].pc /\ u[q].todo = proc[q].todo
            /\ (proc[q].fd # Target(p) => u[q] = proc[q])
        BY UnlinkedFits DEF u
      <3>2. proc[q].pc \in Staging => StagePath(proc[q]) # StagePath(proc[p])
        <4>1. Staged(s) = Head(s.todo)
          BY <1>5 DEF Staged
        <4>2. proc[q].pc \in Staging => Staged(u[q]) = Head(proc[q].todo)
          BY <3>1 DEF Staged, Staging
        <4>3. proc[q].pc \in Staging => Head(proc[q].todo) # None
          BY OfProcess, HeadIn, Constants DEF Achieved
        <4>4. Staged(u[q]) = None \/ Staged(s) = None \/ Staged(u[q]) # Staged(s)
          BY <2>1, <1>3 DEF Apart
        <4> QED
          BY <1>4, <1>5, <1>8, <4>1, <4>2, <4>3, <4>4 DEF StagePath
      <3>3. Sound(proc[q], files') /\ proc[q].fd # Target(p)
        BY <1>1, <1>2, <2>1, <3>2, OthersSound
      <3> QED
        BY <1>3, <3>1, <3>3
    <2> QED
      BY <1>2, <1>3, <2>1, <2>2, <2>3 DEF Inv, Unshared
  <1>10. proc' \in [Processes -> Proc]
    BY <1>3, <1>5, <1>6
  <1>11. \A q \in Processes : Achieved(proc'[q], files') /\ Linked(proc'[q], files')
    BY <1>3, <1>6, <1>7
  <1> QED
    BY <1>1, <1>2, <1>9, <1>10, <1>11, FileStep

LEMMA RemoveCorruptInv ==
  ASSUME Inv, NEW p \in Processes, RemoveCorrupt(p)
  PROVE  Inv'
  <1> DEFINE u == Unlinked(Target(p))
  <1>1. /\ Undisturbed /\ History /\ proc[p].pc = "corrupt"
        /\ files' = [files EXCEPT ![Target(p)] = None]
        /\ proc' = [u EXCEPT ![p] = FailedAt(p)]
    BY DEF RemoveCorrupt, Undisturbed, At, FailedAt
  <1>2. /\ files' \in [Paths -> Content \cup {None}]
        /\ \A path \in Paths \ {Target(p)} : files'[path] = files[path]
        /\ Undamaged => Undamaged'
    BY <1>1, PartialGoes DEF Staging
  <1>3. /\ proc'[p] = FailedAt(p) /\ \A q \in Processes \ {p} : proc'[q] = u[q]
        /\ DOMAIN proc' = Processes /\ proc' = [q \in Processes |-> proc'[q]]
    BY <1>1 DEF Unlinked
  <1>4. /\ FailedAt(p) \in Proc /\ FailedAt(p).fd = None
        /\ Achieved(FailedAt(p), files') /\ Sound(FailedAt(p), files')
    BY OfProcess, FailedFits
  <1>5. \A q \in Processes \ {p} : u[q] \in Proc /\ Achieved(u[q], files') /\ Linked(u[q], files')
    BY <1>1, UnlinkedFits, UnlinkedStays DEF Staging
  <1> HIDE DEF u
  <1>6. ASSUME ~shared'
        PROVE  Undamaged' /\ \A q \in Processes : Sound(proc'[q], files')
    <2>1. ~shared
      BY <1>1, <1>6, ApartNow
    <2>2. ASSUME NEW q \in Processes \ {p}
          PROVE  Sound(proc'[q], files')
      <3>1. Sound(proc[q], files') /\ proc[q].fd # Target(p)
        BY <1>1, <1>2, <2>1, OwnPath, OthersSound DEF Staging
      <3>2. u[q] = proc[q]
        BY <3>1, UnlinkedFits DEF u
      <3> QED
        BY <1>3, <3>1, <3>2
    <2> QED
      BY <1>2, <1>3, <1>4, <2>1, <2>2 DEF Inv, Unshared
  <1>7. proc' \in [Processes -> Proc]
    BY <1>3, <1>4, <1>5
  <1>8. \A q \in Processes : Achieved(proc'[q], files') /\ Linked(proc'[q], files')
    BY <1>3, <1>4, <1>5 DEF Linked
  <1> QED
    BY <1>1, <1>2, <1>6, <1>7, <1>8, FileStep

LEMMA CreateInv ==
  ASSUME Inv, NEW p \in Processes, Create(p)
  PROVE  Inv'
  <1> DEFINE r == proc[p]
             s == [r EXCEPT !.pc = "write", !.fd = Target(p), !.at = 0]
  <1>1. /\ Undisturbed /\ History /\ r.pc = "get" /\ proc' = [proc EXCEPT ![p] = s]
        /\ files' = [files EXCEPT ![Target(p)] = Empty]
    BY DEF Create, Undisturbed, At, Move
  <1>2. /\ files' \in [Paths -> Content \cup {None}] /\ files'[Target(p)] = Empty
        /\ \A path \in Paths \ {Target(p)} : files'[path] = files[path]
        /\ \A name \in Names : There(files, name) => There(files', name)
        /\ Undamaged => Undamaged'
    BY <1>1, PartialGoes, Constants DEF Staging
  <1>3. r \in Proc /\ Achieved(r, files)
    BY OfProcess
  <1>4. /\ Target(p) \in Paths /\ Target(p) = StagePath(r)
        /\ Empty # None /\ Target(p) # None
    BY <1>1, TargetIn, Constants DEF Staging
  <1>5. /\ s.pc = "write" /\ s.fd = Target(p) /\ s.at = 0 /\ s.todo = r.todo
        /\ s.command = r.command /\ s.data = r.data
        /\ s.is_int8 = r.is_int8 /\ s.encoders = r.encoders
    BY <1>3 DEF Proc
  <1>6. s \in Proc
    <2>1. 0 \in 0..Parts
      BY Constants
    <2> QED
      BY <1>3, <1>4, <2>1 DEF Proc, Stages
  <1>7. /\ proc' \in [Processes -> Proc] /\ proc'[p] = s
        /\ \A q \in Processes \ {p} : proc'[q] = proc[q]
    BY <1>1, <1>6, TypeParts DEF Inv
  <1> HIDE DEF s
  <1>8. Achieved(s, files') /\ Linked(s, files')
    <2>1. Achieved(s, files)
      BY <1>1, <1>3, <1>5, StageFits DEF Staging
    <2>2. Achieved(s, files')
      BY <1>2, <2>1, AchievedStays
    <2> QED
      BY <1>2, <1>4, <1>5, <2>2 DEF Linked
  <1>9. ASSUME NEW q \in Processes \ {p}
        PROVE  Achieved(proc[q], files') /\ Linked(proc[q], files')
    <2>1. /\ Achieved(proc[q], files) /\ Linked(proc[q], files)
          /\ proc[q].fd \in Paths \cup {None}
      BY OfProcess DEF Proc
    <2>2. Achieved(proc[q], files')
      BY <1>2, <2>1, AchievedStays
    <2>3. Linked(proc[q], files')
      BY <1>2, <1>4, <2>1 DEF Linked
    <2> QED
      BY <2>2, <2>3
  <1>10. ASSUME ~shared'
         PROVE  Undamaged' /\ \A q \in Processes : Sound(proc'[q], files')
    <2>1. ~shared
      BY <1>1, <1>10, ApartNow
    <2>2. Sound(s, files')
      <3>1. Sound(r, files) /\ StagePath(s) = StagePath(r)
        BY <1>5, <2>1, OfProcess DEF StagePath
      <3>2. 1..s.at = {}
        BY <1>5
      <3> QED
        BY <1>1, <1>2, <1>4, <1>5, <3>1, <3>2 DEF Sound
    <2>3. \A q \in Processes \ {p} : Sound(proc[q], files')
      BY <1>1, <1>2, <2>1, OwnPath, OthersSound DEF Staging
    <2> QED
      BY <1>2, <1>7, <2>1, <2>2, <2>3 DEF Inv, Unshared
  <1> QED
    BY <1>1, <1>2, <1>7, <1>8, <1>9, <1>10, FileStep

\* One more part of whatever file the process has open.
LEMMA WriteInv ==
  ASSUME Inv, NEW p \in Processes, Write(p)
  PROVE  Inv'
  <1> DEFINE r == proc[p]
             i == r.at + 1
             fd == r.fd
             s == [r EXCEPT !.at = i]
  <1>1. r.pc = "write" /\ r.at < Parts /\ History
    BY DEF Write, At
  <1>2. /\ r \in Proc /\ Achieved(r, files) /\ Linked(r, files)
        /\ fd \in Paths \cup {None} /\ r.at \in 0..Parts /\ r.data \in {"good", "bad"}
    BY OfProcess DEF Proc
  <1>3. i \in 1..Parts
    BY <1>1, <1>2, Constants
  <1>4. PICK got \in {r.data, "bad"} :
          /\ \/ got = r.data /\ UNCHANGED <<faults, alone>>
             \/ /\ got # r.data /\ Head(r.todo) # INT8
                /\ faults < MaxFaults /\ faults' = faults + 1
                /\ alone' = None
          /\ files' = IF fd = None THEN files ELSE [files EXCEPT ![fd][i] = got]
          /\ Move(p, s)
    BY DEF Write
  <1>5. Histories'
    BY <1>1, <1>4, OfProcess, Constants DEF Histories, History
  <1>6. files \in [Paths -> Content \cup {None}]
    BY TypeParts DEF Inv
  <1> DEFINE content == [files[fd] EXCEPT ![i] = got]
  <1>7. ASSUME fd # None
        PROVE  /\ fd \in Paths /\ content \in Content /\ content # None
               /\ content[i] = got /\ \A j \in 1..Parts \ {i} : content[j] = files[fd][j]
               /\ files' = [files EXCEPT ![fd] = content]
               /\ files' \in [Paths -> Content \cup {None}]
               /\ files'[fd] = content
               /\ \A path \in Paths \ {fd} : files'[path] = files[path]
    <2>1. fd \in Paths /\ files[fd] \in Content
      BY <1>2, <1>6, <1>7 DEF Linked
    <2>2. /\ content \in Content
          /\ content[i] = got /\ \A j \in 1..Parts \ {i} : content[j] = files[fd][j]
      BY <1>2, <1>3, <1>4, <2>1 DEF Content
    <2>3. files' = [files EXCEPT ![fd] = content]
      BY <1>4, <1>7
    <2> HIDE DEF content
    <2> QED
      BY <1>6, <2>1, <2>2, <2>3, Constants
  <1> HIDE DEF content
  <1>8. /\ files' \in [Paths -> Content \cup {None}]
        /\ \A path \in Paths : files[path] # None => files'[path] # None
        /\ \A path \in Paths \ {fd} : files'[path] = files[path]
    <2>1. CASE fd = None
      BY <1>4, <1>6, <2>1
    <2>2. CASE fd # None
      BY <1>7, <2>2
    <2> QED
      BY <2>1, <2>2
  <1>9. /\ s.pc = "write" /\ s.at = i /\ s.fd = fd /\ s.todo = r.todo
        /\ s.command = r.command /\ s.data = r.data
        /\ s.is_int8 = r.is_int8 /\ s.encoders = r.encoders
    BY <1>1, <1>2 DEF Proc
  <1>10. s \in Proc
    BY <1>2, <1>3 DEF Proc
  <1>11. /\ proc' \in [Processes -> Proc] /\ proc'[p] = s
         /\ \A q \in Processes \ {p} : proc'[q] = proc[q]
    BY <1>4, <1>10, TypeParts DEF Inv, Move
  <1> HIDE DEF s
  <1>12. \A name \in Names : There(files, name) => There(files', name)
    BY <1>8, Constants DEF There
  <1>13. Achieved(s, files') /\ Linked(s, files')
    <2>1. Achieved(s, files')
      BY <1>1, <1>2, <1>9, <1>12, AchievedStays
    <2> QED
      BY <1>2, <1>8, <1>9, <2>1 DEF Linked
  <1>14. ASSUME NEW q \in Processes \ {p}
         PROVE  Achieved(proc[q], files') /\ Linked(proc[q], files')
    <2>1. /\ Achieved(proc[q], files) /\ Linked(proc[q], files)
          /\ proc[q].fd \in Paths \cup {None}
      BY OfProcess DEF Proc
    <2>2. Achieved(proc[q], files')
      BY <1>12, <2>1, AchievedStays
    <2> QED
      BY <1>8, <2>1, <2>2 DEF Linked
  <1>15. ASSUME ~shared'
         PROVE  Undamaged' /\ \A q \in Processes : Sound(proc'[q], files')
    <2>1. ~shared /\ Sound(r, files) /\ Undamaged
      BY <1>1, <1>15, ApartNow, OfProcess DEF Inv, Unshared
    <2>2. /\ Target(p) \in Paths /\ Target(p) = StagePath(r) /\ fd = Target(p) /\ fd # None
          /\ \A name : Target(p) # <<name, "final">>
      BY <1>1, <2>1, TargetIn, Constants DEF Sound, Staging
    <2>3. Undamaged'
      <3>1. \A name \in Names : files'[<<name, "final">>] = files[<<name, "final">>]
        BY <1>8, <2>2, Constants
      <3> QED
        BY <2>1, <3>1 DEF Undamaged, final
    <2>4. Sound(s, files')
      <3>1. StagePath(s) = StagePath(r)
        BY <1>9 DEF StagePath
      <3>2. ASSUME Head(r.todo) = INT8, NEW j \in 1..i
            PROVE  files'[StagePath(r)][j] = "good"
        <4>1. got = "good"
          BY <1>1, <1>4, <2>1, <3>2 DEF Sound
        <4>2. CASE j = i
          BY <1>7, <2>2, <4>1, <4>2
        <4>3. CASE j # i
          <5>1. j \in 1..r.at /\ j \in 1..Parts \ {i}
            BY <1>2, <1>3, <4>3, Constants
          <5>2. files[StagePath(r)][j] = "good"
            BY <1>1, <2>1, <3>2, <5>1 DEF Sound
          <5> QED
            BY <1>7, <2>2, <5>1, <5>2
        <4> QED
          BY <4>2, <4>3
      <3>3. files'[StagePath(r)] # None
        BY <1>7, <2>2
      <3> QED
        BY <1>1, <1>9, <2>1, <2>2, <3>1, <3>2, <3>3 DEF Sound
    <2>5. \A q \in Processes \ {p} : Sound(proc[q], files')
      BY <1>1, <1>8, <2>1, <2>2, OwnPath, OthersSound DEF Staging
    <2> QED
      BY <1>11, <2>3, <2>4, <2>5
  <1> QED
    BY <1>1, <1>5, <1>8, <1>11, <1>13, <1>14, <1>15, FileStep

-----------------------------------------------------------------------------
(* A file gets its name *)

LEMMA AfterFileFits ==
  ASSUME NEW r \in Proc, NEW f, Achieved(r, f), r.pc = "rename", There(f, Head(r.todo))
  PROVE  /\ AfterFile(r) \in Proc /\ AfterFile(r).fd = r.fd
         /\ Achieved(AfterFile(r), f) /\ Sound(AfterFile(r), f)
  <1>1. /\ r.todo \in Seq(Names) /\ r.todo # <<>> /\ Len(r.todo) \in Nat \ {0}
        /\ Head(r.todo) = r.todo[1]
    BY HeadIn DEF Achieved, Proc, Staging
  <1>2. NoEngine(r)
    BY ListDone DEF Loading
  <1>3. r.command.name # "ffi" => \A name \in ModelFiles : There(f, name) \/ Listed(r, name)
    BY DEF Achieved, ModelInv
  <1>4. Len(r.todo) = 1 => HasModel(r, f)
    BY <1>1, <1>3 DEF HasModel, Listed
  <1>5. \/ r.todo \in Seq(ModelFiles)
        \/ r.todo = <<SPEAKER_MODEL_FILE>>
        \/ r.todo = <<INT8>>
    BY DEF Achieved, TodoInv
  <1>6. r.todo \in Seq(ModelFiles) => Head(r.todo) \in ModelFiles
    BY <1>1
  <1>7. CASE Head(r.todo) = INT8
    <2>1. r.todo = <<INT8>> /\ Len(r.todo) = 1
      BY <1>5, <1>6, <1>7, Constants, Singles
    <2>2. HasSpeaker(r, f) /\ HasInt8(r, f)
      BY <1>7, <2>1 DEF Achieved, SpeakerInv, HasInt8
    <2>3. AfterFile(r) = AfterInt8(r)
      BY <1>7, <2>1, Constants DEF AfterFile
    <2> QED
      BY <1>2, <1>4, <2>1, <2>2, <2>3, AfterInt8Fits
  <1>8. CASE Head(r.todo) = SPEAKER_MODEL_FILE
    <2> DEFINE s == [r EXCEPT !.pc = "int8", !.todo = <<>>]
    <2>1. Len(r.todo) = 1 /\ HasModel(r, f) /\ HasSpeaker(r, f)
      BY <1>4, <1>5, <1>6, <1>8, Constants, Singles DEF HasSpeaker
    <2>2. AfterFile(r) = s
      BY <1>8, <2>1, Constants DEF AfterFile
    <2>3. /\ s \in Proc /\ s.pc = "int8" /\ s.todo = <<>> /\ s.fd = r.fd
          /\ s.command = r.command /\ s.is_int8 = r.is_int8 /\ s.encoders = r.encoders
      BY Constants DEF Proc, Stages
    <2> HIDE DEF s
    <2>4. TodoInv(s)
      BY <2>3, Constants DEF TodoInv, Staging, Loading
    <2>5. Achieved(s, f) /\ Sound(s, f)
      BY <1>2, <2>1, <2>3, <2>4 DEF Achieved, ModelInv, HasModel, SpeakerInv, HasSpeaker,
                                    Int8Inv, EngineInv, NoEngine, Sound, Loading
    <2> QED
      BY <2>2, <2>3, <2>5
  <1>9. CASE Head(r.todo) \notin {INT8, SPEAKER_MODEL_FILE} /\ Len(r.todo) > 1
    <2> DEFINE s == [r EXCEPT !.pc = "stale", !.todo = Tail(@)]
    <2>1. AfterFile(r) = s
      BY <1>9 DEF AfterFile
    <2>2. r.todo \in Seq(ModelFiles)
      BY <1>5, <1>9, Constants, Singles
    <2>3. /\ Tail(r.todo) \in Seq(ModelFiles) /\ Tail(r.todo) \in Seq(Names)
          /\ Len(Tail(r.todo)) = Len(r.todo) - 1
          /\ \A i \in 1..(Len(r.todo) - 1) : Tail(r.todo)[i] = r.todo[i + 1]
      BY <1>1, <1>9, <2>2
    <2>4. /\ s \in Proc /\ s.pc = "stale" /\ s.todo = Tail(r.todo) /\ s.fd = r.fd
          /\ s.command = r.command /\ s.is_int8 = r.is_int8 /\ s.encoders = r.encoders
      BY <2>3 DEF Proc, Stages
    <2> HIDE DEF s
    <2>5. Tail(r.todo) # <<>> /\ Tail(r.todo) # <<INT8>>
      <3> DEFINE n == Len(r.todo)
                 tail == Tail(r.todo)
      <3>1. n \in Nat /\ n > 1 /\ Len(tail) = n - 1 /\ tail \in Seq(ModelFiles)
        BY <1>1, <1>9, <2>3
      <3> HIDE DEF n, tail
      <3>2. tail # <<>> /\ tail[1] \in ModelFiles
        BY <3>1
      <3>3. <<INT8>>[1] \notin ModelFiles
        BY Constants
      <3> QED
        BY <3>2, <3>3 DEF tail
    <2>6. TodoInv(s)
      BY <2>3, <2>4, <2>5 DEF TodoInv, Staging, Loading
    <2>7. ModelInv(s, f)
      <3>1. ASSUME NEW name \in ModelFiles, Listed(r, name), ~There(f, name)
            PROVE  Listed(s, name)
        <4>1. PICK i \in 1..Len(r.todo) : r.todo[i] = name
          BY <3>1 DEF Listed
        <4>2. i # 1
          BY <1>1, <3>1, <4>1
        <4>3. i - 1 \in 1..(Len(r.todo) - 1) /\ Tail(r.todo)[i - 1] = name
          BY <1>1, <2>3, <4>1, <4>2
        <4> QED
          BY <2>3, <2>4, <4>3 DEF Listed
      <3> QED
        BY <1>3, <2>4, <3>1 DEF ModelInv
    <2>8. SpeakerInv(s, f) /\ Int8Inv(s, f) /\ EngineInv(s, f) /\ Sound(s, f)
      BY <1>2, <2>4, <2>5 DEF SpeakerInv, Int8Inv, EngineInv, NoEngine, Sound, Loading
    <2> QED
      BY <2>1, <2>4, <2>6, <2>7, <2>8 DEF Achieved
  <1>10. CASE Head(r.todo) \notin {INT8, SPEAKER_MODEL_FILE} /\ Len(r.todo) = 1
    <2>1. AfterFile(r) = AfterModel(r)
      BY <1>10 DEF AfterFile
    <2> QED
      BY <1>2, <1>4, <1>10, <2>1, AfterModelFits
  <1> QED
    <2>1. \A n \in Nat \ {0} : n = 1 \/ n > 1
      OBVIOUS
    <2>2. Len(r.todo) = 1 \/ Len(r.todo) > 1
      BY <1>1, <2>1, Zenon
    <2> QED
      BY <1>7, <1>8, <1>9, <1>10, <2>2

LEMMA RenameInv ==
  ASSUME Inv, NEW p \in Processes, Rename(p)
  PROVE  Inv'
  <1> DEFINE r == proc[p]
             path == <<Head(r.todo), "final">>
             moved == files[Target(p)]
             Follow(q) == CASE proc[q].fd = Target(p) -> [proc[q] EXCEPT !.fd = path]
                            [] proc[q].fd = path -> [proc[q] EXCEPT !.fd = None]
                            [] OTHER -> proc[q]
  <1>1. r.pc = "rename" /\ Undisturbed /\ History
    BY DEF Rename, At, Undisturbed
  <1>2. CASE moved = None
    <2>1. Failed(p) /\ files' = files
      BY <1>2 DEF Rename
    <2> QED
      BY <1>1, <2>1, QuietHistory, ResetInv
  <1>3. CASE moved # None
    <2>1. /\ files' = [files EXCEPT ![path] = moved, ![Target(p)] = None]
          /\ proc' = [q \in Processes |-> IF q = p THEN AfterFile(r) ELSE Follow(q)]
      BY <1>3 DEF Rename
    <2>2. /\ Target(p) \in Paths /\ Target(p) = StagePath(r) /\ path \in Paths
          /\ path # Target(p) /\ path # None /\ Target(p) # None /\ Head(r.todo) \in Names
          /\ \A name : Target(p) # <<name, "final">>
      BY <1>1, TargetIn, Constants DEF Staging
    <2>3. files \in [Paths -> Content \cup {None}]
      BY TypeParts DEF Inv
    <2> HIDE DEF path, moved, Follow
    <2>4. /\ files' \in [Paths -> Content \cup {None}]
          /\ files'[path] = moved /\ files'[Target(p)] = None
          /\ \A other \in Paths \ {path, Target(p)} : files'[other] = files[other]
      BY <2>1, <2>2, <2>3 DEF moved
    <2>5. /\ \A name \in Names : There(files, name) => There(files', name)
          /\ There(files', Head(r.todo))
      <3>1. ASSUME NEW name \in Names, There(files, name)
            PROVE  There(files', name)
        <4>1. <<name, "final">> \in Paths /\ <<name, "final">> # Target(p)
          BY <2>2, Constants
        <4> QED
          BY <1>3, <2>4, <3>1, <4>1 DEF There
      <3> QED
        BY <1>3, <2>4, <3>1 DEF There, path
    <2>6. /\ AfterFile(r) \in Proc /\ AfterFile(r).fd = None
          /\ Achieved(AfterFile(r), files') /\ Sound(AfterFile(r), files')
      <3>1. r \in Proc /\ Achieved(r, files) /\ r.fd = None
        BY <1>1, OfProcess
      <3>2. Achieved(r, files')
        BY <2>5, <3>1, AchievedStays
      <3> QED
        BY <1>1, <2>5, <3>1, <3>2, AfterFileFits
    <2>7. ASSUME NEW q \in Processes
          PROVE  /\ Follow(q) \in Proc
                 /\ Achieved(Follow(q), files') /\ Linked(Follow(q), files')
                 /\ proc[q].fd \notin {path, Target(p)} => Follow(q) = proc[q]
      <3>1. proc[q] \in Proc /\ Achieved(proc[q], files) /\ Linked(proc[q], files)
        BY OfProcess
      <3>2. CASE proc[q].fd = Target(p)
        <4>1. Follow(q) = [proc[q] EXCEPT !.fd = path]
          BY <2>2, <3>2 DEF Follow
        <4>2. /\ Follow(q) \in Proc /\ Follow(q).fd = path /\ Follow(q).pc = proc[q].pc
              /\ Follow(q).todo = proc[q].todo /\ Follow(q).command = proc[q].command
              /\ Follow(q).is_int8 = proc[q].is_int8 /\ Follow(q).encoders = proc[q].encoders
          BY <2>2, <3>1, <4>1 DEF Proc
        <4>3. Achieved(Follow(q), files')
          BY <2>5, <3>1, <4>2, AchievedStays
        <4>4. Linked(Follow(q), files')
          BY <1>3, <2>2, <2>4, <3>1, <3>2, <4>2 DEF Linked
        <4> QED
          BY <3>2, <4>2, <4>3, <4>4
      <3>3. CASE proc[q].fd = path
        <4>1. Follow(q) = [proc[q] EXCEPT !.fd = None]
          BY <2>2, <3>3 DEF Follow
        <4>2. /\ Follow(q) \in Proc /\ Follow(q).fd = None /\ Follow(q).pc = proc[q].pc
              /\ Follow(q).todo = proc[q].todo /\ Follow(q).command = proc[q].command
              /\ Follow(q).is_int8 = proc[q].is_int8 /\ Follow(q).encoders = proc[q].encoders
          BY <3>1, <4>1 DEF Proc
        <4>3. Achieved(Follow(q), files')
          BY <2>5, <3>1, <4>2, AchievedStays
        <4> QED
          BY <3>3, <4>2, <4>3 DEF Linked
      <3>4. CASE proc[q].fd \notin {path, Target(p)}
        <4>1. Follow(q) = proc[q]
          BY <3>4 DEF Follow
        <4>2. Achieved(proc[q], files')
          BY <2>5, <3>1, AchievedStays
        <4>3. proc[q].fd \in Paths \cup {None}
          BY <3>1 DEF Proc
        <4>4. Linked(proc[q], files')
          BY <2>4, <3>1, <3>4, <4>3 DEF Linked
        <4> QED
          BY <3>1, <4>1, <4>2, <4>4
      <3> QED
        BY <3>2, <3>3, <3>4
    <2>8. /\ proc' \in [Processes -> Proc]
          /\ \A q \in Processes : Achieved(proc'[q], files') /\ Linked(proc'[q], files')
      BY <2>1, <2>6, <2>7 DEF Linked
    <2>9. ASSUME ~shared'
          PROVE  Undamaged' /\ \A q \in Processes : Sound(proc'[q], files')
      <3>1. ~shared /\ Undamaged /\ Sound(r, files)
        BY <1>1, <2>9, ApartNow, OfProcess DEF Inv, Unshared
      <3>2. moved = Good
        BY <1>1, <2>2, <3>1 DEF Sound, moved
      <3>3. Undamaged'
        <4>1. ASSUME NEW name \in Names
              PROVE  files'[<<name, "final">>] \in {None, Good}
          <5>1. <<name, "final">> \in Paths /\ <<name, "final">> # Target(p)
            BY <2>2, Constants
          <5>2. files[<<name, "final">>] \in {None, Good}
            BY <3>1 DEF Undamaged, final
          <5> QED
            BY <2>4, <3>2, <5>1, <5>2
        <4> QED
          BY <4>1 DEF Undamaged, final
      <3>4. ASSUME NEW q \in Processes \ {p}
            PROVE  Sound(proc'[q], files')
        <4> DEFINE f == [files EXCEPT ![Target(p)] = None]
        <4>1. \A other \in Paths \ {Target(p)} : f[other] = files[other]
          BY <2>3
        <4>2. Sound(proc[q], f) /\ proc[q].fd # Target(p)
          BY <1>1, <3>1, <4>1, OwnPath, OthersSound DEF Staging
        <4>3. /\ proc[q].fd # path
              /\ proc[q].pc \in Staging => files'[StagePath(proc[q])] = f[StagePath(proc[q])]
          <5>1. proc[q].pc = "write" => proc[q].fd = StagePath(proc[q])
            BY <4>2 DEF Sound
          <5>2. proc[q].pc # "write" => proc[q].fd = None
            BY OfProcess
          <5>3. StagePath(proc[q]) # path
            BY DEF StagePath, path
          <5>4. proc[q].pc \in Staging =>
                  StagePath(proc[q]) \in Paths /\ StagePath(proc[q]) # Target(p)
            BY <1>1, <2>2, <3>1, TargetIn, OwnPath DEF Staging
          <5> QED
            BY <2>2, <2>3, <2>4, <5>1, <5>2, <5>3, <5>4
        <4>4. Follow(q) = proc[q]
          BY <2>7, <4>2, <4>3
        <4>5. Sound(proc[q], files')
          <5>1. CASE proc[q].pc \in Staging
            BY <4>2, <4>3, <5>1, SoundStays
          <5>2. CASE proc[q].pc \notin Staging
            BY <5>2 DEF Sound, Staging
          <5> QED
            BY <5>1, <5>2
        <4> QED
          BY <2>1, <4>4, <4>5
      <3>5. Sound(proc'[p], files')
        BY <2>1, <2>6
      <3> QED
        BY <3>3, <3>4, <3>5
    <2> QED
      BY <1>1, <2>4, <2>8, <2>9, FileStep
  <1> QED
    BY <1>2, <1>3

-----------------------------------------------------------------------------
(* The theorems *)

LEMMA InitInv == Init => Inv
  <1> SUFFICES ASSUME Init PROVE Inv
    OBVIOUS
  <1>1. InstallTypeOK
    <2>1. Idle \in Proc
      BY IdleFits
    <2>2. files \in [Paths -> Content \cup {None}] /\ proc \in [Processes -> Proc]
      BY <2>1 DEF Init
    <2>3. Histories
      <3>1. 0 \in 0..MaxFaults
        BY Constants
      <3> QED
        BY <3>1 DEF Init, Histories
    <2> QED
      BY <2>2, <2>3, TypeParts
  <1>2. \A p \in Processes : Achieved(proc[p], files) /\ Linked(proc[p], files)
    BY IdleFits DEF Init, Linked
  <1>3. Unshared
    <2>1. Apart
      BY DEF Init, Apart, Staged, Idle
    <2>2. Undamaged
      BY Constants DEF Init, Undamaged, final
    <2>3. \A p \in Processes : Sound(proc[p], files)
      BY IdleFits DEF Init
    <2> QED
      BY <2>1, <2>2, <2>3 DEF Unshared
  <1> QED
    BY <1>1, <1>2, <1>3 DEF Inv

LEMMA NextInv == Inv /\ [Next]_vars => Inv'
  <1> SUFFICES ASSUME Inv, [Next]_vars PROVE Inv'
    OBVIOUS
  <1>1. ASSUME NEW p \in Processes, Step(p)
        PROVE  Inv'
    BY <1>1, EnsureModelInv, EnsureSpeakerInv, EnsureInt8Inv, LoadInv, DropStaleInv, CreateInv,
       WriteInv, CloseInv, VerifyInv, RemoveCorruptInv, RenameInv, ReadEncoderInv, EndInv
       DEF Step
  <1>2. ASSUME NEW p \in Processes, NEW command \in Commands, Start(p, command)
        PROVE  Inv'
    BY <1>2, StartInv
  <1>3. ASSUME NEW p \in Processes, CallFails(p) \/ Killed(p) \/ ServerStops(p)
        PROVE  Inv'
    BY <1>3, EndInv
  <1>4. CASE UNCHANGED vars
    BY <1>4 DEF vars, Inv, InstallTypeOK, Unshared, Apart, Undamaged, final
  <1> QED
    BY <1>1, <1>2, <1>3, <1>4 DEF Next

LEMMA InstallInvariant == Spec => []Inv
  <1> QED
    BY InitInv, NextInv, PTL DEF Spec

\* Every variable keeps its type, whatever files, commands and faults there are.
THEOREM InstallTypes == Spec => []InstallTypeOK
  <1>1. Inv => InstallTypeOK
    BY DEF Inv
  <1> QED
    BY <1>1, InstallInvariant, PTL

\* For any number of files, processes, crashes, failed calls and corrupt transfers:
\* no file under its final name is partial or unverified, unless two processes
\* staged the same name at the same time (finalize_download's checksum and rename).
THEOREM FinalFilesVerified == Spec => []VerifiedUnlessShared
  <1>1. Inv => VerifiedUnlessShared
    BY DEF Inv, Unshared, VerifiedUnlessShared, InstallTypeOK
  <1> QED
    BY <1>1, InstallInvariant, PTL

\* For any of them: what reports success, or serves, has every file it is for, and an
\* engine that says it runs on INT8 has no other encoder in any triplet.
THEOREM SuccessHasFiles == Spec => []SuccessIsInstalled
  <1>1. Inv => SuccessIsInstalled
    <2> SUFFICES ASSUME Inv, NEW p \in Processes,
                        proc[p].pc \in {"load", "sessions", "done", "serving"}
                 PROVE  /\ proc[p].is_int8 => ENCODER \notin ToSet(proc[p].encoders)
                        /\ HasModel(proc[p], files)
                        /\ HasSpeaker(proc[p], files)
                        /\ HasInt8(proc[p], files)
      BY DEF SuccessIsInstalled, HasModel, HasSpeaker, HasInt8, There, exists, final
    <2>1. Achieved(proc[p], files) /\ proc[p] \in Proc
      BY OfProcess
    <2>2. HasModel(proc[p], files)
      BY <2>1, ListDone DEF Loading
    <2>3. HasSpeaker(proc[p], files) /\ HasInt8(proc[p], files)
      BY <2>1 DEF Achieved, SpeakerInv, Int8Inv, Loading
    <2>4. proc[p].is_int8 => ENCODER \notin ToSet(proc[p].encoders)
      <3>1. ENCODER # INT8
        BY InstallAssumption
      <3>2. DOMAIN proc[p].encoders = 1..Len(proc[p].encoders)
        BY <2>1 DEF Proc
      <3>3. proc[p].is_int8 => \A i \in 1..Len(proc[p].encoders) : proc[p].encoders[i] = INT8
        BY <2>1 DEF Achieved, EngineInv
      <3> QED
        BY <3>1, <3>2, <3>3 DEF ToSet
    <2> QED
      BY <2>2, <2>3, <2>4
  <1> QED
    BY <1>1, InstallInvariant, PTL

\* A step that does not touch the directory, or touches a name's .partial, or takes it
\* away under the file's name: in none a final name is left without its file.
LEMMA FilesKept ==
  ASSUME Inv, Next, NEW name \in Names, There(files, name)
  PROVE  There(files', name)
  <1>1. PICK p \in Processes :
          \/ Step(p)
          \/ \E command \in Commands : Start(p, command)
          \/ CallFails(p) \/ Killed(p) \/ ServerStops(p)
    BY DEF Next
  <1>2. CASE UNCHANGED files
    BY <1>2
  <1>3. CASE DropStale(p) \/ Create(p) \/ RemoveCorrupt(p)
    <2>1. /\ proc[p].pc \in Staging \cup {"stale"}
          /\ \E content \in Content \cup {None} : files' = [files EXCEPT ![Target(p)] = content]
      BY <1>3, Constants DEF DropStale, Create, RemoveCorrupt, At, Staging
    <2> QED
      BY <2>1, PartialGoes
  <1>4. CASE Write(p)
    <2> DEFINE i == proc[p].at + 1
               fd == proc[p].fd
    <2>1. PICK got \in {proc[p].data, "bad"} :
            files' = IF fd = None THEN files ELSE [files EXCEPT ![fd][i] = got]
      BY <1>4 DEF Write
    <2>2. /\ files \in [Paths -> Content \cup {None}]
          /\ fd # None => fd \in Paths /\ files[fd] # None
          /\ proc[p].at < Parts /\ proc[p].at \in 0..Parts /\ proc[p].data \in {"good", "bad"}
      BY <1>4, OfProcess, TypeParts DEF Inv, Linked, Proc, Write
    <2>3. i \in 1..Parts
      BY <2>2, Constants
    <2> HIDE DEF i, fd
    <2>4. CASE fd = None
      BY <2>1, <2>4
    <2>5. CASE fd # None
      <3> DEFINE content == [files[fd] EXCEPT ![i] = got]
      <3>1. content \in Content
        BY <2>2, <2>3, <2>5 DEF Content
      <3>2. files' = [files EXCEPT ![fd] = content]
        BY <2>1, <2>5
      <3> HIDE DEF content
      <3> QED
        BY <2>2, <3>1, <3>2, Constants DEF There
    <2> QED
      BY <2>4, <2>5
  <1>5. CASE Rename(p)
    <2> DEFINE path == <<Head(proc[p].todo), "final">>
               moved == files[Target(p)]
    <2>1. \/ files' = files
          \/ moved # None /\ files' = [files EXCEPT ![path] = moved, ![Target(p)] = None]
      BY <1>5 DEF Rename
    <2>2. /\ Target(p) # <<name, "final">> /\ <<name, "final">> \in Paths
          /\ files \in [Paths -> Content \cup {None}]
      BY <1>5, TargetIn, TypeParts, Constants DEF Rename, At, Staging, Inv
    <2> HIDE DEF path, moved
    <2> QED
      BY <2>1, <2>2 DEF There
  <1> QED
    BY <1>1, <1>2, <1>3, <1>4, <1>5
       DEF Step, ensure_model, ensure_speaker_model, ensure_int8_encoder,
           gigastt_quantize_model, load_inner, load_sessions, loaded, Close, Verify,
           ReadEncoder, Ends, Start, CallFails, Killed, ServerStops

\* A file that is there under its final name stays there in every step, and as long as
\* no two processes stage one name it stays as it is.
FilesStay ==
  [][\A name \in Names : exists(name) =>
       /\ exists(name)'
       /\ ~shared' => UNCHANGED final(name)]_vars

\* What one process found or installed, no other takes away or alters, whatever fails
\* or crashes (remove_file of a .partial only, rename of what was verified): a server
\* that is loading meets the files it checked for.
THEOREM FinalFilesStay == Spec => FilesStay
  <1>1. Inv /\ [Next]_vars =>
          [\A name \in Names : exists(name) =>
             /\ exists(name)'
             /\ ~shared' => UNCHANGED final(name)]_vars
    <2> SUFFICES ASSUME Inv, Next, NEW name \in Names, exists(name)
                 PROVE  exists(name)' /\ (~shared' => UNCHANGED final(name))
      BY DEF vars
    <2>1. exists(name)'
      BY FilesKept DEF There, exists, final
    <2>2. ASSUME ~shared'
          PROVE  UNCHANGED final(name)
      <3>1. Inv'
        BY NextInv
      <3>2. Undamaged'
        BY <2>2, <3>1 DEF Inv, Unshared
      <3>3. ~shared
        BY <2>2 DEF Next, History, Step, Undisturbed, ensure_model, ensure_speaker_model,
           ensure_int8_encoder, gigastt_quantize_model, load_inner, load_sessions, loaded,
           DropStale, Create, Write, Close, Verify, RemoveCorrupt, Rename, ReadEncoder, Ends,
           Start, CallFails, Killed, ServerStops
      <3>4. Undamaged
        BY <3>3 DEF Inv, Unshared
      <3> QED
        BY <2>1, <3>2, <3>4 DEF Undamaged, exists
    <2> QED
      BY <2>1, <2>2
  <1> QED
    BY <1>1, InstallInvariant, PTL DEF Spec, FilesStay
=============================================================================
