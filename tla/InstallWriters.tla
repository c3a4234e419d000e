--------------------------- MODULE InstallWriters ---------------------------
(***************************************************************************)
(* What processes that share a .partial can do to each other, as long as   *)
(* nothing fails: a part of a download that is missing under any name is   *)
(* one that a process with the file open has still to write.               *)
(***************************************************************************)
EXTENDS InstallProofs

\* Somebody has the file at path open and part i before him.
ToCome(path, i) == \E q \in Processes : proc[q].fd = path /\ proc[q].at < i

Remaining ==
  faults = 0 =>
    \A path \in Paths : path[1] # INT8 /\ files[path] # None =>
      \A i \in 1..Parts : files[path][i] = "good" \/ ToCome(path, i)

\* An open file is of the name its writer stages, under that name or on the way.
OfName(r) == r.fd # None => r.fd \in {<<Head(r.todo), "partial">>, <<Head(r.todo), "final">>}

\* Only an INT8 encoder is made of something that may be bad.
Clean(r) == r.data = "good" \/ (r.pc \in {"get", "write"} /\ r.todo = <<INT8>>)

WInv == Remaining /\ \A p \in Processes : OfName(proc[p]) /\ Clean(proc[p])

LEMMA FaultsGrow ==
  ASSUME Inv, [Next]_vars
  PROVE  faults' = 0 => faults = 0
  <1>1. faults \in Nat
    BY TypeParts, Constants DEF Inv, Histories
  <1>2. faults' \in {faults, faults + 1}
    <2>1. ASSUME NEW p \in Processes, Step(p)
          PROVE  faults' \in {faults, faults + 1}
      BY <2>1 DEF Step, ensure_model, ensure_speaker_model, ensure_int8_encoder,
         gigastt_quantize_model, load_inner, load_sessions, loaded, DropStale, Create, Write,
         Close, Verify, RemoveCorrupt, Rename, ReadEncoder, Ends, Undisturbed
    <2>2. ASSUME NEW p \in Processes, NEW command \in Commands, Start(p, command)
          PROVE  faults' \in {faults, faults + 1}
      BY <2>2 DEF Start
    <2>3. ASSUME NEW p \in Processes, CallFails(p) \/ Killed(p) \/ ServerStops(p)
          PROVE  faults' \in {faults, faults + 1}
      BY <2>3 DEF CallFails, Killed, ServerStops, Fault
    <2>4. CASE UNCHANGED vars
      BY <2>4 DEF vars
    <2> QED
      BY <2>1, <2>2, <2>3, <2>4 DEF Next
  <1> QED
    BY <1>1, <1>2

-----------------------------------------------------------------------------
(* Steps that leave the files alone *)

\* A process that has nothing left to write goes on.
LEMMA LeavesNothing ==
  ASSUME Inv, WInv, [Next]_vars, UNCHANGED files,
         NEW p \in Processes, NEW r, Move(p, r), r.fd = None, Clean(r),
         proc[p].fd = None \/ proc[p].at = Parts \/ faults' # 0
  PROVE  WInv'
  <1>1. proc \in [Processes -> Proc]
    BY TypeParts DEF Inv
  <1>2. proc'[p] = r /\ \A q \in Processes \ {p} : proc'[q] = proc[q]
    BY <1>1 DEF Move
  <1>3. Remaining'
    <2> SUFFICES ASSUME faults' = 0, NEW path \in Paths, path[1] # INT8, files[path] # None,
                        NEW i \in 1..Parts, files[path][i] # "good"
                 PROVE  ToCome(path, i)'
      BY DEF Remaining
    <2>1. PICK q \in Processes : proc[q].fd = path /\ proc[q].at < i
      BY FaultsGrow DEF WInv, Remaining, ToCome
    <2>2. q # p
      BY <2>1, Constants
    <2> QED
      BY <1>2, <2>1, <2>2 DEF ToCome
  <1>4. ASSUME NEW q \in Processes
        PROVE  (OfName(proc[q]) /\ Clean(proc[q]))'
    <2>1. OfName(proc'[q]) /\ Clean(proc'[q])
      BY <1>2 DEF WInv, OfName
    <2> QED
      BY <2>1 DEF OfName, Clean
  <1> QED
    BY <1>3, <1>4 DEF WInv

LEMMA ResetClean ==
  ASSUME NEW p \in Processes
  PROVE  /\ Idle.fd = None /\ Clean(Idle)
         /\ FailedAt(p).fd = None /\ Clean(FailedAt(p))
  BY DEF Idle, FailedAt, Clean

LEMMA ResetW ==
  ASSUME Inv, WInv, [Next]_vars, UNCHANGED files,
         NEW p \in Processes, Exit(p) \/ Failed(p), proc[p].fd = None \/ faults' # 0
  PROVE  WInv'
  <1>1. CASE Exit(p)
    BY <1>1, ResetClean, LeavesNothing DEF Exit
  <1>2. CASE Failed(p)
    BY <1>2, ResetClean, LeavesNothing DEF Failed, FailedAt
  <1> QED
    BY <1>1, <1>2

\* The steps between two files.
BetweenFiles(p) ==
  \/ ensure_model(p) \/ ensure_speaker_model(p)
  \/ ensure_int8_encoder(p) \/ gigastt_quantize_model(p)
  \/ load_inner(p) \/ load_sessions(p) \/ loaded(p) \/ Verify(p)

Keeps(r, s) == r.fd = s.fd /\ r.data = s.data

LEMMA KeepsAll ==
  ASSUME NEW s \in Proc
  PROVE  /\ Keeps(AfterModel(s), s) /\ Keeps(AfterInt8(s), s)
         /\ \A pc : Keeps([s EXCEPT !.pc = pc], s)
         /\ \A pc, todo : Keeps([s EXCEPT !.pc = pc, !.todo = todo], s)
         /\ \A pc, b : Keeps([s EXCEPT !.pc = pc, !.is_int8 = b], s)
         /\ \A name : Keeps([s EXCEPT !.encoders = Append(@, name)], s)
  BY DEF Keeps, AfterModel, AfterInt8, Proc

LEMMA BetweenW ==
  ASSUME Inv, WInv, [Next]_vars, NEW p \in Processes, BetweenFiles(p)
  PROVE  WInv'
  <1>1. files' = files /\ proc[p].pc \notin {"get", "write"}
    BY DEF BetweenFiles, ensure_model, ensure_speaker_model, ensure_int8_encoder,
           gigastt_quantize_model, load_inner, load_sessions, loaded, Verify, At
  <1>2. proc[p] \in Proc /\ proc[p].fd = None /\ proc[p].data = "good"
    BY <1>1, OfProcess DEF WInv, Clean
  <1>3. CASE Failed(p)
    BY <1>1, <1>2, <1>3, ResetW
  <1>4. CASE ~Failed(p)
    <2>1. \E r : Move(p, r) /\ Keeps(r, proc[p])
      <3>1. CASE ensure_model(p)
        <4>1. CASE model_files_exist
          BY <3>1, <4>1, <1>2, KeepsAll DEF ensure_model
        <4>2. CASE ~model_files_exist
          BY <3>1, <4>2, <1>2, KeepsAll DEF ensure_model
        <4> QED
          BY <4>1, <4>2
      <3>2. CASE ensure_speaker_model(p)
        <4>1. CASE exists(SPEAKER_MODEL_FILE)
          BY <3>2, <4>1, <1>2, KeepsAll DEF ensure_speaker_model
        <4>2. CASE ~exists(SPEAKER_MODEL_FILE)
          BY <3>2, <4>2, <1>2, KeepsAll DEF ensure_speaker_model
        <4> QED
          BY <4>1, <4>2
      <3>3. CASE ensure_int8_encoder(p) \/ gigastt_quantize_model(p)
        <4>1. Move(p, AfterInt8(proc[p])) \/ Goto(p, "read")
          BY <3>3 DEF ensure_int8_encoder, gigastt_quantize_model
        <4> QED
          BY <4>1, <1>2, KeepsAll DEF Goto
      <3>4. CASE load_inner(p)
        <4>1. Move(p, [proc[p] EXCEPT !.pc = "sessions", !.is_int8 = exists(INT8)])
          BY <3>4, <1>4 DEF load_inner
        <4> QED
          BY <4>1, <1>2, KeepsAll
      <3>5. CASE load_sessions(p)
        <4>1. Move(p, [proc[p] EXCEPT !.encoders = Append(@, chosen_encoder)])
          BY <3>5, <1>4 DEF load_sessions
        <4> QED
          BY <4>1, <1>2, KeepsAll
      <3>6. CASE loaded(p) \/ Verify(p)
        <4>1. \E pc : Goto(p, pc)
          BY <3>6, <1>4 DEF loaded, Verify
        <4> QED
          BY <4>1, <1>2, KeepsAll DEF Goto
      <3> QED
        BY <3>1, <3>2, <3>3, <3>4, <3>5, <3>6 DEF BetweenFiles
    <2> QED
      BY <1>1, <1>2, <2>1, LeavesNothing DEF Clean, Keeps
  <1> QED
    BY <1>3, <1>4

LEMMA StartW ==
  ASSUME Inv, WInv, [Next]_vars,
         NEW p \in Processes, NEW command \in Commands, Start(p, command)
  PROVE  WInv'
  <1> DEFINE r == [Idle EXCEPT !.command = command,
                               !.pc = IF command.name = "ffi" THEN "int8" ELSE "check"]
  <1>1. Move(p, r) /\ files' = files /\ proc[p].pc = "idle"
    BY DEF Start, At
  <1>2. r.fd = None /\ Clean(r)
    BY DEF Idle, Clean
  <1>3. proc[p].fd = None
    BY <1>1, OfProcess
  <1> HIDE DEF r
  <1> QED
    BY <1>1, <1>2, <1>3, LeavesNothing

LEMMA EndW ==
  ASSUME Inv, WInv, [Next]_vars, NEW p \in Processes,
         Ends(p) \/ ServerStops(p) \/ CallFails(p) \/ Killed(p)
  PROVE  WInv'
  <1>1. files' = files /\ (Exit(p) \/ Failed(p))
    BY DEF Ends, ServerStops, CallFails, Killed
  <1>2. CASE Ends(p) \/ ServerStops(p)
    <2>1. proc[p].pc # "write"
      BY <1>2 DEF Ends, ServerStops, At
    <2> QED
      BY <1>1, <2>1, OfProcess, ResetW
  <1>3. CASE CallFails(p) \/ Killed(p)
    <2>1. faults \in Nat /\ faults' = faults + 1
      BY <1>3, OfProcess, Constants DEF CallFails, Killed, Fault
    <2>2. faults' # 0
      BY <2>1
    <2> QED
      BY <1>1, <2>2, ResetW
  <1> QED
    BY <1>2, <1>3

\* The last part is written: nothing is left for this one to write.
LEMMA CloseW ==
  ASSUME Inv, WInv, [Next]_vars, NEW p \in Processes, Close(p)
  PROVE  WInv'
  <1> DEFINE r == [proc[p] EXCEPT !.pc = IF Head(proc[p].todo) = INT8 THEN "rename"
                                         ELSE "verify",
                                  !.fd = None, !.at = 0, !.data = "good"]
  <1>1. Move(p, r) /\ files' = files /\ proc[p].at = Parts
    BY DEF Close
  <1>2. r.fd = None /\ Clean(r)
    BY OfProcess DEF Proc, Clean
  <1> HIDE DEF r
  <1> QED
    BY <1>1, <1>2, LeavesNothing

LEMMA ReadEncoderW ==
  ASSUME Inv, WInv, [Next]_vars, NEW p \in Processes, ReadEncoder(p)
  PROVE  WInv'
  <1> DEFINE r == [proc[p] EXCEPT !.pc = "get", !.todo = <<INT8>>,
                                  !.data = IF final(ENCODER) = Good THEN "good" ELSE "bad"]
  <1>1. (Move(p, r) \/ Failed(p)) /\ files' = files /\ proc[p].pc = "read"
    BY DEF ReadEncoder, At
  <1>2. proc[p] \in Proc /\ proc[p].fd = None
    BY <1>1, OfProcess
  <1>3. r.fd = None /\ Clean(r)
    BY <1>2 DEF Proc, Clean
  <1> HIDE DEF r
  <1> QED
    BY <1>1, <1>2, <1>3, LeavesNothing, ResetW

-----------------------------------------------------------------------------
(* Steps that change a file *)

\* The file that p stages goes: whoever wrote it has nothing to write that is seen.
LEMMA UnlinkW ==
  ASSUME Inv, WInv, [Next]_vars, NEW p \in Processes,
         proc[p].pc \in {"stale", "corrupt"},
         files' = [files EXCEPT ![Target(p)] = None],
         \A q \in Processes \ {p} : proc'[q] = Unlinked(Target(p))[q],
         proc'[p].fd = None, proc'[p].data = "good"
  PROVE  WInv'
  <1>1. /\ files'[Target(p)] = None
        /\ \A path \in Paths : path # Target(p) => files'[path] = files[path]
    BY PartialGoes DEF Staging
  <1>2. proc[p].fd = None
    BY OfProcess
  <1>3. ASSUME NEW q \in Processes \ {p}
        PROVE  /\ proc'[q].pc = proc[q].pc /\ proc'[q].todo = proc[q].todo
               /\ proc'[q].data = proc[q].data
               /\ proc'[q].fd = IF proc[q].fd = Target(p) THEN None ELSE proc[q].fd
               /\ proc[q].fd # Target(p) => proc'[q] = proc[q]
    BY UnlinkedFits
  <1>4. Remaining'
    <2> SUFFICES ASSUME faults' = 0, NEW path \in Paths, path[1] # INT8, files'[path] # None,
                        NEW i \in 1..Parts, files'[path][i] # "good"
                 PROVE  ToCome(path, i)'
      BY DEF Remaining
    <2>1. path # Target(p) /\ files'[path] = files[path]
      BY <1>1
    <2>2. PICK q \in Processes : proc[q].fd = path /\ proc[q].at < i
      BY <2>1, FaultsGrow DEF WInv, Remaining, ToCome
    <2>3. q # p /\ proc'[q] = proc[q]
      BY <1>2, <1>3, <2>1, <2>2, Constants
    <2> QED
      BY <2>2, <2>3 DEF ToCome
  <1>5. ASSUME NEW q \in Processes
        PROVE  (OfName(proc[q]) /\ Clean(proc[q]))'
    <2>1. OfName(proc[q]) /\ Clean(proc[q])
      BY DEF WInv
    <2>2. OfName(proc'[q]) /\ Clean(proc'[q])
      BY <1>3, <2>1 DEF OfName, Clean
    <2> QED
      BY <2>2 DEF OfName, Clean
  <1> QED
    BY <1>4, <1>5 DEF WInv

LEMMA DropStaleW ==
  ASSUME Inv, WInv, [Next]_vars, NEW p \in Processes, DropStale(p)
  PROVE  WInv'
  <1> DEFINE u == Unlinked(Target(p))
  <1>1. /\ proc[p].pc = "stale" /\ files' = [files EXCEPT ![Target(p)] = None]
        /\ proc' = [u EXCEPT ![p].pc = "get"]
    BY DEF DropStale, At
  <1>2. proc'[p] = [u[p] EXCEPT !.pc = "get"] /\ \A q \in Processes \ {p} : proc'[q] = u[q]
    BY <1>1 DEF Unlinked
  <1>3. proc[p].fd = None /\ proc[p].data = "good"
    BY <1>1, OfProcess DEF WInv, Clean
  <1>4. u[p] \in Proc /\ u[p].fd = None /\ u[p].data = "good"
    BY <1>3, UnlinkedFits
  <1> HIDE DEF u
  <1>5. proc'[p].fd = None /\ proc'[p].data = "good"
    BY <1>2, <1>4 DEF Proc
  <1> QED
    BY <1>1, <1>2, <1>5, UnlinkW DEF u

LEMMA RemoveCorruptW ==
  ASSUME Inv, WInv, [Next]_vars, NEW p \in Processes, RemoveCorrupt(p)
  PROVE  WInv'
  <1> DEFINE u == Unlinked(Target(p))
  <1>1. /\ proc[p].pc = "corrupt" /\ files' = [files EXCEPT ![Target(p)] = None]
        /\ proc' = [u EXCEPT ![p] = FailedAt(p)]
    BY DEF RemoveCorrupt, At, FailedAt
  <1>2. proc'[p] = FailedAt(p) /\ \A q \in Processes \ {p} : proc'[q] = u[q]
    BY <1>1 DEF Unlinked
  <1>3. FailedAt(p).fd = None /\ FailedAt(p).data = "good"
    BY DEF FailedAt, Idle
  <1> QED
    BY <1>1, <1>2, <1>3, UnlinkW

\* All the parts of a file just created are before its writer.
LEMMA CreateW ==
  ASSUME Inv, WInv, [Next]_vars, NEW p \in Processes, Create(p)
  PROVE  WInv'
  <1> DEFINE r == proc[p]
             s == [r EXCEPT !.pc = "write", !.fd = Target(p), !.at = 0]
  <1>1. /\ r.pc = "get" /\ proc' = [proc EXCEPT ![p] = s]
        /\ files' = [files EXCEPT ![Target(p)] = Empty]
    BY DEF Create, At, Move
  <1>2. \A path \in Paths : path # Target(p) => files'[path] = files[path]
    BY <1>1, PartialGoes, Constants DEF Staging
  <1>3. r \in Proc /\ r.fd = None /\ OfName(r) /\ Clean(r) /\ proc \in [Processes -> Proc]
    BY <1>1, OfProcess, TypeParts DEF WInv, Inv
  <1>4. /\ s.pc = "write" /\ s.fd = Target(p) /\ s.at = 0 /\ s.todo = r.todo
        /\ s.data = r.data
    BY <1>3 DEF Proc
  <1>5. proc'[p] = s /\ \A q \in Processes \ {p} : proc'[q] = proc[q]
    BY <1>1, <1>3
  <1> HIDE DEF s
  <1>6. Remaining'
    <2> SUFFICES ASSUME faults' = 0, NEW path \in Paths, path[1] # INT8, files'[path] # None,
                        NEW i \in 1..Parts, files'[path][i] # "good"
                 PROVE  ToCome(path, i)'
      BY DEF Remaining
    <2>1. CASE path = Target(p)
      BY <1>4, <1>5, <2>1 DEF ToCome
    <2>2. CASE path # Target(p)
      <3>1. PICK q \in Processes : proc[q].fd = path /\ proc[q].at < i
        BY <1>2, <2>2, FaultsGrow DEF WInv, Remaining, ToCome
      <3>2. q # p
        BY <1>3, <3>1, Constants
      <3> QED
        BY <1>5, <3>1, <3>2 DEF ToCome
    <2> QED
      BY <2>1, <2>2
  <1>7. ASSUME NEW q \in Processes
        PROVE  (OfName(proc[q]) /\ Clean(proc[q]))'
    <2>1. OfName(proc[q]) /\ Clean(proc[q])
      BY DEF WInv
    <2>2. OfName(s) /\ Clean(s)
      BY <1>1, <1>3, <1>4 DEF OfName, Clean, Target
    <2>3. OfName(proc'[q]) /\ Clean(proc'[q])
      BY <1>5, <2>1, <2>2
    <2> QED
      BY <2>3 DEF OfName, Clean
  <1> QED
    BY <1>6, <1>7 DEF WInv

\* Without a fault the part written is good, and the next ones are still to come.
LEMMA WriteW ==
  ASSUME Inv, WInv, [Next]_vars, NEW p \in Processes, Write(p)
  PROVE  WInv'
  <1> DEFINE r == proc[p]
             i == r.at + 1
             fd == r.fd
             s == [r EXCEPT !.at = i]
  <1>1. r.pc = "write" /\ r.at < Parts
    BY DEF Write, At
  <1>2. /\ r \in Proc /\ fd \in Paths \cup {None} /\ r.at \in 0..Parts
        /\ Linked(r, files) /\ OfName(r) /\ Clean(r)
        /\ faults \in Nat /\ files \in [Paths -> Content \cup {None}]
        /\ proc \in [Processes -> Proc]
    BY OfProcess, TypeParts, Constants DEF Proc, WInv, Inv
  <1>3. PICK got \in {r.data, "bad"} :
          /\ got = r.data \/ faults' = faults + 1
          /\ files' = IF fd = None THEN files ELSE [files EXCEPT ![fd][i] = got]
          /\ Move(p, s)
    BY DEF Write
  <1>4. i \in 1..Parts /\ r.at \in Nat
    BY <1>1, <1>2, Constants
  <1>5. s.pc = "write" /\ s.at = i /\ s.fd = fd /\ s.todo = r.todo /\ s.data = r.data
    BY <1>1, <1>2 DEF Proc
  <1>6. proc'[p] = s /\ \A q \in Processes \ {p} : proc'[q] = proc[q]
    BY <1>2, <1>3 DEF Move
  <1>7. ASSUME fd # None
        PROVE  /\ files'[fd][i] = got
               /\ \A j \in 1..Parts : j # i => files'[fd][j] = files[fd][j]
               /\ files[fd] # None
    <2>1. fd \in Paths /\ files[fd] \in Content
      BY <1>2, <1>7 DEF Linked
    <2> QED
      BY <1>2, <1>3, <1>4, <1>7, <2>1, Constants DEF Content
  <1>8. \A path \in Paths : path # fd => files'[path] = files[path]
    BY <1>2, <1>3
  <1> HIDE DEF s
  <1>9. Remaining'
    <2> SUFFICES ASSUME faults' = 0, NEW path \in Paths, path[1] # INT8, files'[path] # None,
                        NEW j \in 1..Parts, files'[path][j] # "good"
                 PROVE  ToCome(path, j)'
      BY DEF Remaining
    <2>1. CASE path # fd
      <3>1. PICK q \in Processes : proc[q].fd = path /\ proc[q].at < j
        BY <1>8, <2>1, FaultsGrow DEF WInv, Remaining, ToCome
      <3>2. q # p
        BY <2>1, <3>1
      <3> QED
        BY <1>6, <3>1, <3>2 DEF ToCome
    <2>2. CASE path = fd
      <3>1. fd # None
        BY <2>2, Constants
      <3>2. got = "good"
        <4>1. got = r.data
          BY <1>2, <1>3
        <4>2. Head(r.todo) # INT8
          BY <1>2, <2>2, <3>1 DEF OfName
        <4>3. r.todo # <<INT8>>
          BY <4>2, Singles, Constants
        <4> QED
          BY <1>2, <4>1, <4>3 DEF Clean
      <3>3. j # i /\ files[fd][j] # "good"
        BY <1>7, <2>2, <3>1, <3>2
      <3>4. PICK q \in Processes : proc[q].fd = fd /\ proc[q].at < j
        BY <1>7, <2>2, <3>1, <3>3, FaultsGrow DEF WInv, Remaining, ToCome
      <3>5. CASE q = p
        BY <1>4, <1>5, <1>6, <2>2, <3>3, <3>4, <3>5 DEF ToCome
      <3>6. CASE q # p
        BY <1>6, <2>2, <3>4, <3>6 DEF ToCome
      <3> QED
        BY <3>5, <3>6
    <2> QED
      BY <2>1, <2>2
  <1>10. ASSUME NEW q \in Processes
         PROVE  (OfName(proc[q]) /\ Clean(proc[q]))'
    <2>1. OfName(proc[q]) /\ Clean(proc[q])
      BY DEF WInv
    <2>2. OfName(s) /\ Clean(s)
      BY <1>1, <1>2, <1>5 DEF OfName, Clean
    <2>3. OfName(proc'[q]) /\ Clean(proc'[q])
      BY <1>6, <2>1, <2>2
    <2> QED
      BY <2>3 DEF OfName, Clean
  <1> QED
    BY <1>9, <1>10 DEF WInv

\* A file gets its name together with its writers.
LEMMA RenameW ==
  ASSUME Inv, WInv, [Next]_vars, NEW p \in Processes, Rename(p)
  PROVE  WInv'
  <1> DEFINE r == proc[p]
             path == <<Head(r.todo), "final">>
             moved == files[Target(p)]
             Follow(q) == CASE proc[q].fd = Target(p) -> [proc[q] EXCEPT !.fd = path]
                            [] proc[q].fd = path -> [proc[q] EXCEPT !.fd = None]
                            [] OTHER -> proc[q]
  <1>1. /\ r.pc = "rename" /\ r.fd = None /\ r.data = "good" /\ r \in Proc
        /\ Achieved(r, files) /\ files \in [Paths -> Content \cup {None}]
    BY OfProcess, TypeParts DEF Rename, At, WInv, Clean, Inv
  <1>2. CASE moved = None
    <2>1. Failed(p) /\ files' = files
      BY <1>2 DEF Rename
    <2> QED
      BY <1>1, <2>1, ResetW
  <1>3. CASE moved # None
    <2>1. /\ files' = [files EXCEPT ![path] = moved, ![Target(p)] = None]
          /\ proc' = [q \in Processes |-> IF q = p THEN AfterFile(r) ELSE Follow(q)]
      BY <1>3 DEF Rename
    <2>2. /\ Target(p) \in Paths /\ Target(p) = <<Head(r.todo), "partial">> /\ path \in Paths
          /\ path # Target(p) /\ path # None /\ Target(p) # None
      BY <1>1, TargetIn, Constants DEF Staging, Target
    <2> HIDE DEF moved, Follow
    <2>3. /\ files'[path] = moved /\ files'[Target(p)] = None
          /\ \A other \in Paths \ {path, Target(p)} : files'[other] = files[other]
      BY <1>1, <2>1, <2>2
    <2>4. AfterFile(r).fd = None /\ AfterFile(r).data = "good"
      BY <1>1 DEF AfterFile, AfterModel, AfterInt8, Proc
    <2>5. ASSUME NEW q \in Processes
          PROVE  /\ Follow(q).pc = proc[q].pc /\ Follow(q).todo = proc[q].todo
                 /\ Follow(q).data = proc[q].data /\ Follow(q).at = proc[q].at
                 /\ proc[q].fd = Target(p) => Follow(q).fd = path
                 /\ proc[q].fd = path => Follow(q).fd = None
                 /\ proc[q].fd \notin {path, Target(p)} => Follow(q) = proc[q]
      <3>1. proc[q] \in Proc
        BY OfProcess
      <3>2. CASE proc[q].fd = Target(p)
        <4>1. Follow(q) = [proc[q] EXCEPT !.fd = path]
          BY <2>2, <3>2 DEF Follow
        <4> QED
          BY <2>2, <3>1, <3>2, <4>1 DEF Proc
      <3>3. CASE proc[q].fd = path
        <4>1. Follow(q) = [proc[q] EXCEPT !.fd = None]
          BY <2>2, <3>3 DEF Follow
        <4> QED
          BY <2>2, <3>1, <3>3, <4>1 DEF Proc
      <3>4. CASE proc[q].fd \notin {path, Target(p)}
        BY <3>4 DEF Follow
      <3> QED
        BY <3>2, <3>3, <3>4
    <2>6. Remaining'
      <3> SUFFICES ASSUME faults' = 0, NEW any \in Paths, any[1] # INT8, files'[any] # None,
                          NEW i \in 1..Parts, files'[any][i] # "good"
                   PROVE  ToCome(any, i)'
        BY DEF Remaining
      <3>1. any # Target(p)
        BY <2>3
      <3>2. CASE any = path
        <4>1. files[Target(p)] # None /\ files[Target(p)][i] # "good" /\ Target(p)[1] # INT8
          BY <1>3, <2>2, <2>3, <3>2 DEF moved
        <4>2. PICK q \in Processes : proc[q].fd = Target(p) /\ proc[q].at < i
          BY <2>2, <4>1, FaultsGrow DEF WInv, Remaining, ToCome
        <4>3. q # p
          BY <1>1, <2>2, <4>2
        <4>4. proc'[q].fd = path /\ proc'[q].at < i
          BY <2>1, <2>5, <4>2, <4>3
        <4> QED
          BY <3>2, <4>4 DEF ToCome
      <3>3. CASE any # path
        <4>1. PICK q \in Processes : proc[q].fd = any /\ proc[q].at < i
          BY <2>3, <3>1, <3>3, FaultsGrow DEF WInv, Remaining, ToCome
        <4>2. q # p
          BY <1>1, <4>1, Constants
        <4>3. proc'[q] = proc[q]
          BY <2>1, <2>5, <3>1, <3>3, <4>1, <4>2
        <4> QED
          BY <4>1, <4>3 DEF ToCome
      <3> QED
        BY <3>2, <3>3
    <2>7. ASSUME NEW q \in Processes
          PROVE  (OfName(proc[q]) /\ Clean(proc[q]))'
      <3>1. OfName(proc[q]) /\ Clean(proc[q])
        BY DEF WInv
      <3>2. CASE q = p
        BY <2>1, <2>4, <3>2 DEF OfName, Clean
      <3>3. CASE q # p
        <4>1. proc'[q] = Follow(q)
          BY <2>1, <3>3
        <4>2. Clean(Follow(q))
          BY <2>5, <3>1 DEF Clean
        <4>3. OfName(Follow(q))
          BY <2>2, <2>5, <3>1 DEF OfName
        <4> QED
          BY <4>1, <4>2, <4>3 DEF OfName, Clean
      <3> QED
        BY <3>2, <3>3
    <2> QED
      BY <2>6, <2>7 DEF WInv
  <1> QED
    BY <1>2, <1>3

-----------------------------------------------------------------------------
(* The theorem *)

LEMMA InitW == Init => WInv
  BY DEF Init, WInv, Remaining, OfName, Clean, Idle

LEMMA NextW == Inv /\ WInv /\ [Next]_vars => WInv'
  <1> SUFFICES ASSUME Inv, WInv, [Next]_vars PROVE WInv'
    OBVIOUS
  <1>1. ASSUME NEW p \in Processes, Step(p)
        PROVE  WInv'
    BY <1>1, BetweenW, DropStaleW, CreateW, WriteW, CloseW, RemoveCorruptW, RenameW,
       ReadEncoderW, EndW DEF Step, BetweenFiles
  <1>2. ASSUME NEW p \in Processes, NEW command \in Commands, Start(p, command)
        PROVE  WInv'
    BY <1>2, StartW
  <1>3. ASSUME NEW p \in Processes, CallFails(p) \/ Killed(p) \/ ServerStops(p)
        PROVE  WInv'
    BY <1>3, EndW
  <1>4. CASE UNCHANGED vars
    BY <1>4 DEF vars, WInv, Remaining, ToCome, OfName, Clean
  <1> QED
    BY <1>1, <1>2, <1>3, <1>4 DEF Next

\* For any number of processes that share .partial files: while nothing has failed, a
\* downloaded file that is not whole under its final name is being written there by a
\* process that took it along (the rename in finalize_download, File::create before it).
THEOREM DamageHasWriter == Spec => []DamagedHasWriter
  <1>1. Inv /\ WInv => DamagedHasWriter
    <2> SUFFICES ASSUME Inv, WInv, NEW name \in Names \ {INT8},
                        final(name) \notin {None, Good}, ~(faults > 0)
                 PROVE  \E p \in Processes : proc[p].fd = <<name, "final">>
      BY DEF DamagedHasWriter
    <2> DEFINE path == <<name, "final">>
    <2>1. path \in Paths /\ path[1] # INT8 /\ files[path] # None /\ files[path] # Good
      BY Constants DEF final
    <2>2. files[path] \in Content /\ faults = 0
      <3>1. files \in [Paths -> Content \cup {None}] /\ faults \in Nat
        BY TypeParts, Constants DEF Inv, Histories
      <3> QED
        BY <2>1, <3>1
    <2> HIDE DEF path
    <2>3. PICK i \in 1..Parts : files[path][i] # "good"
      <3> SUFFICES ASSUME \A i \in 1..Parts : files[path][i] = "good" PROVE FALSE
        OBVIOUS
      <3>1. files[path] = [i \in 1..Parts |-> files[path][i]]
        BY <2>2 DEF Content
      <3>2. files[path] = Good
        BY <3>1 DEF Good
      <3> QED
        BY <2>1, <3>2
    <2>4. ToCome(path, i)
      BY <2>1, <2>2, <2>3 DEF WInv, Remaining
    <2> QED
      BY <2>4 DEF ToCome, path
  <1> QED
    BY <1>1, InitW, NextW, InstallInvariant, PTL DEF Spec
=============================================================================
