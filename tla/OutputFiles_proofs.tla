--------------------------- MODULE OutputFiles_proofs --------------------------
(***************************************************************************)
(* Proofs about OutputFiles, for every number of exporters, seeds, seconds, *)
(* batches and crashes.                                                    *)
(***************************************************************************)
EXTENDS OutputFiles, TLAPS

Busy == {"reserve", "write", "writing", "cleanup"}

\* The writer has reserved its path and not yet let go of it.
Working == {"write", "writing", "cleanup"}

States == {"idle", "failed"} \cup Busy

(***************************************************************************)
(* NothingLingers, strengthened: what is not a whole file is the file of   *)
(* the batch that a working writer is busy with, or a leftover.  Without   *)
(* the batch this is not inductive: two writers may come to work on one    *)
(* name, and when one of them ends, the file must be the other's.          *)
(***************************************************************************)
FileNames == [second : Nat, counter : Nat, seed : Seeds, suffix : Nat]

FileStates == {"empty", "partial", "whole"}

FilesTyped ==
    \A f \in DOMAIN files : files[f] \in [batch : Nat, state : FileStates]

Types ==
    /\ second \in Nat
    /\ batches \in Nat
    /\ pc \in [Writers -> States]
    /\ counter \in [Writers -> Nat]
    /\ seed \in [Writers -> Seeds]
    /\ batch \in [Writers -> Nat]
    /\ path \in [Writers -> FileNames \cup {NoPath}]
    /\ \A w \in Writers : pc[w] \in Busy => path[w] \in FileNames
    /\ FilesTyped

\* The batches that the writers are busy with differ from each other and from
\* all that are written.
BatchesDiffer ==
    /\ written \subseteq 1 .. batches
    /\ \A w \in Writers : pc[w] \in Busy => batch[w] \in 1 .. batches \ written
    /\ \A w, v \in Writers :
          pc[w] \in Busy /\ pc[v] \in Busy /\ batch[w] = batch[v] => w = v

WorksOn(w, f) == pc[w] \in Working /\ path[w] = f /\ files[f].batch = batch[w]

Tended ==
    \A f \in DOMAIN files :
        \/ files[f].state = "whole"
        \/ f \in leftovers
        \/ \E w \in Writers : WorksOn(w, f)

FilesInv == Types /\ BatchesDiffer /\ Tended

(***************************************************************************)
(* WrittenStays, strengthened: a writer that works has its own file under  *)
(* its path, so that what it overwrites or removes is no batch written.    *)
(* After a failed write whose file the library has removed, the name is    *)
(* free; only a writer with the same seed could take it.                   *)
(***************************************************************************)
Premise == library = "leaves" \/ SeedsDiffer

SeedsDrawn ==
    \A w \in Writers :
        /\ \E life : <<seed[w], w, life>> \in seeds
        /\ pc[w] \in Busy => path[w].seed = seed[w]

HasFile(w) ==
    \/ pc[w] \in {"write", "writing"}
    \/ pc[w] = "cleanup" /\ (library = "leaves" \/ path[w] \in DOMAIN files)

OwnFile ==
    \A w \in Writers :
        HasFile(w) => path[w] \in DOMAIN files /\ files[path[w]].batch = batch[w]

Kept ==
    \A b \in written : \E f \in DOMAIN files :
        files[f] = [batch |-> b, state |-> "whole"]

KeptInv == SeedsDrawn /\ (Premise => OwnFile /\ Kept)
-------------------------------------------------------------------------------
\* A file put into the directory, in the place of what has its name.
LEMMA FilePut ==
    ASSUME NEW w \in Writers, NEW state, Put(path[w], batch[w], state)
    PROVE  /\ DOMAIN files' = DOMAIN files \cup {path[w]}
           /\ files'[path[w]].batch = batch[w]
           /\ \A g \in DOMAIN files : g # path[w] => files'[g] = files[g]
  BY DEF Put

LEMMA PutTyped ==
    ASSUME FilesTyped, NEW f, NEW number \in Nat, NEW state \in FileStates,
           Put(f, number, state)
    PROVE  FilesTyped'
  BY DEF Put, FilesTyped

LEMMA InitFiles == Init => FilesInv
  <1> SUFFICES ASSUME Init PROVE FilesInv
    OBVIOUS
  <1>1. Types
    BY DEF Init, Types, FilesTyped, States, Busy
  <1>2. BatchesDiffer
    BY DEF Init, BatchesDiffer, Busy
  <1>3. Tended
    BY DEF Init, Tended
  <1> QED BY <1>1, <1>2, <1>3 DEF FilesInv

LEMMA NextTypes ==
    ASSUME Types, [Next]_vars
    PROVE  Types'
  <1> USE DEF Types, States, Busy, FileNames, FileStates, GoOn, writerVars, historyVars
  <1>1. CASE Tick
    BY <1>1 DEF Tick, FilesTyped
  <1>2. ASSUME NEW w \in Writers, Begin(w) PROVE Types'
    BY <1>2 DEF Begin, FilesTyped
  <1>3. ASSUME NEW w \in Writers, Reserve(w) PROVE Types'
    <2>1. CASE Put(path[w], batch[w], "empty")
               /\ GoOn(w, "write") /\ UNCHANGED path
      <3>1. FilesTyped'
        BY <2>1, PutTyped
      <3> QED BY <1>3, <2>1, <3>1 DEF Reserve
    <2>2. CASE /\ path' = [path EXCEPT ![w].suffix = @ + 1]
               /\ UNCHANGED <<files, pc>>
      BY <1>3, <2>2 DEF Reserve, FilesTyped
    <2> QED BY <1>3, <2>1, <2>2 DEF Reserve
  <1>4. ASSUME NEW w \in Writers, ReserveFails(w) PROVE Types'
    BY <1>4 DEF ReserveFails, FilesTyped
  <1>5. ASSUME NEW w \in Writers, WriteOpen(w) PROVE Types'
    <2>1. FilesTyped'
      BY <1>5, PutTyped DEF WriteOpen
    <2> QED BY <1>5, <2>1 DEF WriteOpen
  <1>6. ASSUME NEW w \in Writers, WriteOk(w) PROVE Types'
    BY <1>6 DEF WriteOk, FilesTyped
  <1>7. ASSUME NEW w \in Writers, WriteFails(w) PROVE Types'
    BY <1>7 DEF WriteFails, Remove, FilesTyped
  <1>8. ASSUME NEW w \in Writers, Unlink(w) PROVE Types'
    BY <1>8 DEF Unlink, Remove, FilesTyped
  <1>9. ASSUME NEW w \in Writers, Crash(w) PROVE Types'
    BY <1>9 DEF Crash, FilesTyped
  <1>10. CASE UNCHANGED vars
    BY <1>10 DEF vars, FilesTyped
  <1> QED BY <1>1, <1>2, <1>3, <1>4, <1>5, <1>6, <1>7, <1>8, <1>9, <1>10 DEF Next

LEMMA NextBatches ==
    ASSUME FilesInv, [Next]_vars
    PROVE  BatchesDiffer'
  <1> USE DEF FilesInv, Types, BatchesDiffer, States, Busy, GoOn, writerVars, historyVars
  <1>1. CASE Tick
    BY <1>1 DEF Tick
  <1>2. ASSUME NEW w \in Writers, Begin(w) PROVE BatchesDiffer'
    BY <1>2 DEF Begin
  <1>3. ASSUME NEW w \in Writers, Reserve(w) PROVE BatchesDiffer'
    BY <1>3 DEF Reserve
  <1>4. ASSUME NEW w \in Writers, ReserveFails(w) PROVE BatchesDiffer'
    BY <1>4 DEF ReserveFails
  <1>5. ASSUME NEW w \in Writers, WriteOpen(w) PROVE BatchesDiffer'
    BY <1>5 DEF WriteOpen
  <1>6. ASSUME NEW w \in Writers, WriteOk(w) PROVE BatchesDiffer'
    BY <1>6 DEF WriteOk
  <1>7. ASSUME NEW w \in Writers, WriteFails(w) PROVE BatchesDiffer'
    BY <1>7 DEF WriteFails
  <1>8. ASSUME NEW w \in Writers, Unlink(w) PROVE BatchesDiffer'
    BY <1>8 DEF Unlink
  <1>9. ASSUME NEW w \in Writers, Crash(w) PROVE BatchesDiffer'
    BY <1>9 DEF Crash
  <1>10. CASE UNCHANGED vars
    BY <1>10 DEF vars
  <1> QED BY <1>1, <1>2, <1>3, <1>4, <1>5, <1>6, <1>7, <1>8, <1>9, <1>10 DEF Next

LEMMA NextTended ==
    ASSUME FilesInv, [Next]_vars
    PROVE  Tended'
  <1> USE DEF FilesInv, Types, BatchesDiffer, Tended, WorksOn, States, Busy, Working,
              GoOn, writerVars, historyVars
  <1>1. CASE Tick
    BY <1>1 DEF Tick
  <1>2. ASSUME NEW w \in Writers, Begin(w) PROVE Tended'
    BY <1>2 DEF Begin
  <1>3. ASSUME NEW w \in Writers, Reserve(w) PROVE Tended'
    <2>1. CASE Put(path[w], batch[w], "empty") /\ GoOn(w, "write") /\ UNCHANGED path
      <3>1. /\ DOMAIN files' = DOMAIN files \cup {path[w]}
            /\ files'[path[w]].batch = batch[w]
            /\ \A g \in DOMAIN files : g # path[w] => files'[g] = files[g]
        BY <2>1, FilePut
      <3>2. WorksOn(w, path[w])'
        BY <1>3, <2>1, <3>1 DEF Reserve
      <3>3. ASSUME NEW v \in Writers, NEW g, WorksOn(v, g), g # path[w], g \in DOMAIN files
            PROVE  WorksOn(v, g)'
        <4>1. v # w /\ files'[g] = files[g]
          BY <3>1, <3>3
        <4>2. pc'[v] = pc[v] /\ path'[v] = path[v] /\ batch'[v] = batch[v]
          BY <1>3, <2>1, <4>1 DEF Reserve
        <4> QED BY <3>3, <4>1, <4>2
      <3> QED BY <1>3, <3>1, <3>2, <3>3 DEF Reserve
    <2>2. CASE /\ path' = [path EXCEPT ![w].suffix = @ + 1]
               /\ UNCHANGED <<files, pc>>
      BY <1>3, <2>2 DEF Reserve
    <2> QED BY <1>3, <2>1, <2>2 DEF Reserve
  <1>4. ASSUME NEW w \in Writers, ReserveFails(w) PROVE Tended'
    BY <1>4 DEF ReserveFails
  <1>5. ASSUME NEW w \in Writers, WriteOpen(w) PROVE Tended'
    <2>1. /\ DOMAIN files' = DOMAIN files \cup {path[w]}
          /\ files'[path[w]].batch = batch[w]
          /\ \A g \in DOMAIN files : g # path[w] => files'[g] = files[g]
      BY <1>5, FilePut DEF WriteOpen
    <2>2. WorksOn(w, path[w])'
      BY <1>5, <2>1 DEF WriteOpen
    <2>3. ASSUME NEW v \in Writers, NEW g, WorksOn(v, g), g # path[w], g \in DOMAIN files
          PROVE  WorksOn(v, g)'
      <3>1. v # w /\ files'[g] = files[g]
        BY <2>1, <2>3
      <3>2. pc'[v] = pc[v] /\ path'[v] = path[v] /\ batch'[v] = batch[v]
        BY <1>5, <3>1 DEF WriteOpen
      <3> QED BY <2>3, <3>1, <3>2
    <2> QED BY <1>5, <2>1, <2>2, <2>3 DEF WriteOpen
  <1>6. ASSUME NEW w \in Writers, WriteOk(w) PROVE Tended'
    BY <1>6 DEF WriteOk, FilesTyped
  <1>7. ASSUME NEW w \in Writers, WriteFails(w) PROVE Tended'
    <2>1. /\ DOMAIN files' \subseteq DOMAIN files
          /\ \A g \in DOMAIN files' : files'[g] = files[g]
      BY <1>7 DEF WriteFails, Remove
    <2>2. ASSUME NEW v \in Writers, NEW g \in DOMAIN files', WorksOn(v, g)
          PROVE  WorksOn(v, g)'
      BY <1>7, <2>1, <2>2 DEF WriteFails
    <2> QED BY <1>7, <2>1, <2>2 DEF WriteFails
  <1>8. ASSUME NEW w \in Writers, Unlink(w) PROVE Tended'
    <2>1. /\ DOMAIN files' \subseteq DOMAIN files
          /\ \A g \in DOMAIN files' : files'[g] = files[g]
          /\ path[w] \in DOMAIN files' => path[w] \in leftovers'
          /\ leftovers \subseteq leftovers'
      BY <1>8 DEF Unlink, Remove
    <2>2. ASSUME NEW v \in Writers, NEW g \in DOMAIN files', WorksOn(v, g), g # path[w]
          PROVE  WorksOn(v, g)'
      BY <1>8, <2>1, <2>2 DEF Unlink
    <2> QED BY <1>8, <2>1, <2>2
  <1>9. ASSUME NEW w \in Writers, Crash(w) PROVE Tended'
    BY <1>9 DEF Crash
  <1>10. CASE UNCHANGED vars
    BY <1>10 DEF vars
  <1> QED BY <1>1, <1>2, <1>3, <1>4, <1>5, <1>6, <1>7, <1>8, <1>9, <1>10 DEF Next

LEMMA FilesInvariant == Spec => []FilesInv
  <1>1. FilesInv /\ [Next]_vars => FilesInv'
    BY NextTypes, NextBatches, NextTended DEF FilesInv
  <1> QED BY InitFiles, <1>1, PTL DEF Spec

\* A failed write leaves nothing behind that is not a whole file, but for what
\* a crash or a failed unlink() leaves (_flush_batch).
THEOREM NoneLinger == Spec => []NothingLingers
  <1>1. FilesInv => NothingLingers
    BY DEF FilesInv, Tended, WorksOn, NothingLingers, Working
  <1> QED BY FilesInvariant, <1>1, PTL
-------------------------------------------------------------------------------
LEMMA InitSeeds == Init => SeedsDrawn
  BY DEF Init, SeedsDrawn, Busy

LEMMA NextSeeds ==
    ASSUME FilesInv, SeedsDrawn, [Next]_vars
    PROVE  SeedsDrawn' /\ (Premise' => Premise)
  <1> USE DEF FilesInv, Types, SeedsDrawn, Premise, SeedsDiffer, FileNames, States,
              Busy, GoOn, writerVars, historyVars
  <1>1. CASE Tick
    BY <1>1 DEF Tick
  <1>2. ASSUME NEW w \in Writers, Begin(w) PROVE SeedsDrawn' /\ (Premise' => Premise)
    BY <1>2 DEF Begin
  <1>3. ASSUME NEW w \in Writers, Reserve(w) PROVE SeedsDrawn' /\ (Premise' => Premise)
    <2>1. UNCHANGED <<seed, seeds, library>>
      BY <1>3 DEF Reserve
    <2>2. path'[w].seed = path[w].seed /\ \A v \in Writers \ {w} : path'[v] = path[v]
      BY <1>3 DEF Reserve
    <2>3. \A v \in Writers : pc'[v] \in Busy => pc[v] \in Busy
      BY <1>3 DEF Reserve
    <2> QED BY <2>1, <2>2, <2>3
  <1>4. ASSUME NEW w \in Writers, ReserveFails(w)
        PROVE  SeedsDrawn' /\ (Premise' => Premise)
    BY <1>4 DEF ReserveFails
  <1>5. ASSUME NEW w \in Writers, WriteOpen(w) PROVE SeedsDrawn' /\ (Premise' => Premise)
    BY <1>5 DEF WriteOpen
  <1>6. ASSUME NEW w \in Writers, WriteOk(w) PROVE SeedsDrawn' /\ (Premise' => Premise)
    BY <1>6 DEF WriteOk
  <1>7. ASSUME NEW w \in Writers, WriteFails(w) PROVE SeedsDrawn' /\ (Premise' => Premise)
    BY <1>7 DEF WriteFails
  <1>8. ASSUME NEW w \in Writers, Unlink(w) PROVE SeedsDrawn' /\ (Premise' => Premise)
    BY <1>8 DEF Unlink
  <1>9. ASSUME NEW w \in Writers, Crash(w) PROVE SeedsDrawn' /\ (Premise' => Premise)
    BY <1>9 DEF Crash
  <1>10. CASE UNCHANGED vars
    BY <1>10 DEF vars
  <1> QED BY <1>1, <1>2, <1>3, <1>4, <1>5, <1>6, <1>7, <1>8, <1>9, <1>10 DEF Next

\* Writers with different seeds are never busy with the same path.
LEMMA PathsDiffer ==
    ASSUME SeedsDrawn, SeedsDiffer, NEW w \in Writers, NEW v \in Writers,
           pc[w] \in Busy, pc[v] \in Busy, path[w] = path[v]
    PROVE  w = v
  <1>1. seed[w] = seed[v]
    BY DEF SeedsDrawn
  <1>2. PICK a : <<seed[w], w, a>> \in seeds
    BY DEF SeedsDrawn
  <1>3. PICK b : <<seed[v], v, b>> \in seeds
    BY DEF SeedsDrawn
  <1> QED BY <1>1, <1>2, <1>3 DEF SeedsDiffer

LEMMA InitKept == Init => (Premise => OwnFile /\ Kept)
  BY DEF Init, OwnFile, HasFile, Kept

\* A file of a batch written is in nobody's hands.
LEMMA KeptUntouched ==
    ASSUME FilesInv, OwnFile, NEW w \in Writers, pc[w] \in Busy, HasFile(w),
           NEW b \in written, NEW f \in DOMAIN files,
           files[f] = [batch |-> b, state |-> "whole"]
    PROVE  f # path[w]
  BY DEF FilesInv, BatchesDiffer, OwnFile

\* A step leaves each working writer its file, and the batches written theirs.
LEMMA NextKept ==
    ASSUME FilesInv, SeedsDrawn, Premise, OwnFile, Kept, [Next]_vars
    PROVE  OwnFile' /\ Kept'
  <1> USE DEF FilesInv, Types, States, Busy, GoOn, writerVars, historyVars
  <1>1. CASE Tick
    BY <1>1 DEF Tick, OwnFile, HasFile, Kept
  <1>2. ASSUME NEW w \in Writers, Begin(w) PROVE OwnFile' /\ Kept'
    BY <1>2 DEF Begin, OwnFile, HasFile, Kept
  <1>3. ASSUME NEW w \in Writers, Reserve(w) PROVE OwnFile' /\ Kept'
    <2>1. CASE /\ path[w] \notin DOMAIN files
               /\ Put(path[w], batch[w], "empty") /\ GoOn(w, "write") /\ UNCHANGED path
      <3>1. /\ DOMAIN files' = DOMAIN files \cup {path[w]}
            /\ files'[path[w]].batch = batch[w]
            /\ \A g \in DOMAIN files : files'[g] = files[g]
        BY <2>1, FilePut
      <3>2. Kept'
        BY <1>3, <3>1 DEF Reserve, Kept
      <3>3. ASSUME NEW v \in Writers, HasFile(v)'
            PROVE  path'[v] \in DOMAIN files' /\ files'[path'[v]].batch = batch'[v]
        <4>1. CASE v = w
          BY <1>3, <2>1, <3>1, <4>1 DEF Reserve
        <4>2. CASE v # w /\ path[v] \in DOMAIN files
          BY <1>3, <2>1, <3>1, <3>3, <4>2 DEF Reserve, OwnFile, HasFile
        <4>3. CASE v # w /\ path[v] \notin DOMAIN files
          <5>1. pc[v] \in Busy /\ ~HasFile(v) /\ library # "leaves"
            BY <1>3, <3>3, <4>3 DEF Reserve, OwnFile, HasFile
          <5>2. path[v] = path[w]
            BY <1>3, <3>1, <3>3, <4>3, <5>1 DEF Reserve, HasFile
          <5> QED BY <1>3, <4>3, <5>1, <5>2, PathsDiffer DEF Premise, Reserve
        <4> QED BY <4>1, <4>2, <4>3
      <3> QED BY <3>2, <3>3 DEF OwnFile
    <2>2. CASE /\ path' = [path EXCEPT ![w].suffix = @ + 1]
               /\ UNCHANGED <<files, pc>>
      BY <1>3, <2>2 DEF Reserve, OwnFile, HasFile, Kept
    <2> QED BY <1>3, <2>1, <2>2 DEF Reserve
  <1>4. ASSUME NEW w \in Writers, ReserveFails(w) PROVE OwnFile' /\ Kept'
    BY <1>4 DEF ReserveFails, OwnFile, HasFile, Kept
  <1>5. ASSUME NEW w \in Writers, WriteOpen(w) PROVE OwnFile' /\ Kept'
    <2>1. path[w] \in DOMAIN files /\ files[path[w]].batch = batch[w]
      BY <1>5 DEF WriteOpen, OwnFile, HasFile
    <2>2. /\ DOMAIN files' = DOMAIN files
          /\ files'[path[w]].batch = batch[w]
          /\ \A g \in DOMAIN files : g # path[w] => files'[g] = files[g]
      BY <1>5, <2>1, FilePut DEF WriteOpen
    <2>3. Kept'
      BY <1>5, <2>2, KeptUntouched DEF WriteOpen, Kept, HasFile
    <2>4. \A g \in DOMAIN files : files'[g].batch = files[g].batch
      BY <2>1, <2>2
    <2>5. OwnFile'
      BY <1>5, <2>2, <2>4 DEF WriteOpen, OwnFile, HasFile
    <2> QED BY <2>3, <2>5
  <1>6. ASSUME NEW w \in Writers, WriteOk(w) PROVE OwnFile' /\ Kept'
    <2>1. path[w] \in DOMAIN files /\ files[path[w]].batch = batch[w]
      BY <1>6 DEF WriteOk, OwnFile, HasFile
    <2>2. /\ DOMAIN files' = DOMAIN files
          /\ files'[path[w]] = [batch |-> batch[w], state |-> "whole"]
          /\ \A g \in DOMAIN files : g # path[w] => files'[g] = files[g]
      BY <1>6, <2>1 DEF WriteOk, FilesTyped
    <2>3. Kept'
      BY <1>6, <2>1, <2>2, KeptUntouched DEF WriteOk, Kept, HasFile
    <2>4. OwnFile'
      BY <1>6, <2>1, <2>2 DEF WriteOk, OwnFile, HasFile
    <2> QED BY <2>3, <2>4
  <1>7. ASSUME NEW w \in Writers, WriteFails(w) PROVE OwnFile' /\ Kept'
    <2>1. CASE library = "removes" /\ Remove(path[w])
      <3>1. /\ DOMAIN files' = DOMAIN files \ {path[w]}
            /\ \A g \in DOMAIN files' : files'[g] = files[g]
        BY <2>1 DEF Remove
      <3>2. Kept'
        BY <1>7, <3>1, KeptUntouched DEF WriteFails, Kept, HasFile
      <3>3. ASSUME NEW v \in Writers, HasFile(v)'
            PROVE  path'[v] \in DOMAIN files' /\ files'[path'[v]].batch = batch'[v]
        <4>1. v # w
          BY <1>7, <2>1, <3>1, <3>3 DEF WriteFails, HasFile
        <4>2. pc[v] \in Busy /\ HasFile(v)
          BY <1>7, <3>1, <3>3, <4>1 DEF WriteFails, HasFile
        <4>3. path[v] # path[w]
          BY <1>7, <2>1, <4>1, <4>2, PathsDiffer DEF WriteFails, Premise
        <4> QED BY <1>7, <3>1, <4>2, <4>3 DEF WriteFails, OwnFile
      <3> QED BY <3>2, <3>3 DEF OwnFile
    <2>2. CASE library = "leaves" /\ UNCHANGED files
      BY <1>7, <2>2 DEF WriteFails, OwnFile, HasFile, Kept
    <2> QED BY <1>7, <2>1, <2>2 DEF WriteFails
  <1>8. ASSUME NEW w \in Writers, Unlink(w) PROVE OwnFile' /\ Kept'
    <2>1. CASE Remove(path[w])
      <3>1. /\ DOMAIN files' = DOMAIN files \ {path[w]}
            /\ \A g \in DOMAIN files' : files'[g] = files[g]
        BY <2>1 DEF Remove
      <3>2. path[w] \in DOMAIN files => HasFile(w)
        BY <1>8 DEF Unlink, HasFile
      <3>3. Kept'
        BY <1>8, <3>1, <3>2, KeptUntouched DEF Unlink, Kept
      <3>4. ASSUME NEW v \in Writers, HasFile(v)'
            PROVE  path'[v] \in DOMAIN files' /\ files'[path'[v]].batch = batch'[v]
        <4>1. v # w /\ pc[v] \in Busy /\ HasFile(v)
          BY <1>8, <3>1, <3>4 DEF Unlink, HasFile
        <4>2. path[v] # path[w]
          <5>1. CASE path[w] \in DOMAIN files
            BY <1>8, <3>2, <4>1, <5>1 DEF Unlink, OwnFile, BatchesDiffer
          <5>2. CASE path[w] \notin DOMAIN files
            BY <4>1, <5>2 DEF OwnFile
          <5> QED BY <5>1, <5>2
        <4> QED BY <1>8, <3>1, <4>1, <4>2 DEF Unlink, OwnFile
      <3> QED BY <3>3, <3>4 DEF OwnFile
    <2>2. CASE UNCHANGED files
      BY <1>8, <2>2 DEF Unlink, OwnFile, HasFile, Kept
    <2> QED BY <1>8, <2>1, <2>2 DEF Unlink
  <1>9. ASSUME NEW w \in Writers, Crash(w) PROVE OwnFile' /\ Kept'
    BY <1>9 DEF Crash, OwnFile, HasFile, Kept
  <1>10. CASE UNCHANGED vars
    BY <1>10 DEF vars, OwnFile, HasFile, Kept
  <1> QED BY <1>1, <1>2, <1>3, <1>4, <1>5, <1>6, <1>7, <1>8, <1>9, <1>10 DEF Next

\* No batch that was written is lost to another exporter, to one that cleans up
\* after a failed write, or to a restart (_next_output_path, _flush_batch).
THEOREM NoneOverwritten == Spec => []WrittenStays
  <1> DEFINE Inv == FilesInv /\ KeptInv
  <1>1. Init => Inv
    BY InitFiles, InitSeeds, InitKept DEF KeptInv
  <1>2. Inv /\ [Next]_vars => Inv'
    <2> SUFFICES ASSUME Inv, [Next]_vars PROVE Inv'
      OBVIOUS
    <2>1. FilesInv'
      BY NextTypes, NextBatches, NextTended DEF FilesInv
    <2>2. SeedsDrawn' /\ (Premise' => Premise)
      BY NextSeeds DEF KeptInv
    <2>3. Premise' => (OwnFile /\ Kept)'
      BY <2>2, NextKept DEF KeptInv
    <2> QED BY <2>1, <2>2, <2>3 DEF KeptInv
  <1>3. Inv => WrittenStays
    BY DEF KeptInv, Premise, Kept, WrittenStays
  <1> QED BY <1>1, <1>2, <1>3, PTL DEF Spec
===============================================================================
