------------------------------- MODULE OutputFiles -----------------------------
(***************************************************************************)
(* The files of the Parquet exporters that share an output directory:      *)
(* _next_output_path and the writing part of _flush_batch of               *)
(* parquet_export.py, with exporters that run next to each other, in one   *)
(* batch mode, crash and are started again, and calls that fail.           *)
(*                                                                         *)
(* A batch is a number.  What a writer does between two looks at the       *)
(* directory is a step.                                                    *)
(***************************************************************************)
EXTENDS Integers

CONSTANTS
    Writers,            \* the exporters
    Seeds,              \* what os.urandom(2) may return
    Seconds,            \* bound: the times that a file name can carry
    MaxBatches,         \* bound: batches written in all
    MaxCrashes          \* bound: exporters that crash

ASSUME OutputFilesAssumption ==
    /\ Seeds # {}
    /\ Seconds \in Nat \ {0}
    /\ {MaxBatches, MaxCrashes} \subseteq Nat

VARIABLES
    second,             \* the clock, in the resolution of a file name
    files,              \* the directory: a batch and a state for each name
    pc,                 \* "idle", "reserve", "write", "writing", "cleanup", "failed"
    counter, seed,      \* _file_counter, _process_seed
    path,               \* the candidate, or the path reserved
    batch,              \* the batch that the writer is busy with
    library,            \* does write_table remove a file that it could not
                        \* write ("removes"), or not ("leaves")?
    \* history
    batches,            \* batches begun
    written,            \* batches that write_table has written
    leftovers,          \* names that a crash or a failed unlink has left behind
    seeds,              \* all the seeds drawn, with the writer and its life
    crashes

writerVars  == <<pc, counter, seed, path, batch>>
historyVars == <<batches, written, leftovers, seeds, crashes>>
vars == <<second, files, writerVars, library, historyVars>>

NoPath == <<>>

Init ==
    /\ second = 1
    /\ files = <<>>
    /\ pc = [w \in Writers |-> "idle"]
    /\ counter = [w \in Writers |-> 0]
    /\ seed \in [Writers -> Seeds]
    /\ path = [w \in Writers |-> NoPath]
    /\ batch = [w \in Writers |-> 0]
    /\ library \in {"removes", "leaves"}
    /\ batches = 0
    /\ written = {}
    /\ leftovers = {}
    /\ seeds = {<<seed[w], w, 0>> : w \in Writers}
    /\ crashes = 0

GoOn(w, next) == pc' = [pc EXCEPT ![w] = next]

Put(name, number, state) ==
    files' = [f \in DOMAIN files \cup {name} |->
                IF f = name THEN [batch |-> number, state |-> state] ELSE files[f]]

Remove(name) == files' = [f \in DOMAIN files \ {name} |-> files[f]]

\* Time, which does not have to go on with the files.
Tick ==
    /\ second < Seconds
    /\ second' = second + 1
    /\ UNCHANGED <<files, writerVars, library, historyVars>>

\* The base of the name: time, counter and seed; no suffix yet (0).
Begin(w) ==
    /\ pc[w] = "idle"
    /\ batches < MaxBatches
    /\ batches' = batches + 1
    /\ batch' = [batch EXCEPT ![w] = batches']
    /\ counter' = [counter EXCEPT ![w] = @ + 1]
    /\ path' = [path EXCEPT ![w] =
                    [second |-> second, counter |-> counter'[w],
                     seed |-> seed[w], suffix |-> 0]]
    /\ GoOn(w, "reserve")
    /\ UNCHANGED <<second, files, seed, library, written, leftovers, seeds, crashes>>

\* Mutation: the file is opened with "w".
ReserveOverwriting(w) ==
    /\ pc[w] = "reserve"
    /\ Put(path[w], batch[w], "empty")
    /\ GoOn(w, "write")
    /\ UNCHANGED <<second, counter, seed, path, batch, library, historyVars>>

\* open("x") makes the file, or says that it exists: the next suffix is tried.
Reserve(w) ==
    /\ pc[w] = "reserve"
    /\ \/ /\ path[w] \notin DOMAIN files
          /\ Put(path[w], batch[w], "empty")
          /\ GoOn(w, "write")
          /\ UNCHANGED path
       \/ /\ path[w] \in DOMAIN files
          /\ path' = [path EXCEPT ![w].suffix = @ + 1]
          /\ UNCHANGED <<files, pc>>
    /\ UNCHANGED <<second, counter, seed, batch, library, historyVars>>

\* open("x") raises another error: the health error, and no file.
ReserveFails(w) ==
    /\ pc[w] = "reserve"
    /\ GoOn(w, "failed")
    /\ UNCHANGED <<second, files, counter, seed, path, batch, library, historyVars>>

\* write_table opens the path, whatever is there by now, and truncates it.
WriteOpen(w) ==
    /\ pc[w] = "write"
    /\ Put(path[w], batch[w], "partial")
    /\ GoOn(w, "writing")
    /\ UNCHANGED <<second, counter, seed, path, batch, library, historyVars>>

\* write_table returns.  The name may have gone, or may be another file's.
WriteOk(w) ==
    /\ pc[w] = "writing"
    /\ files' = [f \in DOMAIN files |->
                    IF f = path[w] /\ files[f].batch = batch[w]
                    THEN [files[f] EXCEPT !.state = "whole"] ELSE files[f]]
    /\ written' = written \cup {batch[w]}
    /\ GoOn(w, "idle")
    /\ UNCHANGED <<second, counter, seed, path, batch, library, batches, leftovers,
                   seeds, crashes>>

\* write_table raises.
WriteFails(w) ==
    /\ pc[w] \in {"write", "writing"}
    /\ \/ library = "removes" /\ Remove(path[w])
       \/ library = "leaves" /\ UNCHANGED files
    /\ GoOn(w, "cleanup")
    /\ UNCHANGED <<second, counter, seed, path, batch, library, historyVars>>

\* Mutation: the reserved file is not removed.
UnlinkForgotten(w) ==
    /\ pc[w] = "cleanup"
    /\ GoOn(w, "failed")
    /\ UNCHANGED <<second, files, counter, seed, path, batch, library, historyVars>>

\* unlink(missing_ok=True), whose OSError is ignored.  With the health error
\* set nothing is collected any more: this writer has nothing left to flush.
Unlink(w) ==
    /\ pc[w] = "cleanup"
    /\ \/ Remove(path[w]) /\ UNCHANGED leftovers
       \/ leftovers' = leftovers \cup {path[w]} /\ UNCHANGED files
    /\ GoOn(w, "failed")
    /\ UNCHANGED <<second, counter, seed, path, batch, library, batches, written,
                   seeds, crashes>>

\* The consumer's process ends at any point, and is started again.
Crash(w) ==
    /\ crashes < MaxCrashes
    /\ crashes' = crashes + 1
    /\ leftovers' = IF pc[w] \in {"write", "writing", "cleanup"}
                    THEN leftovers \cup {path[w]} ELSE leftovers
    /\ GoOn(w, "idle")
    /\ counter' = [counter EXCEPT ![w] = 0]
    /\ \E s \in Seeds : /\ seed' = [seed EXCEPT ![w] = s]
                        /\ seeds' = seeds \cup {<<s, w, crashes'>>}
    /\ path' = [path EXCEPT ![w] = NoPath]
    /\ batch' = [batch EXCEPT ![w] = 0]
    /\ UNCHANGED <<second, files, library, batches, written>>

Next ==
    \/ Tick
    \/ \E w \in Writers :
          \/ Begin(w) \/ Reserve(w) \/ ReserveFails(w) \/ WriteOpen(w) \/ WriteOk(w)
          \/ WriteFails(w) \/ Unlink(w) \/ Crash(w)

Spec == Init /\ [][Next]_vars
-------------------------------------------------------------------------------
(***************************************************************************)
(* Properties.                                                             *)
(***************************************************************************)

SeedsDiffer == \A a, b \in seeds : a[1] = b[1] => a = b

\* No batch that was written is ever lost to another, whole or in part: not to
\* an exporter with the same counter in the same second, to one that cleans up
\* after a failure, or to a restart; and not to one with the same seed either,
\* unless the library removes the file of a failed write before unlink() does.
WrittenStays ==
    library = "leaves" \/ SeedsDiffer =>
        \A b \in written : \E f \in DOMAIN files :
            files[f] = [batch |-> b, state |-> "whole"]

\* What is not a whole file is being written, or was left by a crash or by an
\* unlink that failed: a failed write leaves no empty artifact on disk.
NothingLingers ==
    \A f \in DOMAIN files :
        \/ files[f].state = "whole"
        \/ f \in leftovers
        \/ \E w \in Writers : path[w] = f /\ pc[w] \in {"write", "writing", "cleanup"}
===============================================================================
