----------------------------- MODULE FileStorage ----------------------------
(***************************************************************************)
(* FileStorage of internal/storage: SaveStats writes the snapshot to a     *)
(* temporary file next to the target and renames it into place, one file   *)
(* system call after the other.  The temporary file has one fixed name, so *)
(* two saves that overlap share it.  A crash of the process ends every     *)
(* save where it is; the files stay.                                       *)
(*                                                                         *)
(* A name refers to a file object (an inode), and an open descriptor keeps *)
(* referring to its object after a rename.                                 *)
(***************************************************************************)
EXTENDS Naturals, FiniteSets

CONSTANTS Savers,        \* the goroutines that may call SaveStats
          Files,         \* file objects, more than names and descriptors
          NoFile,        \* a name that refers to nothing
          MaxSnapshot    \* bound: how many snapshots are saved

ASSUME StorageAssumption == /\ Cardinality(Files) >= Cardinality(Savers) + 2
                            /\ NoFile \notin Files
                            /\ MaxSnapshot \in Nat

\* Snapshots are numbered in the order they were taken.  Empty stands for a
\* file that was truncated and not yet written, Torn for the remains of two
\* writes or of half a write.
Torn == MaxSnapshot + 1
Empty == 0
Snapshots == 1 .. MaxSnapshot
Contents == Snapshots \cup {Empty, Torn}

VARIABLES target,    \* the file object named stats.json
          tmp,       \* the file object named stats.json.tmp
          content,   \* what each file object holds
          pc,        \* where each saver is in SaveStats
          data,      \* the snapshot each saver saves
          fd,        \* the file object each saver has open
          taken      \* the number of snapshots taken so far

vars == <<target, tmp, content, pc, data, fd, taken>>

Init == /\ target = NoFile /\ tmp = NoFile
        /\ content = [f \in Files |-> Empty]
        /\ pc = [s \in Savers |-> "idle"]
        /\ data = [s \in Savers |-> 0]
        /\ fd = [s \in Savers |-> NoFile]
        /\ taken = 0

InUse == {target, tmp} \cup {fd[s] : s \in Savers}

\* SaveStats returns, with an error or without.
Leave(s) == /\ pc' = [pc EXCEPT ![s] = "idle"]
            /\ data' = [data EXCEPT ![s] = 0]
            /\ fd' = [fd EXCEPT ![s] = NoFile]

\* The caller marshals the stats and calls SaveStats.
Begin(s) == /\ pc[s] = "idle" /\ taken < MaxSnapshot
            /\ taken' = taken + 1
            /\ data' = [data EXCEPT ![s] = taken + 1]
            /\ pc' = [pc EXCEPT ![s] = "open"]
            /\ UNCHANGED <<target, tmp, content, fd>>

\* Mutated form: the snapshot is written over the target itself.
Open_InPlace(s) ==
  /\ pc[s] = "open"
  /\ \E f \in Files : /\ IF target = NoFile THEN f \notin InUse ELSE f = target
                      /\ target' = f
                      /\ fd' = [fd EXCEPT ![s] = f]
                      /\ content' = [content EXCEPT ![f] = Empty]
  /\ pc' = [pc EXCEPT ![s] = "write"]
  /\ UNCHANGED <<tmp, data, taken>>

\* Mutated form: the descriptor is closed before the write.
Open_Closed(s) == /\ pc[s] = "open"
                  /\ \E f \in Files : /\ IF tmp = NoFile THEN f \notin InUse ELSE f = tmp
                                      /\ tmp' = f
                                      /\ content' = [content EXCEPT ![f] = Empty]
                  /\ pc' = [pc EXCEPT ![s] = "write"]
                  /\ UNCHANGED <<target, fd, data, taken>>

\* os.WriteFile: open with O_CREATE and O_TRUNC.
Open(s) == /\ pc[s] = "open"
           /\ \E f \in Files : /\ IF tmp = NoFile THEN f \notin InUse ELSE f = tmp
                               /\ tmp' = f
                               /\ fd' = [fd EXCEPT ![s] = f]
                               /\ content' = [content EXCEPT ![f] = Empty]
           /\ pc' = [pc EXCEPT ![s] = "write"]
           /\ UNCHANGED <<target, data, taken>>

OpenFails(s) == /\ pc[s] = "open"
                /\ Leave(s)
                /\ UNCHANGED <<target, tmp, content, taken>>

\* os.WriteFile: write from offset 0.  Over what another descriptor has
\* written meanwhile the shorter text leaves the longer one's tail behind.
Write(s) == /\ pc[s] = "write"
            /\ \E c \in {data[s]} \cup (IF content[fd[s]] = Empty THEN {} ELSE {Torn}) :
                 content' = [content EXCEPT ![fd[s]] = c]
            /\ pc' = [pc EXCEPT ![s] = "rename"]
            /\ UNCHANGED <<target, tmp, data, fd, taken>>

\* Mutated form: the error of the write is ignored.
WriteFails_Ignored(s) == /\ pc[s] = "write"
                         /\ content' = [content EXCEPT ![fd[s]] = Torn]
                         /\ pc' = [pc EXCEPT ![s] = "rename"]
                         /\ UNCHANGED <<target, tmp, data, fd, taken>>

\* A short write: SaveStats returns the error and leaves the file.
WriteFails(s) == /\ pc[s] = "write"
                 /\ content' = [content EXCEPT ![fd[s]] = Torn]
                 /\ Leave(s)
                 /\ UNCHANGED <<target, tmp, taken>>

Rename(s) == /\ pc[s] = "rename"
             /\ tmp # NoFile
             /\ target' = tmp /\ tmp' = NoFile
             /\ Leave(s)
             /\ UNCHANGED <<content, taken>>

\* The temporary name is gone, or the directory refuses.
RenameFails(s) == /\ pc[s] = "rename"
                  /\ pc' = [pc EXCEPT ![s] = "remove"]
                  /\ UNCHANGED <<target, tmp, content, data, fd, taken>>

\* The clean-up takes the temporary name, whoever made it, or fails.
RemoveTmp(s) == /\ pc[s] = "remove"
                /\ tmp' \in {NoFile, tmp}
                /\ Leave(s)
                /\ UNCHANGED <<target, content, taken>>

\* The process dies and is started again.
Crash == /\ pc' = [s \in Savers |-> "idle"]
         /\ data' = [s \in Savers |-> 0]
         /\ fd' = [s \in Savers |-> NoFile]
         /\ UNCHANGED <<target, tmp, content, taken>>

Next == Crash \/ \E s \in Savers :
          \/ Begin(s) \/ Open(s) \/ OpenFails(s) \/ Write(s) \/ WriteFails(s)
          \/ Rename(s) \/ RenameFails(s) \/ RemoveTmp(s)

Spec == Init /\ [][Next]_vars

\* LoadStats: no file counts as empty statistics, a file that does not parse
\* is an error.
Loaded == IF target = NoFile THEN 0 ELSE content[target]

-----------------------------------------------------------------------------
(* Properties.                                                             *)

TypeOK == /\ target \in Files \cup {NoFile} /\ tmp \in Files \cup {NoFile}
          /\ content \in [Files -> Contents]
          /\ pc \in [Savers -> {"idle", "open", "write", "rename", "remove"}]
          /\ data \in [Savers -> 0 .. MaxSnapshot]
          /\ fd \in [Savers -> Files \cup {NoFile}]
          /\ taken \in 0 .. MaxSnapshot
          /\ \A s \in Savers : pc[s] \in {"write", "rename"} => fd[s] # NoFile

\* storage.go:32 promises that SaveStats persists "atomically": whenever the
\* process stops, LoadStats finds no file or one complete snapshot.
FileWhole == target # NoFile => content[target] \in Snapshots

\* A snapshot never replaces a newer one.
NeverOlder == [][Loaded' >= Loaded]_vars

\* Statistics that were saved once can always be loaded again: neither a
\* failed save nor its clean-up takes the target away.
NeverVanishes == [][target # NoFile => target' # NoFile]_vars

\* One save at a time is what the storage interface promises.
Store == INSTANCE AtomicStore WITH Nothing <- 0, stored <- Loaded, saving <- data
StoreSpec == Store!Spec
=============================================================================
