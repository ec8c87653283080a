------------------------- MODULE FileStorage_proofs -------------------------
(***************************************************************************)
(* One saver, for any number of snapshots, failures and crashes: the file  *)
(* holds a complete snapshot or does not exist, it never goes back, and    *)
(* SaveStats implements the atomic store.  Two savers break the first (run *)
(* file_torn); that a saved file never vanishes holds for any number.      *)
(*                                                                         *)
(* FileWhole is not inductive: it says nothing of the temporary file that  *)
(* a rename makes the target.  The invariant adds that the saver writes    *)
(* where the temporary name points, which is never the target, and that    *)
(* the temporary file is complete before it is renamed.                    *)
(***************************************************************************)
EXTENDS FileStorage, TLAPS

Types == /\ target \in Files \cup {NoFile} /\ tmp \in Files \cup {NoFile}
         /\ content \in [Files -> Contents]
         /\ pc \in [Savers -> {"idle", "open", "write", "rename", "remove"}]
         /\ data \in [Savers -> 0 .. MaxSnapshot]
         /\ fd \in [Savers -> Files \cup {NoFile}]
         /\ taken \in 0 .. MaxSnapshot

\* The temporary name never points to the target.
Apart == tmp # NoFile => tmp # target

\* What a saver saves is the newest snapshot, which is not older than what
\* the target holds.
Newest == /\ \A s \in Savers : data[s] = IF pc[s] = "idle" THEN 0 ELSE taken
          /\ Loaded <= taken

\* The descriptor of a saver: fresh until it has written, complete after.
Descriptor(s) ==
  /\ pc[s] \in {"write", "rename"} => fd[s] = tmp /\ tmp # NoFile
  /\ pc[s] = "write" => content[tmp] = Empty
  /\ pc[s] = "rename" => content[tmp] = data[s]
  /\ pc[s] # "idle" => taken # 0

IInv == Types /\ Apart /\ FileWhole /\ Newest /\ \A s \in Savers : Descriptor(s)

Alone == \E s : Savers = {s}

LEMMA InitIInv == Init => IInv
BY StorageAssumption DEF Init, IInv, Types, Apart, FileWhole, Newest, Loaded,
                         Descriptor, Contents, Empty

\* One saver keeps the invariant, whatever fails.
LEMMA StepIInv ==
  ASSUME Alone, IInv, Next
  PROVE  IInv'
<1> PICK s : Savers = {s}
  BY DEF Alone
<1> USE StorageAssumption DEF IInv, Types, Apart, Newest, FileWhole, Descriptor, Loaded,
                              Contents, Snapshots, Torn, Empty
<1>1. CASE Crash
  BY <1>1 DEF Crash
<1>2. CASE Begin(s)
  BY <1>2 DEF Begin
<1>3. CASE Open(s)
  <2> PICK f \in Files : /\ IF tmp = NoFile THEN f \notin InUse ELSE f = tmp
                         /\ tmp' = f
                         /\ fd' = [fd EXCEPT ![s] = f]
                         /\ content' = [content EXCEPT ![f] = Empty]
    BY <1>3 DEF Open
  <2>1. f # target
    BY DEF InUse
  <2>2. Types'
    BY <1>3 DEF Open
  <2>3. target # NoFile => content'[target] = content[target]
    BY <2>1
  <2> QED
    BY <1>3, <2>1, <2>2, <2>3 DEF Open
<1>4. CASE OpenFails(s)
  BY <1>4 DEF OpenFails, Leave
<1>5. CASE Write(s)
  <2>0. fd[s] = tmp /\ content[fd[s]] = Empty /\ data[s] = taken /\ taken # 0
    BY <1>5 DEF Write
  <2>b. content' = [content EXCEPT ![fd[s]] = data[s]]
    BY <1>5, <2>0 DEF Write
  <2>1. content' = [content EXCEPT ![tmp] = data[s]] /\ data[s] \in 1 .. MaxSnapshot
    BY <2>0, <2>b
  <2>2. target # NoFile => content'[target] = content[target]
    BY <2>1, <1>5 DEF Write
  <2> QED
    BY <1>5, <2>1, <2>2 DEF Write
<1>6. CASE WriteFails(s)
  <2>1. target # NoFile => content'[target] = content[target]
    BY <1>6 DEF WriteFails
  <2>2. Types'
    BY <1>6 DEF WriteFails, Leave
  <2> QED
    BY <1>6, <2>1, <2>2 DEF WriteFails, Leave
<1>7. CASE Rename(s)
  BY <1>7 DEF Rename, Leave
<1>8. CASE RenameFails(s)
  BY <1>8 DEF RenameFails
<1>9. CASE RemoveTmp(s)
  BY <1>9 DEF RemoveTmp, Leave
<1> QED
  BY <1>1, <1>2, <1>3, <1>4, <1>5, <1>6, <1>7, <1>8, <1>9 DEF Next

\* The invariant of one saver.
THEOREM OneSaver == ASSUME Alone PROVE Spec => []IInv
<1>1. IInv /\ [Next]_vars => IInv'
  <2> SUFFICES ASSUME IInv, [Next]_vars PROVE IInv'
    OBVIOUS
  <2>1. CASE Next
    BY <2>1, StepIInv
  <2>2. CASE UNCHANGED vars
    BY <2>2 DEF vars, IInv, Types, Apart, FileWhole, Newest, Loaded, Descriptor
  <2> QED
    BY <2>1, <2>2
<1> QED
  BY InitIInv, <1>1, PTL DEF Spec

\* Whenever the process stops, LoadStats finds no file or one whole snapshot.
THEOREM FileKeptWhole == ASSUME Alone PROVE Spec => []FileWhole
<1>1. IInv => FileWhole
  BY DEF IInv
<1> QED
  BY <1>1, OneSaver, PTL

\* The saver has a file open from the open to the rename: every variable has
\* its type.
THEOREM FileTypes == ASSUME Alone PROVE Spec => []TypeOK
<1>1. IInv => TypeOK
  BY StorageAssumption DEF IInv, Types, TypeOK, Descriptor
<1> QED
  BY <1>1, OneSaver, PTL

\* What is loaded changes when the saver renames, to the newest snapshot.
LEMMA LoadedSteps ==
  ASSUME Alone, IInv, Next
  PROVE  \/ Loaded' = Loaded
         \/ \E s \in Savers : Rename(s) /\ Loaded' = data[s] /\ Loaded' = taken
<1> PICK s : Savers = {s}
  BY DEF Alone
<1> USE StorageAssumption DEF IInv, Types, Apart, Newest, FileWhole, Descriptor, Loaded
<1>1. CASE Rename(s)
  BY <1>1 DEF Rename
<1>2. CASE ~Rename(s)
  <2>1. target' = target
    BY <1>2 DEF Next, Crash, Begin, Open, OpenFails, Write, WriteFails, RenameFails, RemoveTmp
  <2>2. target # NoFile => content'[target] = content[target]
    <3>1. CASE Open(s)
      BY <3>1 DEF Open, InUse
    <3>2. CASE Write(s)
      BY <3>2 DEF Write
    <3>3. CASE WriteFails(s)
      BY <3>3 DEF WriteFails
    <3>4. CASE UNCHANGED content
      BY <3>4
    <3> QED
      BY <1>2, <3>1, <3>2, <3>3, <3>4
      DEF Next, Crash, Begin, OpenFails, RenameFails, RemoveTmp
  <2> QED
    BY <2>1, <2>2
<1> QED
  BY <1>1, <1>2

\* A load never returns older statistics than a load before it.
THEOREM FileNeverOlder == ASSUME Alone PROVE Spec => NeverOlder
<1>1. IInv /\ IInv' /\ [Next]_vars => [Loaded' >= Loaded]_vars
  <2> SUFFICES ASSUME IInv, IInv', Next PROVE Loaded' >= Loaded
    OBVIOUS
  <2>1. Loaded \in Nat /\ taken \in Nat /\ Loaded <= taken
    BY StorageAssumption
    DEF IInv, Types, Newest, FileWhole, Loaded, Snapshots
  <2> QED
    BY <2>1, LoadedSteps
<1> QED
  BY OneSaver, <1>1, PTL DEF Spec, NeverOlder

\* SaveStats, call by call, implements the store that saves as a whole or not
\* at all: a rename is its commit, any failure an abort.
THEOREM FileImplementsStore == ASSUME Alone PROVE Spec => StoreSpec
<1> USE DEF StoreSpec, Store!Spec, Store!Init, Store!Next, Store!storeVars
<1>1. Init => Store!Init
  BY DEF Init, Loaded
<1>2. IInv /\ [Next]_vars => [Store!Next]_(Store!storeVars)
  <2> SUFFICES ASSUME IInv, Next PROVE [Store!Next]_(Store!storeVars)
    BY DEF vars, Loaded
  <2> PICK s : Savers = {s}
    BY DEF Alone
  <2> USE DEF Store!Begin, Store!Commit, Store!Abort, Store!Crash
  <2>0. /\ taken \in Nat /\ data \in [Savers -> 0 .. MaxSnapshot] /\ MaxSnapshot \in Nat
        /\ data[s] = 0 <=> pc[s] = "idle"
    BY StorageAssumption DEF IInv, Types, Newest, Descriptor
  <2>1. CASE Rename(s)
    <3>1. Loaded' = data[s]
      BY <2>1, LoadedSteps DEF Rename, Loaded, IInv, Types, Descriptor
    <3> QED
      BY <2>0, <2>1, <3>1 DEF Rename, Leave
  <2>2. CASE ~Rename(s)
    <3>1. Loaded' = Loaded
      BY <2>2, LoadedSteps
    <3>2. CASE Crash
      BY <3>1, <3>2 DEF Crash
    <3>3. CASE Begin(s)
      <4>1. taken + 1 \in Snapshots /\ data' = [data EXCEPT ![s] = taken + 1]
        BY <2>0, <3>3 DEF Begin, Snapshots
      <4> QED
        BY <2>0, <3>1, <3>3, <4>1 DEF Begin
    <3>4. CASE Open(s) \/ Write(s) \/ RenameFails(s)
      BY <3>1, <3>4 DEF Open, Write, RenameFails
    <3>5. CASE OpenFails(s) \/ WriteFails(s) \/ RemoveTmp(s)
      BY <2>0, <3>1, <3>5 DEF OpenFails, WriteFails, RemoveTmp, Leave
    <3> QED
      BY <2>2, <3>2, <3>3, <3>4, <3>5 DEF Next
  <2> QED
    BY <2>1, <2>2
<1> QED
  BY OneSaver, <1>1, <1>2, PTL DEF Spec

\* Any number of savers: neither a save nor its clean-up takes a file that was
\* saved once away.
THEOREM FileNeverVanishes == Spec => NeverVanishes
<1>1. [Next]_vars => [target # NoFile => target' # NoFile]_vars
  BY DEF Next, Crash, Begin, Open, OpenFails, Write, WriteFails, Rename, RenameFails,
         RemoveTmp, vars
<1> QED
  BY <1>1, PTL DEF Spec, NeverVanishes
=============================================================================
