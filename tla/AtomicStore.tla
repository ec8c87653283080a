----------------------------- MODULE AtomicStore ----------------------------
(***************************************************************************)
(* What core.StorageInterface promises the metrics service: a save either  *)
(* happens as a whole or not at all, so that what is stored is always one  *)
(* complete snapshot, and a restart of the process finds it there.         *)
(***************************************************************************)
CONSTANTS Savers,      \* the goroutines that save
          Snapshots,   \* what they save
          Nothing      \* no snapshot

VARIABLES stored,   \* the snapshot a load would return
          saving    \* the snapshot each saver is about to store

storeVars == <<stored, saving>>

Init == stored = Nothing /\ saving = [s \in Savers |-> Nothing]

Begin(s) == /\ saving[s] = Nothing
            /\ \E d \in Snapshots : saving' = [saving EXCEPT ![s] = d]
            /\ UNCHANGED stored

Commit(s) == /\ saving[s] # Nothing
             /\ stored' = saving[s]
             /\ saving' = [saving EXCEPT ![s] = Nothing]

\* The save failed and the caller was told so.
Abort(s) == /\ saving[s] # Nothing
            /\ saving' = [saving EXCEPT ![s] = Nothing]
            /\ UNCHANGED stored

Crash == saving' = [s \in Savers |-> Nothing] /\ UNCHANGED stored

Next == Crash \/ \E s \in Savers : Begin(s) \/ Commit(s) \/ Abort(s)

Spec == Init /\ [][Next]_storeVars
=============================================================================
