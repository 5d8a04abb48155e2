----------------------------- MODULE AtomicStore ---------------------------
(***************************************************************************)
(* What StorageBackend.transaction() promises of every process's store: a  *)
(* block of changes happens as a whole or not at all, and what has         *)
(* happened stays. `Do` is the effect of a block.                          *)
(***************************************************************************)
CONSTANTS Process, Blocks, Empty, Do(_, _)

VARIABLE store

Init == store = [p \in Process |-> Empty]
Commit(p, b) == store' = [store EXCEPT ![p] = Do(b, @)]
Next == \E p \in Process, b \in Blocks : Commit(p, b)
Spec == Init /\ [][Next]_store
============================================================================
