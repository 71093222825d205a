--------------------------- MODULE MCLockFreeQueue ---------------------------
(***************************************************************************)
(* LockFreeQueue with its tasks submitted in one order, as which is which  *)
(* makes no difference to the ring; but those that may never return come   *)
(* at any time.                                                            *)
(***************************************************************************)
EXTENDS LockFreeQueue

\* Tasks are numbers here.
Due(k) == k \in Endless \/ \A j \in Tasks \ Endless : Fresh(j) => k <= j

InOrder == \A t \in Threads : arg'[t] \notin {arg[t], NULL} => Due(arg'[t])

MCSpec == Init /\ [][Next /\ InOrder]_vars /\ Fairness
=============================================================================
