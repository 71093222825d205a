--------------------------- MODULE MCChaseLevDeque ---------------------------
(***************************************************************************)
(* ChaseLevDeque for TLC.  Tasks are numbers, pushed in their order: which *)
(* task it is makes no difference to the deque.  (Permuting them would not *)
(* do where a liveness property is checked.)                               *)
(***************************************************************************)
EXTENDS ChaseLevDeque

InOrder == \A k \in pushed : k = 1 \/ k - 1 \in pushed
=============================================================================
