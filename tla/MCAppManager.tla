---------------------------- MODULE MCAppManager ----------------------------
(***************************************************************************)
(* Small instances of AppManager.  Connections and tasks are               *)
(* interchangeable; descriptors are not, the kernel hands out the lowest.  *)
(***************************************************************************)
EXTENDS AppManager

CONSTANT MaxFd

MCFds == 0 .. MaxFd

Symmetry == Permutations(Clients) \cup Permutations(Tasks)

=============================================================================
