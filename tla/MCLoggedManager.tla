--------------------------- MODULE MCLoggedManager ---------------------------
(***************************************************************************)
(* A small instance of LoggedManager.                                      *)
(***************************************************************************)
EXTENDS LoggedManager

CONSTANT MaxFd

MCFds == 0 .. MaxFd

=============================================================================
