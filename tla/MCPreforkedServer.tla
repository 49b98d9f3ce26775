------------------------- MODULE MCPreforkedServer -------------------------
(***************************************************************************)
(* Small instances of PreforkedServer.  Threads, children and clients are  *)
(* interchangeable; symmetry is used where only safety is checked.         *)
(***************************************************************************)
EXTENDS PreforkedServer, TLC

Symmetry == Permutations(Threads) \cup Permutations(Children) \cup Permutations(Clients)
=============================================================================
